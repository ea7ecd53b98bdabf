------------------------- MODULE ManagementProofs -------------------------
(***************************************************************************)
(* The safety invariants of Management, for any set of devices, executables,*)
(* modes and profiles.  Each relates what runs to the configuration, and is *)
(* re-established at the end of a save from what its beginning checked: the *)
(* inductive invariant therefore says what a pending save still knows.      *)
(***************************************************************************)
EXTENDS Management, TLAPS

\* What a save in flight checked, and nothing since could undo: its enabled
\* executables have no session, a listener change disables everything, and a
\* profile's save enables the profile's devices.
PendingSave ==
  req.busy =>
    /\ \A n \in Names : On(req.f, n) => req.f.exec[n] \notin Open
    /\ (req.f.mode # config.mode => \A n \in Names : ~On(req.f, n))
    /\ (req.profile # NoProfile => Matches(req.f, profiles[req.profile].sel))

\* Nothing outlives the process but its files.
DownIsIdle ==
  ~up => /\ ~req.busy /\ wm.active = NoProfile /\ Open = {}
         /\ \A n \in Names : ~Active(n)

IInv ==
  /\ TypeOK /\ PendingSave /\ DownIsIdle
  /\ NoCompetingInstance /\ ActiveIsEnabled /\ RoutesFollowActive
  /\ ObserversCurrent /\ LabelMatchesFlags

-----------------------------------------------------------------------------
\* The configuration of a first run, and its mode.
LEMMA EmptyTyped == EmptyConfig \in Configs /\ 0 \in Addrs /\ NoListener \in Listeners
  BY ManagementAssumption DEF EmptyConfig, Configs, Flags, EmptyMode, Addrs, Listeners

\* A mode's INDI port is one of the addresses.
LEMMA ModeAddr == ASSUME NEW f \in Configs PROVE f.mode.indi \in Addrs /\ f.mode.alpaca \in BOOLEAN
  <1>1. f.mode \in Modes
    BY DEF Configs
  <1> QED
    BY <1>1, ManagementAssumption DEF Addrs

\* startINDI makes a listener or none, and none exactly for port 0.
LEMMA ListenerTyped ==
  ASSUME NEW f \in Configs
  PROVE  Listener(f) \in Listeners
  BY ModeAddr DEF Listener, Listeners

\* start makes a runtime entry with the entry's executable, whose observer is
\* the current server when there is one.
LEMMA StartedTyped ==
  ASSUME NEW f \in Configs, NEW n \in Names, NEW i
  PROVE  /\ Started(f, n, i) \in Runs
         /\ Started(f, n, i).st \in {"running", "failed"}
         /\ Started(f, n, i).exec = f.exec[n]
         /\ (Built(Started(f, n, i)) =>
               Started(f, n, i).obs = IF i.st = "none" THEN "none" ELSE "current")
  <1>1. f.exec[n] \in Execs \cup {NoExec}
    BY DEF Configs
  <1> QED
    BY <1>1, ModeAddr DEF Started, Runs, RunStates, Built

\* syncRoutes keeps the types and routes to the runtimes that were built.
LEMMA SyncRoutesSound ==
  ASSUME NEW f \in Configs, NEW act \in [Names -> Runs], NEW i \in Listeners, TypeOK,
         SyncRoutes(f, act, i)
  PROVE  /\ disc' \in BOOLEAN /\ ports' \subseteq Names
         /\ routes' \in [Names -> {"none", "current", "old"}]
         /\ \A n \in Names :
              routes'[n] = IF i.st # "none" /\ n \in Configured(f) /\ Built(act[n])
                           THEN "current" ELSE "none"
  BY DEF SyncRoutes, TypeOK, Configured

\* Setting a flag gives a configuration.
LEMMA WithFlagTyped ==
  ASSUME NEW f \in Configs, NEW n \in Names, NEW flag \in Flags
  PROVE  WithFlag(f, n, flag) \in Configs
  BY DEF WithFlag, Configs

\* So do the editors' changes.
LEMMA EditsTyped ==
  ASSUME NEW f \in Configs
  PROVE  /\ \A n \in Names, flag \in Flags, e \in Execs : WithEntry(f, n, flag, e) \in Configs
         /\ \A m \in Modes : WithMode(f, m) \in Configs
         /\ AllOff(f) \in Configs
  BY DEF WithEntry, WithMode, AllOff, Configs, Flags

\* Applying a profile gives a configuration in which the profile's devices are
\* the enabled ones.
LEMMA WithSelectedSound ==
  ASSUME NEW f \in Configs, NEW sel \in SUBSET Configured(f)
  PROVE  WithSelected(f, sel) \in Configs /\ Matches(WithSelected(f, sel), sel)
  BY DEF WithSelected, Configs, Flags, Configured, Matches, On

-----------------------------------------------------------------------------
\* Init establishes the invariant.
LEMMA InitHolds == Init => IInv
  <1> SUFFICES ASSUME Init PROVE IInv
    OBVIOUS
  <1> USE DEF Init
  <1>1. TypeOK
    <2>1. disk \in Revisions /\ rev \in Revisions
      BY ManagementAssumption DEF Revisions
    <2>2. NoRun \in Runs
      BY DEF NoRun, Runs, RunStates
    <2>3. Absent \in Records /\ NoSelection \in Selections
      BY EmptyTyped DEF Absent, Records, NoSelection, Selections
    <2>4. NoReq \in Saves
      BY EmptyTyped DEF NoReq, Saves, Revisions
    <2> QED
      BY <2>1, <2>2, <2>3, <2>4, EmptyTyped DEF TypeOK
  <1>2. ~req.busy /\ Open = {} /\ (\A n \in Names : active[n].st = "none") /\ ~up
        /\ wm.active = NoProfile
    BY DEF NoReq, Open, NoRun, NoSelection
  <1> QED
    BY <1>1, <1>2 DEF IInv, PendingSave, DownIsIdle, NoCompetingInstance, ActiveIsEnabled,
       RoutesFollowActive, ObserversCurrent, LabelMatchesFlags, Active, Built

\* Starting the process establishes it: no session can be open yet.
LEMMA BootHolds == IInv /\ Boot => IInv'
  <1> SUFFICES ASSUME IInv, Boot PROVE IInv'
    OBVIOUS
  <1> USE DEF IInv
  <1>1. config' \in Configs /\ rev' \in Revisions
    BY EmptyTyped DEF Boot, TypeOK
  <1>2. indi' \in Listeners
    BY <1>1, ListenerTyped DEF Boot
  <1>3. NoRun \in Runs
    BY DEF NoRun, Runs, RunStates
  <1>4. /\ active' \in [Names -> Runs]
        /\ \A n \in Names : active'[n] = IF On(config', n) THEN Started(config', n, indi') ELSE NoRun
    BY <1>1, <1>3, StartedTyped DEF Boot
  <1>5. /\ disc' \in BOOLEAN /\ ports' \subseteq Names
        /\ routes' \in [Names -> {"none", "current", "old"}]
        /\ \A n \in Names :
             routes'[n] = IF indi'.st # "none" /\ n \in Configured(config') /\ Built(active'[n])
                          THEN "current" ELSE "none"
    <2>1. SyncRoutes(config', active', indi')
      BY DEF Boot
    <2> QED
      BY <2>1, <1>1, <1>2, <1>4, SyncRoutesSound
  <1>6. TypeOK'
    BY <1>1, <1>2, <1>4, <1>5 DEF Boot, TypeOK
  <1>7. \A n \in Names : (active'[n].st # "none" <=> On(config', n))
    BY <1>1, <1>4, StartedTyped DEF NoRun
  <1>8. Open' = {} /\ up'
    BY DEF Boot, Open, DownIsIdle
  <1>9. NoCompetingInstance'
    BY <1>8 DEF NoCompetingInstance
  <1>10. ActiveIsEnabled'
    BY <1>7 DEF ActiveIsEnabled, Active
  <1>11. RoutesFollowActive'
    BY <1>5, <1>7 DEF RoutesFollowActive, Built, Configured, On
  <1>12. ObserversCurrent'
    BY <1>1, <1>4, <1>7, StartedTyped DEF ObserversCurrent, Built, NoRun
  <1>13. PendingSave' /\ LabelMatchesFlags'
    BY DEF Boot, PendingSave, LabelMatchesFlags, DownIsIdle
  <1> QED
    BY <1>6, <1>8, <1>9, <1>10, <1>11, <1>12, <1>13 DEF DownIsIdle

\* Ending the process forgets everything the invariant is about.
LEMMA ExitHolds == IInv /\ Exit => IInv'
  <1> SUFFICES ASSUME IInv, Exit PROVE IInv'
    OBVIOUS
  <1> USE DEF IInv
  <1>1. TypeOK'
    <2>1. NoRun \in Runs
      BY DEF NoRun, Runs, RunStates
    <2>2. NoSelection \in Selections
      BY DEF NoSelection, Selections
    <2>3. NoReq \in Saves
      BY EmptyTyped DEF NoReq, Saves, Revisions
    <2>4. Missing \in Revisions
      BY DEF Revisions
    <2> QED
      BY <2>1, <2>2, <2>3, <2>4, EmptyTyped DEF Exit, TypeOK
  <1>2. ~req'.busy /\ Open' = {} /\ (\A n \in Names : active'[n].st = "none") /\ ~up'
        /\ wm'.active = NoProfile
    BY DEF Exit, NoReq, Open, NoRun, NoSelection
  <1> QED
    BY <1>1, <1>2 DEF PendingSave, DownIsIdle, NoCompetingInstance, ActiveIsEnabled,
       RoutesFollowActive, ObserversCurrent, LabelMatchesFlags, Active, Built

-----------------------------------------------------------------------------
\* What the checks at the start of a save put into the pending save.
LEMMA SaveBeginHolds ==
  ASSUME IInv, NEW f \in Configs, NEW expected, NEW p \in Profiles \cup {NoProfile},
         NEW x \in Execs \cup {NoExec}, SaveBegin(f, expected, p, x),
         p # NoProfile => Matches(f, profiles[p].sel)
  PROVE  IInv'
  <1> USE DEF IInv
  <1>1. req' = [busy |-> TRUE, f |-> f, profile |-> p, exec |-> x]
    BY DEF SaveBegin
  <1>2. req' \in Saves
    BY <1>1 DEF Saves, TypeOK
  <1>3. TypeOK'
    BY <1>2 DEF SaveBegin, TypeOK
  <1>4. PendingSave'
    <2>1. \A n \in Names : On(f, n) => f.exec[n] \notin Open
      BY DEF SaveBegin, Valid
    <2>2. f.mode # config.mode => \A n \in Names : ~On(f, n)
      BY DEF SaveBegin, ListenerGuard
    <2>3. Open' = Open /\ config' = config /\ profiles' = profiles
      BY DEF SaveBegin, Open
    <2> QED
      BY <1>1, <2>1, <2>2, <2>3 DEF PendingSave, On
  <1>5. up /\ UNCHANGED <<up, config, problem, active, indi, routes, sessions, wm>>
    BY DEF SaveBegin, Unlocked
  <1>6. DownIsIdle' /\ NoCompetingInstance' /\ ActiveIsEnabled'
    BY <1>5 DEF DownIsIdle, NoCompetingInstance, ActiveIsEnabled, Active, Open
  <1>7. RoutesFollowActive' /\ ObserversCurrent' /\ LabelMatchesFlags'
    BY <1>5 DEF RoutesFollowActive, ObserversCurrent, LabelMatchesFlags
  <1> QED
    BY <1>3, <1>4, <1>6, <1>7

\* A save that could not write changes nothing.
LEMMA SaveFailsHolds == IInv /\ SaveFails => IInv'
  <1> SUFFICES ASSUME IInv, SaveFails PROVE IInv'
    OBVIOUS
  <1> USE DEF IInv
  <1>1. NoReq \in Saves /\ ~NoReq.busy
    BY EmptyTyped DEF NoReq, Saves, Revisions
  <1>2. TypeOK'
    BY <1>1 DEF SaveFails, TypeOK
  <1>3. PendingSave'
    BY <1>1 DEF SaveFails, PendingSave
  <1>4. up /\ UNCHANGED <<up, config, problem, active, indi, routes, sessions, wm>>
    BY DEF SaveFails
  <1>5. DownIsIdle' /\ NoCompetingInstance' /\ ActiveIsEnabled'
    BY <1>4 DEF DownIsIdle, NoCompetingInstance, ActiveIsEnabled, Active, Open
  <1>6. RoutesFollowActive' /\ ObserversCurrent' /\ LabelMatchesFlags'
    BY <1>4 DEF RoutesFollowActive, ObserversCurrent, LabelMatchesFlags
  <1> QED
    BY <1>2, <1>3, <1>5, <1>6

\* A save whose stop gives up leaves fewer drivers, each with the executable and
\* the observer it had, and reports a problem.
LEMMA SaveHalfwayHolds == IInv /\ SaveHalfway => IInv'
  <1> SUFFICES ASSUME IInv, SaveHalfway PROVE IInv'
    OBVIOUS
  <1> USE DEF IInv
  <1>1. NoReq \in Saves /\ ~NoReq.busy
    BY EmptyTyped DEF NoReq, Saves, Revisions
  <1>2. req.f \in Configs /\ req.f \in Revisions
    BY DEF TypeOK, Saves, Revisions
  <1>3. NoRun \in Runs
    BY DEF NoRun, Runs, RunStates
  <1>4. PICK bad \in Names, stopped \in SUBSET Names :
          /\ Waits(active[bad])
          /\ active' = [n \in Names |-> IF n \in stopped THEN NoRun
                                        ELSE IF n = bad THEN [active[n] EXCEPT !.st = "cancelled"]
                                        ELSE active[n]]
          /\ routes' = [n \in Names |-> IF n \in stopped THEN Stale(routes[n]) ELSE routes[n]]
    BY DEF SaveHalfway
  <1>5. \A n \in Names : active[n] \in Runs
    BY DEF TypeOK
  <1>6. \A n \in Names : active'[n] \in Runs
    BY <1>3, <1>4, <1>5 DEF Runs, RunStates
  <1>7. active' \in [Names -> Runs]
    BY <1>4, <1>6
  <1>8. routes' \in [Names -> {"none", "current", "old"}]
    BY <1>4 DEF TypeOK, Stale
  <1>9. TypeOK'
    BY <1>1, <1>2, <1>7, <1>8 DEF SaveHalfway, TypeOK
  <1>10. \A n \in Names : active'[n].st # "none" =>
           /\ active[n].st # "none" /\ active'[n].exec = active[n].exec
           /\ (Built(active'[n]) => Built(active[n]) /\ active'[n].obs = active[n].obs)
    BY <1>4, <1>5 DEF NoRun, Waits, Built, Runs
  <1>11. NoCompetingInstance'
    BY <1>10 DEF NoCompetingInstance, Active, Open, SaveHalfway
  <1>12. ObserversCurrent'
    BY <1>10 DEF ObserversCurrent, SaveHalfway, Built
  <1>13. PendingSave' /\ DownIsIdle'
    BY <1>1 DEF SaveHalfway, PendingSave, DownIsIdle
  <1>14. ActiveIsEnabled' /\ RoutesFollowActive' /\ LabelMatchesFlags'
    BY DEF SaveHalfway, ActiveIsEnabled, RoutesFollowActive, LabelMatchesFlags
  <1> QED
    BY <1>9, <1>11, <1>12, <1>13, <1>14

\* Only the observer of a surviving runtime changes with the listener.
LEMMA OutlivedTyped ==
  ASSUME NEW r \in Runs
  PROVE  Outlived(r) \in Runs /\ Outlived(r).st = r.st /\ Outlived(r).exec = r.exec
  BY DEF Outlived, Stale, Runs

\* What active holds after a save: the enabled devices, started now or before.
LEMMA RuntimesSound ==
  ASSUME TypeOK, NEW f \in Configs, NEW moved \in BOOLEAN, NEW i
  PROVE  /\ Runtimes(f, moved, i) \in [Names -> Runs]
         /\ \A n \in Names :
              LET r == Runtimes(f, moved, i)[n] IN
              /\ (r.st # "none" <=> On(f, n))
              /\ (r.st # "none" => r.exec = f.exec[n] \/ (Active(n) /\ r.exec = active[n].exec))
              /\ (~moved /\ Active(n) /\ On(f, n) => r = active[n])
              /\ (~Active(n) /\ On(f, n) => r = Started(f, n, i))
  <1> DEFINE R == Runtimes(f, moved, i)
  <1>1. NoRun \in Runs /\ NoRun.st = "none"
    BY DEF NoRun, Runs, RunStates
  <1>2. \A n \in Names : active[n] \in Runs
    BY DEF TypeOK
  <1>3. \A n \in Names : /\ Outlived(active[n]) \in Runs
                         /\ Outlived(active[n]).st = active[n].st
                         /\ Outlived(active[n]).exec = active[n].exec
    BY <1>2, OutlivedTyped
  <1>4. \A n \in Names :
          R[n] = IF ~On(f, n) THEN NoRun
                 ELSE IF ~Active(n) THEN Started(f, n, i)
                 ELSE IF moved THEN Outlived(active[n])
                 ELSE active[n]
    BY DEF Runtimes
  <1>5. \A n \in Names : R[n] \in Runs
    BY <1>1, <1>2, <1>3, <1>4, StartedTyped
  <1>6. R \in [Names -> Runs]
    BY <1>5 DEF Runtimes
  <1>7. \A n \in Names : (R[n].st # "none" <=> On(f, n))
    BY <1>1, <1>3, <1>4, StartedTyped DEF Active
  <1>8. \A n \in Names : R[n].st # "none" =>
          R[n].exec = f.exec[n] \/ (Active(n) /\ R[n].exec = active[n].exec)
    BY <1>1, <1>3, <1>4, StartedTyped
  <1> QED
    BY <1>4, <1>6, <1>7, <1>8

\* A save that ends re-establishes everything from what its start checked.
LEMMA SaveEndsHolds == IInv /\ SaveEnds => IInv'
  <1> SUFFICES ASSUME IInv, SaveEnds PROVE IInv'
    OBVIOUS
  <1> USE DEF IInv
  <1> DEFINE f == req.f
             moved == f.mode.indi # config.mode.indi
  <1>1. NoReq \in Saves /\ ~NoReq.busy /\ NoSelection \in Selections /\ NoSelection.active = NoProfile
    BY EmptyTyped DEF NoReq, Saves, Revisions, NoSelection, Selections
  <1>2. f \in Configs /\ f \in Revisions /\ req.profile \in Profiles \cup {NoProfile}
    BY DEF TypeOK, Saves, Revisions
  <1>3. /\ up /\ up' /\ req.busy /\ req' = NoReq
        /\ config' = f /\ rev' = f /\ disk' = f /\ problem' = FALSE
        /\ indi' = (IF moved THEN Listener(f) ELSE indi)
        /\ active' = Runtimes(f, moved, indi')
        /\ wm' = Selection(f, moved)
        /\ SyncRoutes(f, active', indi')
        /\ profiles' = profiles
        /\ sessions' = [x \in Execs |-> IF x = req.exec THEN "none" ELSE sessions[x]]
    BY DEF SaveEnds
  <1>4. indi' \in Listeners
    BY <1>2, <1>3, ListenerTyped DEF TypeOK
  <1>5. active' \in [Names -> Runs] /\ (\A n \in Names : active'[n].st # "none" <=> On(f, n))
    BY <1>2, <1>3, RuntimesSound
  <1>6. \A n \in Names : active'[n].st # "none" =>
          active'[n].exec = f.exec[n] \/ (Active(n) /\ active'[n].exec = active[n].exec)
    BY <1>2, <1>3, RuntimesSound
  <1>7. \A n \in Names :
          /\ (~moved /\ Active(n) /\ On(f, n) => active'[n] = active[n])
          /\ (~Active(n) /\ On(f, n) => active'[n] = Started(f, n, indi'))
    BY <1>2, <1>3, RuntimesSound
  <1>8. /\ disc' \in BOOLEAN /\ ports' \subseteq Names
        /\ routes' \in [Names -> {"none", "current", "old"}]
        /\ \A n \in Names :
             routes'[n] = IF indi'.st # "none" /\ n \in Configured(f) /\ Built(active'[n])
                          THEN "current" ELSE "none"
    BY <1>2, <1>3, <1>4, <1>5, SyncRoutesSound
  <1>9. wm' \in Selections
    <2>1. req.profile # NoProfile => profiles[req.profile] \in Records
      BY <1>2 DEF TypeOK
    <2> QED
      BY <1>1, <1>2, <1>3, <2>1 DEF Selection, TypeOK, Selections, Records
  <1>10. sessions' \in [Execs -> {"none", "armed", "fired", "rearmed", "expired"}] /\ Open' \subseteq Open
    BY <1>3 DEF TypeOK, Open
  <1>11. TypeOK'
    BY <1>1, <1>2, <1>3, <1>4, <1>5, <1>8, <1>9, <1>10 DEF TypeOK
  <1>12. NoCompetingInstance'
    <2>1. \A n \in Names : On(f, n) => f.exec[n] \notin Open
      BY <1>3 DEF PendingSave
    <2>2. \A n \in Names : Active(n) => active[n].exec \notin Open
      BY DEF NoCompetingInstance
    <2>3. \A n \in Names : active'[n].st # "none" => active'[n].exec \notin Open
      BY <1>5, <1>6, <2>1, <2>2
    <2> QED
      BY <1>10, <2>3 DEF NoCompetingInstance, Active
  <1>13. ActiveIsEnabled'
    BY <1>3, <1>5 DEF ActiveIsEnabled, Active
  <1>14. RoutesFollowActive'
    <2>1. \A n \in Names : Built(active'[n]) => n \in Configured(f)
      BY <1>5 DEF Built, On, Configured
    <2> QED
      BY <1>8, <2>1 DEF RoutesFollowActive, Built
  <1>15. ObserversCurrent'
    <2>1. CASE moved
      <3>1. \A n \in Names : ~On(f, n)
        BY <1>3, <2>1 DEF PendingSave
      <3> QED
        BY <1>5, <3>1 DEF ObserversCurrent, Built
    <2>2. CASE ~moved
      <3>1. indi' = indi
        BY <1>3, <2>2
      <3>2. ASSUME NEW n \in Names, Built(active'[n])
            PROVE  active'[n].obs = IF indi'.st = "none" THEN "none" ELSE "current"
        <4>1. On(f, n)
          BY <1>5, <3>2 DEF Built
        <4>2. CASE Active(n)
          BY <1>7, <2>2, <3>1, <3>2, <4>1, <4>2 DEF ObserversCurrent
        <4>3. CASE ~Active(n)
          BY <1>2, <1>7, <3>2, <4>1, <4>3, StartedTyped
        <4> QED
          BY <4>2, <4>3
      <3> QED
        BY <3>2 DEF ObserversCurrent, Built
    <2> QED
      BY <2>1, <2>2
  <1>16. LabelMatchesFlags'
    <2>1. wm'.active # NoProfile => Matches(f, wm'.sel)
      <3>1. CASE req.profile # NoProfile
        BY <1>3, <3>1 DEF PendingSave, Selection
      <3>2. CASE req.profile = NoProfile
        BY <1>1, <1>3, <3>2 DEF Selection
      <3> QED
        BY <3>1, <3>2
    <2> QED
      BY <1>3, <2>1 DEF LabelMatchesFlags, Matches, On
  <1>17. PendingSave' /\ DownIsIdle'
    BY <1>1, <1>3 DEF PendingSave, DownIsIdle
  <1> QED
    BY <1>11, <1>12, <1>13, <1>14, <1>15, <1>16, <1>17

-----------------------------------------------------------------------------
\* A restart checks the whole configuration first, sessions included.
LEMMA RestartHolds ==
  ASSUME IInv, NEW n \in Names, RestartEnds(n)
  PROVE  IInv'
  <1> USE DEF IInv
  <1>1. /\ up /\ up' /\ On(config, n) /\ Valid(config)
        /\ active' = [active EXCEPT ![n] = Started(config, n, indi)]
        /\ SyncRoutes(config, active', indi)
        /\ UNCHANGED <<up, disk, rev, config, problem, indi, sessions, profiles, wm, req>>
    BY DEF RestartEnds, Unlocked
  <1>2. /\ Started(config, n, indi) \in Runs
        /\ Started(config, n, indi).st # "none"
        /\ Started(config, n, indi).exec = config.exec[n]
        /\ (Built(Started(config, n, indi)) =>
              Started(config, n, indi).obs = IF indi.st = "none" THEN "none" ELSE "current")
    BY StartedTyped DEF TypeOK
  <1>3. /\ active' \in [Names -> Runs]
        /\ active'[n] = Started(config, n, indi)
        /\ \A m \in Names \ {n} : active'[m] = active[m]
    BY <1>1, <1>2 DEF TypeOK
  <1>4. /\ disc' \in BOOLEAN /\ ports' \subseteq Names
        /\ routes' \in [Names -> {"none", "current", "old"}]
        /\ \A m \in Names :
             routes'[m] = IF indi.st # "none" /\ m \in Configured(config) /\ Built(active'[m])
                          THEN "current" ELSE "none"
    <2>1. config \in Configs /\ indi \in Listeners /\ TypeOK
      BY DEF TypeOK
    <2>2. SyncRoutes(config, active', indi) /\ active' \in [Names -> Runs]
      BY <1>1, <1>3
    <2> HIDE DEF IInv
    <2> QED
      BY <2>1, <2>2, SyncRoutesSound
  <1>5. TypeOK'
    BY <1>1, <1>3, <1>4 DEF TypeOK
  <1>6. NoCompetingInstance'
    <2>1. config.exec[n] \notin Open /\ Open' = Open
      BY <1>1 DEF Valid, Open
    <2> QED
      BY <1>2, <1>3, <2>1 DEF NoCompetingInstance, Active
  <1>7. ActiveIsEnabled'
    BY <1>1, <1>2, <1>3 DEF ActiveIsEnabled, Active, On
  <1>8. RoutesFollowActive'
    <2>1. ~problem' /\ up' => \A m \in Names : Built(active'[m]) => m \in Configured(config)
      BY <1>1, <1>7 DEF ActiveIsEnabled, Active, Built, On, Configured
    <2> QED
      BY <1>1, <1>4, <2>1 DEF RoutesFollowActive, Built
  <1>9. ObserversCurrent'
    BY <1>1, <1>2, <1>3 DEF ObserversCurrent, Built
  <1>10. PendingSave' /\ DownIsIdle' /\ LabelMatchesFlags'
    BY <1>1 DEF PendingSave, DownIsIdle, LabelMatchesFlags, Open, On, Matches
  <1> QED
    BY <1>5, <1>6, <1>7, <1>8, <1>9, <1>10

\* A runtime changes its progress only: it stays built and stays active.
LEMMA ProgressHolds ==
  ASSUME IInv, NEW n \in Names, NEW s \in {"error", "cancelled", "ended"},
         active[n].st \in {"running", "cancelled"},
         active' = [active EXCEPT ![n].st = s],
         UNCHANGED <<up, disk, rev, config, problem, indi, disc, ports, routes, sessions, profiles, wm, req>>
  PROVE  IInv'
  <1> USE DEF IInv
  <1>1. active[n] \in Runs
    BY DEF TypeOK
  <1>2. /\ active'[n] \in Runs /\ active'[n].st = s
        /\ active'[n].exec = active[n].exec /\ active'[n].obs = active[n].obs
    BY <1>1 DEF Runs, RunStates, TypeOK
  <1>3. active' \in [Names -> Runs] /\ \A m \in Names \ {n} : active'[m] = active[m]
    BY <1>2 DEF TypeOK
  <1>4. TypeOK'
    BY <1>3 DEF TypeOK
  <1>5. \A m \in Names :
          /\ (active'[m].st # "none" <=> active[m].st # "none") /\ (Built(active'[m]) <=> Built(active[m]))
          /\ active'[m].exec = active[m].exec /\ active'[m].obs = active[m].obs
    BY <1>2, <1>3 DEF Built
  <1>6. DownIsIdle' /\ NoCompetingInstance' /\ ActiveIsEnabled'
    BY <1>5 DEF DownIsIdle, NoCompetingInstance, ActiveIsEnabled, Active, Open, On
  <1>7. RoutesFollowActive' /\ ObserversCurrent'
    BY <1>5 DEF RoutesFollowActive, ObserversCurrent, Built
  <1>8. PendingSave' /\ LabelMatchesFlags'
    BY DEF PendingSave, LabelMatchesFlags, Open, On, Matches
  <1> QED
    BY <1>4, <1>6, <1>7, <1>8

\* Clearing the label touches no driver, and routes to what runs.
LEMMA StopProfileHolds == IInv /\ StopProfile => IInv'
  <1> SUFFICES ASSUME IInv, StopProfile PROVE IInv'
    OBVIOUS
  <1> USE DEF IInv
  <1>1. /\ up /\ wm' = NoSelection /\ SyncRoutes(config, active, indi)
        /\ UNCHANGED <<up, disk, rev, config, problem, active, indi, sessions, profiles, req>>
    BY DEF StopProfile, Unlocked
  <1>2. /\ disc' \in BOOLEAN /\ ports' \subseteq Names
        /\ routes' \in [Names -> {"none", "current", "old"}]
        /\ \A m \in Names :
             routes'[m] = IF indi.st # "none" /\ m \in Configured(config) /\ Built(active[m])
                          THEN "current" ELSE "none"
    BY <1>1, SyncRoutesSound DEF TypeOK
  <1>3. NoSelection \in Selections /\ NoSelection.active = NoProfile
    BY DEF NoSelection, Selections
  <1>4. TypeOK'
    BY <1>1, <1>2, <1>3 DEF TypeOK
  <1>5. RoutesFollowActive'
    <2>1. ~problem /\ up => \A m \in Names : Built(active[m]) => m \in Configured(config)
      BY DEF ActiveIsEnabled, Active, Built, On, Configured
    <2> QED
      BY <1>1, <1>2, <2>1 DEF RoutesFollowActive, Built
  <1>6. PendingSave' /\ DownIsIdle' /\ LabelMatchesFlags'
    BY <1>1, <1>3 DEF PendingSave, DownIsIdle, LabelMatchesFlags, Open, On, Matches
  <1>7. NoCompetingInstance' /\ ActiveIsEnabled' /\ ObserversCurrent'
    BY <1>1 DEF NoCompetingInstance, ActiveIsEnabled, ObserversCurrent, Active, Open, On, Built
  <1> QED
    BY <1>4, <1>5, <1>6, <1>7

\* Editing a profile while no save is pending disturbs nothing: the label keeps
\* its own copy of the selection.
LEMMA SetProfileHolds ==
  ASSUME IInv, NEW p \in Profiles, NEW v \in Records, SetProfile(p, v)
  PROVE  IInv'
  <1> USE DEF IInv
  <1>1. /\ up /\ ~req.busy /\ profiles' \in [Profiles -> Records]
        /\ UNCHANGED <<up, disk, rev, config, problem, active, indi, disc, ports, routes, sessions, wm, req>>
    BY DEF SetProfile, Unlocked, TypeOK
  <1>2. TypeOK'
    BY <1>1 DEF TypeOK
  <1>3. PendingSave' /\ DownIsIdle' /\ NoCompetingInstance' /\ ActiveIsEnabled'
    BY <1>1 DEF PendingSave, DownIsIdle, NoCompetingInstance, ActiveIsEnabled, Active, Open
  <1>4. RoutesFollowActive' /\ ObserversCurrent' /\ LabelMatchesFlags'
    BY <1>1 DEF RoutesFollowActive, ObserversCurrent, LabelMatchesFlags
  <1> QED
    BY <1>2, <1>3, <1>4

\* A session changes: it opens only when the lock is free and no driver runs its
\* executable, and otherwise stays as open as it was or closes.
LEMMA SetSessionHolds ==
  ASSUME IInv, NEW x \in Execs, NEW s \in {"none", "armed", "fired", "rearmed", "expired"},
         SetSession(x, s), up,
         x \in Open' /\ x \notin Open =>
           ~req.busy /\ \A n \in Names : Active(n) => active[n].exec # x
  PROVE  IInv'
  <1> USE DEF IInv
  <1>1. UNCHANGED <<up, disk, rev, config, problem, active, indi, disc, ports, routes, profiles, wm, req>>
    BY DEF SetSession
  <1>2. /\ sessions' \in [Execs -> {"none", "armed", "fired", "rearmed", "expired"}]
        /\ Open' \subseteq Open \cup {x}
    BY DEF SetSession, TypeOK, Open
  <1>3. TypeOK'
    BY <1>1, <1>2 DEF TypeOK
  <1>4. NoCompetingInstance'
    BY <1>1, <1>2 DEF NoCompetingInstance, Active
  <1>5. PendingSave'
    BY <1>1, <1>2 DEF PendingSave, On, Matches
  <1>6. DownIsIdle' /\ ActiveIsEnabled'
    BY <1>1 DEF DownIsIdle, ActiveIsEnabled, Active
  <1>7. RoutesFollowActive' /\ ObserversCurrent' /\ LabelMatchesFlags'
    BY <1>1 DEF RoutesFollowActive, ObserversCurrent, LabelMatchesFlags
  <1> QED
    BY <1>3, <1>4, <1>5, <1>6, <1>7

\* The listener's own progress, and another process editing the file.
LEMMA OutsideHolds ==
  ASSUME IInv, (\E s \in {"up", "failed"} : Listens(s)) \/ (\E c \in Drafts \cup {Broken} : EditFile(c))
  PROVE  IInv'
  <1> USE DEF IInv
  <1>1. UNCHANGED <<up, rev, config, problem, active, disc, ports, routes, sessions, profiles, wm, req>>
    BY DEF Listens, EditFile
  <1>2. indi' \in Listeners /\ (indi'.st = "none" <=> indi.st = "none")
    <2>1. CASE \E s \in {"up", "failed"} : Listens(s)
      BY <2>1 DEF Listens, TypeOK, Listeners, NoListener
    <2>2. CASE \E c \in Drafts \cup {Broken} : EditFile(c)
      BY <2>2 DEF EditFile, TypeOK
    <2> QED
      BY <2>1, <2>2
  <1>3. disk' \in Revisions
    BY ManagementAssumption DEF Listens, EditFile, TypeOK, Revisions
  <1>4. TypeOK'
    BY <1>1, <1>2, <1>3 DEF TypeOK
  <1>5. PendingSave' /\ DownIsIdle' /\ NoCompetingInstance' /\ ActiveIsEnabled' /\ LabelMatchesFlags'
    BY <1>1 DEF PendingSave, DownIsIdle, NoCompetingInstance, ActiveIsEnabled, LabelMatchesFlags,
       Active, Open, On, Matches
  <1>6. RoutesFollowActive' /\ ObserversCurrent'
    BY <1>1, <1>2 DEF RoutesFollowActive, ObserversCurrent, Built
  <1> QED
    BY <1>4, <1>5, <1>6

-----------------------------------------------------------------------------
\* Every request that begins a save satisfies the conditions of SaveBeginHolds.
LEMMA SavingHolds == IInv /\ Saving => IInv'
  <1> SUFFICES ASSUME IInv, Saving PROVE IInv'
    OBVIOUS
  <1>0. config \in Configs /\ profiles \in [Profiles -> Records] /\ Open \subseteq Execs
    BY DEF IInv, TypeOK, Open
  <1>1. ASSUME NEW f \in Drafts, NEW x \in Open \cup {NoExec}, Submit(f, x) PROVE IInv'
    BY <1>0, <1>1, SaveBeginHolds, ManagementAssumption DEF Submit
  <1>2. ASSUME NEW n \in Names, SavePreset(n) PROVE IInv'
    BY <1>0, <1>2, SaveBeginHolds DEF SavePreset
  <1>3. ASSUME NEW n \in Names, NEW flag \in Flags, Mutate(n, flag) PROVE IInv'
    <2>1. WithFlag(config, n, flag) \in Configs
      BY <1>0, WithFlagTyped
    <2> QED
      BY <1>3, <2>1, SaveBeginHolds DEF Mutate
  <1>4. ASSUME NEW p \in Profiles, StartProfile(p) PROVE IInv'
    <2> DEFINE sel == profiles[p].sel
    <2>1. sel \in SUBSET Configured(config) /\ SaveBegin(WithSelected(config, sel), rev, p, NoExec)
      BY <1>4 DEF StartProfile
    <2>2. WithSelected(config, sel) \in Configs /\ Matches(WithSelected(config, sel), sel)
      BY <1>0, <2>1, WithSelectedSound
    <2> HIDE DEF sel
    <2>3. p # NoProfile => Matches(WithSelected(config, sel), profiles[p].sel)
      BY <2>2 DEF sel
    <2> QED
      BY <2>1, <2>2, <2>3, SaveBeginHolds
  <1>5. ASSUME SaveFails \/ SaveHalfway \/ SaveEnds PROVE IInv'
    BY <1>5, SaveFailsHolds, SaveHalfwayHolds, SaveEndsHolds
  <1>6. ASSUME NEW n \in Names, NEW flag \in {"off", "on"}, NEW e \in Execs,
               NEW x \in Open \cup {NoExec}, EditEntry(n, flag, e, x)
        PROVE  IInv'
    <2>1. WithEntry(config, n, flag, e) \in Configs
      BY <1>0, EditsTyped DEF Flags
    <2> QED
      BY <1>0, <1>6, <2>1, SaveBeginHolds DEF EditEntry
  <1>7. ASSUME StopAll \/ \E m \in Modes : SaveSettings(m) PROVE IInv'
    <2>1. disk # Broken => OnDisk \in Configs
      BY EmptyTyped DEF IInv, TypeOK, Revisions, OnDisk
    <2>2. disk # Broken => AllOff(OnDisk) \in Configs /\ \A m \in Modes : WithMode(OnDisk, m) \in Configs
      BY <2>1, EditsTyped
    <2> QED
      BY <1>7, <2>2, SaveBeginHolds DEF StopAll, SaveSettings
  <1> QED
    BY <1>1, <1>2, <1>3, <1>4, <1>5, <1>6, <1>7 DEF Saving

\* The other requests.
LEMMA RequestsHold == IInv /\ Requests => IInv'
  <1> SUFFICES ASSUME IInv, Requests PROVE IInv'
    OBVIOUS
  <1>0. config \in Configs /\ profiles \in [Profiles -> Records] /\ config.mode.indi \in Addrs
        /\ Absent \in Records
    BY ModeAddr, EmptyTyped DEF IInv, TypeOK, Absent, Records
  <1>1. CASE StopProfile
    BY <1>1, StopProfileHolds
  <1>2. ASSUME NEW n \in Names, RestartEnds(n) PROVE IInv'
    BY <1>2, RestartHolds
  <1>3. ASSUME NEW n \in Names, RestartTimesOut(n) PROVE IInv'
    BY <1>3, ProgressHolds DEF RestartTimesOut, Waits
  <1>4. ASSUME NEW p \in Profiles, NEW sel \in SUBSET Names,
               CreateProfile(p) \/ DeleteProfile(p) \/ PutProfile(p, sel) \/ SetDrivers(p, sel)
        PROVE  IInv'
    <2>1. PICK v : SetProfile(p, v) /\ v \in Records
      <3>1. profiles[p] \in Records
        BY <1>0
      <3>2. CASE CreateProfile(p)
        <4>1. [made |-> TRUE, sel |-> {}, port |-> config.mode.indi] \in Records
          BY <1>0 DEF Records
        <4> QED
          BY <4>1, <3>2 DEF CreateProfile
      <3>3. CASE DeleteProfile(p)
        BY <1>0, <3>3 DEF DeleteProfile
      <3>4. CASE PutProfile(p, sel)
        <4>1. [made |-> TRUE, sel |-> sel, port |-> config.mode.indi] \in Records
          BY <1>0 DEF Records
        <4> QED
          BY <4>1, <3>4 DEF PutProfile
      <3>5. CASE SetDrivers(p, sel)
        <4>1. [profiles[p] EXCEPT !.sel = sel] \in Records
          BY <3>1 DEF Records
        <4> QED
          BY <4>1, <3>5 DEF SetDrivers
      <3> QED
        BY <1>4, <3>2, <3>3, <3>4, <3>5
    <2> QED
      BY <2>1, SetProfileHolds
  <1>5. ASSUME NEW x \in Execs, OpenSession(x) PROVE IInv'
    BY <1>5, SetSessionHolds DEF OpenSession, Unlocked
  <1>6. ASSUME NEW x \in Execs,
               UseSession(x) \/ CloseSession(x) \/ TimerFires(x) \/ Expire(x)
        PROVE  IInv'
    <2>1. up
      BY <1>6 DEF UseSession, CloseSession, TimerFires, Expire, Unlocked
    <2>2. PICK s \in {"none", "armed", "fired", "rearmed", "expired"} :
            SetSession(x, s) /\ (s \notin {"none", "expired"} => x \in Open)
      BY <1>6 DEF UseSession, CloseSession, TimerFires, Expire, Open
    <2>3. x \in Open' => s \notin {"none", "expired"}
      BY <2>2 DEF SetSession, Open, IInv, TypeOK
    <2> QED
      BY <2>1, <2>2, <2>3, SetSessionHolds
  <1> QED
    BY <1>1, <1>2, <1>3, <1>4, <1>5, <1>6 DEF Requests

\* The inductive invariant is one.
LEMMA NextHolds == IInv /\ [Next]_vars => IInv'
  <1> SUFFICES ASSUME IInv, [Next]_vars PROVE IInv'
    OBVIOUS
  <1>1. CASE Boot
    BY <1>1, BootHolds
  <1>2. CASE Exit
    BY <1>2, ExitHolds
  <1>3. CASE Saving
    BY <1>3, SavingHolds
  <1>4. CASE Requests
    BY <1>4, RequestsHold
  <1>5. CASE Environment
    <2>1. ASSUME NEW n \in Names, RunFails(n) \/ RunEnds(n) PROVE IInv'
      BY <2>1, ProgressHolds DEF RunFails, RunEnds, SetRun
    <2> QED
      BY <1>5, <2>1, OutsideHolds DEF Environment
  <1>6. CASE UNCHANGED vars
    BY <1>6 DEF vars, IInv, TypeOK, PendingSave, DownIsIdle, NoCompetingInstance, ActiveIsEnabled,
       RoutesFollowActive, ObserversCurrent, LabelMatchesFlags, Active, Open
  <1> QED
    BY <1>1, <1>2, <1>3, <1>4, <1>5, <1>6 DEF Next

\* The inductive invariant holds in every reachable state.
LEMMA Invariant == Spec => []IInv
  BY InitHolds, NextHolds, PTL DEF Spec

\* Every value the manager keeps has its type, for any devices and profiles:
\* in particular it keeps a listener exactly when it has a port for it.
THEOREM ManagementTyped == Spec => []TypeOK
  <1>1. IInv => TypeOK
    BY DEF IInv
  <1> QED
    BY <1>1, Invariant, PTL

\* No driver executable is run by a device and by a configuration session at the
\* same time, however saves, restarts, profiles, timers and crashes interleave.
THEOREM NoCompetition == Spec => []NoCompetingInstance
  <1>1. IInv => NoCompetingInstance
    BY DEF IInv
  <1> QED
    BY <1>1, Invariant, PTL

\* While no save has reported a problem, what runs is what is enabled.
THEOREM RunningIsConfigured == Spec => []ActiveIsEnabled
  <1>1. IInv => ActiveIsEnabled
    BY DEF IInv
  <1> QED
    BY <1>1, Invariant, PTL

\* ... and the INDI server routes to exactly the supervisors built for them, those
\* whose Run has ended included: unless it reported a problem, no save, restart or
\* profile leaves a replaced supervisor among the server's children.
THEOREM RoutesAreActive == Spec => []RoutesFollowActive
  <1>1. IInv => RoutesFollowActive
    BY DEF IInv
  <1> QED
    BY <1>1, Invariant, PTL

\* No driver ever publishes to an INDI server that was replaced.
THEOREM ObserversFollowListener == Spec => []ObserversCurrent
  <1>1. IInv => ObserversCurrent
    BY DEF IInv
  <1> QED
    BY <1>1, Invariant, PTL

\* The active profile's label always describes the enable flags.
THEOREM LabelCorrect == Spec => []LabelMatchesFlags
  <1>1. IInv => LabelMatchesFlags
    BY DEF IInv
  <1> QED
    BY <1>1, Invariant, PTL

===========================================================================
