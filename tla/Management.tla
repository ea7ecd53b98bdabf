----------------------------- MODULE Management -----------------------------
(***************************************************************************)
(* The configuration and lifecycle manager (host/management*.go and         *)
(* host/webmanager.go): which drivers should run, which do, what the INDI   *)
(* listener and the discovery responder say about them.                     *)
(*                                                                          *)
(* Every HTTP handler and timer callback holds management.mu for its whole  *)
(* length, so a request is one action, except that a save reads the file    *)
(* and replaces it in two steps: other processes may edit the file too.     *)
(* stop waits at most 15 s for a driver; it may give up, and then the       *)
(* request fails half-way.                                                  *)
(*                                                                          *)
(* A configuration is, per device, its enable flag and executable (which    *)
(* stands for all the entry's settings), and the serving mode.  A file's    *)
(* revision is its contents.                                                *)
(***************************************************************************)
EXTENDS Naturals, FiniteSets

CONSTANTS
  Names,        \* device names
  Execs,        \* driver executables
  NoExec,
  Buildable,    \* executables whose entries Build accepts
  Found,        \* executables LookPath finds; start does not look
  Modes,        \* [alpaca, indi]: serving modes, indi = 0 for no INDI listener
  Drafts,       \* configurations an editor may submit
  Profiles,     \* Web Manager profile names
  NoProfile,
  Missing,      \* revision of a file that does not exist
  Broken,       \* a file that does not parse
  External,     \* does another process edit the file
  MaxSessions   \* configuration sessions at the same time

Flags == {"absent", "off", "on"}
Configs == [flag : [Names -> Flags], exec : [Names -> Execs \cup {NoExec}], mode : Modes]
EmptyMode == [alpaca |-> TRUE, indi |-> 0]
EmptyConfig == [flag |-> [n \in Names |-> "absent"], exec |-> [n \in Names |-> NoExec],
                mode |-> EmptyMode]

ASSUME ManagementAssumption ==
  /\ Modes \subseteq [alpaca : BOOLEAN, indi : Nat] /\ EmptyMode \in Modes
  /\ Drafts \subseteq Configs
  /\ NoExec \notin Execs /\ NoProfile \notin Profiles
  /\ Missing \notin Configs /\ Broken \notin Configs
  /\ Buildable \subseteq Execs /\ Found \subseteq Execs /\ External \in BOOLEAN /\ MaxSessions \in Nat

VARIABLES
  up,        \* the process runs
  disk,      \* the configuration file
  rev,       \* management.revision
  config,    \* management.config
  problem,   \* management.problem is not empty
  active,    \* management.active
  indi,      \* management.indi: its address, and how far Serve has come
  disc,      \* management.discovery is not nil
  ports,     \* devices whose port discovery announces
  routes,    \* the INDI server's children, and whether they are the active ones
  sessions,  \* management.inspections, with their timers
  profiles,  \* webStore.Profiles
  wm,        \* webManager.active and selected
  req        \* the save that holds the lock, between its check and its write

vars == <<up, disk, rev, config, problem, active, indi, disc, ports, routes, sessions, profiles,
          wm, req>>

RunStates == {"none", "failed", "running", "error", "cancelled", "ended"}
NoRun == [st |-> "none", exec |-> NoExec, alpaca |-> FALSE, obs |-> "none"]
NoListener == [addr |-> 0, st |-> "none"]
NoSelection == [active |-> NoProfile, sel |-> {}]
Absent == [made |-> FALSE, sel |-> {}, port |-> 0]
NoReq == [busy |-> FALSE, f |-> EmptyConfig, profile |-> NoProfile, exec |-> NoExec]

Addrs      == {m.indi : m \in Modes}
Revisions  == Configs \cup {Missing, Broken}
Runs       == [st : RunStates, exec : Execs \cup {NoExec}, alpaca : BOOLEAN,
               obs : {"none", "current", "old"}]
Listeners  == {NoListener} \cup [addr : Addrs \ {0}, st : {"starting", "up", "failed"}]
Records    == [made : BOOLEAN, sel : SUBSET Names, port : Addrs]
Selections == [active : Profiles \cup {NoProfile}, sel : SUBSET Names]
Saves      == [busy : BOOLEAN, f : Configs, profile : Profiles \cup {NoProfile},
               exec : Execs \cup {NoExec}]

TypeOK ==
  /\ up \in BOOLEAN
  /\ disk \in Revisions /\ rev \in Revisions
  /\ config \in Configs
  /\ problem \in BOOLEAN
  /\ active \in [Names -> Runs]
  /\ indi \in Listeners
  /\ disc \in BOOLEAN
  /\ ports \subseteq Names
  /\ routes \in [Names -> {"none", "current", "old"}]
  /\ sessions \in [Execs -> {"none", "armed", "fired", "rearmed", "expired"}]
  /\ profiles \in [Profiles -> Records]
  /\ wm \in Selections
  /\ req \in Saves

On(f, n) == f.flag[n] = "on"
Configured(f) == {n \in Names : f.flag[n] # "absent"}
Active(n) == active[n].st # "none"
Built(r) == r.st \notin {"none", "failed"}
Open == {x \in Execs : sessions[x] \in {"armed", "fired", "rearmed"}}

\* The request handlers run one at a time.
Unlocked == up /\ ~req.busy

(***************************************************************************)
(* Lifecycle helpers                                                        *)
(***************************************************************************)
\* start: entry n of f with INDI server i.
Started(f, n, i) ==
  IF f.exec[n] \in Buildable
  THEN [st |-> "running", exec |-> f.exec[n], alpaca |-> f.mode.alpaca,
        obs |-> IF i.st = "none" THEN "none" ELSE "current"]
  ELSE [st |-> "failed", exec |-> f.exec[n], alpaca |-> FALSE, obs |-> "none"]

\* stop waits for these, and may give up.
Waits(r) == r.st \in {"running", "cancelled"}

\* startINDI
Listener(f) == IF f.mode.indi = 0 THEN NoListener ELSE [addr |-> f.mode.indi, st |-> "starting"]

\* Mutant of SyncRoutes: a runtime that failed to build is routed to.
SyncRoutesAnyState(f, act, i) ==
  LET served == {n \in Configured(f) : act[n].st # "none"} IN
  /\ disc' \in IF ~disc /\ f.mode.alpaca /\ (\E n \in Names : act[n].st # "none")
               THEN BOOLEAN ELSE {disc}
  /\ ports' = IF ~disc' THEN ports ELSE IF f.mode.alpaca THEN served ELSE {}
  /\ routes' = [n \in Names |-> IF i.st # "none" /\ n \in served THEN "current" ELSE "none"]

\* syncRoutes, with the configuration f, the runtimes act and the server i.
SyncRoutes(f, act, i) ==
  LET served == {n \in Configured(f) : Built(act[n])} IN
  /\ disc' \in IF ~disc /\ f.mode.alpaca /\ (\E n \in Names : act[n].st # "none")
               THEN BOOLEAN ELSE {disc}
  /\ ports' = IF ~disc' THEN ports ELSE IF f.mode.alpaca THEN served ELSE {}
  /\ routes' = [n \in Names |-> IF i.st # "none" /\ n \in served THEN "current" ELSE "none"]

\* Mutant of Valid: sessions are not looked at.
ValidIgnoresSessions(f) ==
  /\ f.mode.alpaca \/ f.mode.indi > 0
  /\ \A n \in Names : On(f, n) => f.exec[n] \in Buildable \cap Found

\* validate: ParseConfig, and for every enabled entry no open session of its
\* executable, LookPath and a trial Build.
Valid(f) ==
  /\ f.mode.alpaca \/ f.mode.indi > 0
  /\ \A n \in Names : On(f, n) => f.exec[n] \in (Buildable \cap Found) \ Open

\* profileMatches
Matches(f, sel) == \A n \in Names : On(f, n) <=> n \in sel

(***************************************************************************)
(* Process start and end                                                    *)
(***************************************************************************)
\* newManagement and RunManaged up to the HTTP server.  Autostart is a
\* StartProfile that comes first.
Boot ==
  /\ ~up
  /\ up' = TRUE
  /\ rev' = disk
  /\ config' = IF disk \in Configs THEN disk ELSE EmptyConfig
  /\ problem' = (disk \notin Configs)
  /\ indi' = Listener(config')
  /\ active' = [n \in Names |-> IF On(config', n) THEN Started(config', n, indi') ELSE NoRun]
  /\ SyncRoutes(config', active', indi')
  /\ UNCHANGED <<disk, sessions, profiles, wm, req>>

\* close, or a crash: only the files remain.
Exit ==
  /\ up
  /\ up' = FALSE
  /\ rev' = Missing /\ config' = EmptyConfig /\ problem' = FALSE
  /\ active' = [n \in Names |-> NoRun]
  /\ indi' = NoListener /\ disc' = FALSE /\ ports' = {}
  /\ routes' = [n \in Names |-> "none"]
  /\ sessions' = [x \in Execs |-> "none"]
  /\ wm' = NoSelection /\ req' = NoReq
  /\ UNCHANGED <<disk, profiles>>

(***************************************************************************)
(* save                                                                     *)
(***************************************************************************)
\* Mutant of ListenerGuard: devices may stay enabled.
ListenerUnguarded(f) == TRUE

\* "Global listeners can be changed only when every instance is disabled."
ListenerGuard(f) == f.mode # config.mode => \A n \in Names : ~On(f, n)

\* save up to atomicConfig: the file is still what the caller saw, the draft is
\* valid.  The caller may want a profile marked active or a session closed.
SaveBegin(f, expected, p, x) ==
  /\ Unlocked
  /\ disk = expected
  /\ Valid(f) /\ ListenerGuard(f)
  /\ req' = [busy |-> TRUE, f |-> f, profile |-> p, exec |-> x]
  /\ UNCHANGED <<up, disk, rev, config, problem, active, indi, disc, ports, routes, sessions,
                 profiles, wm>>

\* atomicConfig fails: nothing has changed.
SaveFails ==
  /\ up /\ req.busy
  /\ req' = NoReq
  /\ UNCHANGED <<up, disk, rev, config, problem, active, indi, disc, ports, routes, sessions,
                 profiles, wm>>

Stale(r) == IF r = "current" THEN "old" ELSE r

\* The file is replaced, and a driver that must stop does not within 15 s: stop
\* has removed some of the others from active and not touched the rest.
SaveHalfway ==
  /\ up /\ req.busy
  /\ \E bad \in {n \in Names : Waits(active[n]) /\ ~On(req.f, n)},
        stopped \in SUBSET {n \in Names : Active(n) /\ ~On(req.f, n)} :
       /\ bad \notin stopped
       /\ active' = [n \in Names |-> IF n \in stopped THEN NoRun
                                     ELSE IF n = bad THEN [active[n] EXCEPT !.st = "cancelled"]
                                     ELSE active[n]]
       /\ routes' = [n \in Names |-> IF n \in stopped THEN Stale(routes[n]) ELSE routes[n]]
  /\ disk' = req.f /\ config' = req.f /\ rev' = req.f /\ problem' = TRUE
  /\ req' = NoReq
  /\ UNCHANGED <<up, indi, disc, ports, sessions, profiles, wm>>

\* A runtime whose observer was set to a server that is gone.
Outlived(r) == [r EXCEPT !.obs = Stale(r.obs)]

\* Mutant of Runtimes: disabled devices run on.
RuntimesKeep(f, moved, i) ==
  [n \in Names |-> IF On(f, n) /\ ~Active(n) THEN Started(f, n, i) ELSE active[n]]

\* What active holds after every stop and start of a save.
Runtimes(f, moved, i) ==
  [n \in Names |-> IF ~On(f, n) THEN NoRun
                   ELSE IF ~Active(n) THEN Started(f, n, i)
                   ELSE IF moved THEN Outlived(active[n])
                   ELSE active[n]]

\* Mutant of Selection: the label survives every save.
SelectionKept(f, moved) ==
  IF req.profile # NoProfile THEN [active |-> req.profile, sel |-> profiles[req.profile].sel]
  ELSE wm

\* The profile label after a save: cleared when the listener moves or the flags
\* no longer match, then set by startWebProfile.
Selection(f, moved) ==
  IF req.profile # NoProfile THEN [active |-> req.profile, sel |-> profiles[req.profile].sel]
  ELSE IF moved \/ ~Matches(f, wm.sel) THEN NoSelection
  ELSE wm

\* The rest of save when every stop succeeds, and what its caller adds.
SaveEnds ==
  /\ up /\ req.busy
  /\ LET f     == req.f
         moved == f.mode.indi # config.mode.indi
     IN /\ disk' = f /\ config' = f /\ rev' = f /\ problem' = FALSE
        /\ indi' = IF moved THEN Listener(f) ELSE indi
        /\ active' = Runtimes(f, moved, indi')
        /\ wm' = Selection(f, moved)
        /\ SyncRoutes(f, active', indi')
  /\ sessions' = [x \in Execs |-> IF x = req.exec THEN "none" ELSE sessions[x]]
  /\ req' = NoReq
  /\ UNCHANGED <<up, profiles>>

(***************************************************************************)
(* Callers of save                                                          *)
(***************************************************************************)
\* handleConfig, the whole file: whatever the editor holds, on top of the file
\* it opened, closing its session when it has one.
Submit(f, x) == SaveBegin(f, disk, NoProfile, x)

WithEntry(f, n, flag, e) ==
  [flag |-> [f.flag EXCEPT ![n] = flag], exec |-> [f.exec EXCEPT ![n] = e], mode |-> f.mode]

\* handleConfig, one entry: the configuration in memory with the entry replaced,
\* or added ("new devices must start with enable: false"), over the file the
\* editor's page was made from.
EditEntry(n, flag, e, x) ==
  /\ n \in Configured(config) \/ flag = "off"
  /\ SaveBegin(WithEntry(config, n, flag, e), disk, NoProfile, x)

\* What handleSettings starts from; a file that does not parse blocks it.
OnDisk == IF disk = Missing THEN EmptyConfig ELSE disk

WithMode(f, m) == [flag |-> f.flag, exec |-> f.exec, mode |-> m]
AllOff(f) ==
  [flag |-> [n \in Names |-> IF f.flag[n] = "absent" THEN "absent" ELSE "off"],
   exec |-> f.exec, mode |-> f.mode]

\* handleSettings: the serving mode, and stop-all.
SaveSettings(m) == disk # Broken /\ SaveBegin(WithMode(OnDisk, m), disk, NoProfile, NoExec)
StopAll == disk # Broken /\ SaveBegin(AllOff(OnDisk), disk, NoProfile, NoExec)

WithFlag(f, n, flag) ==
  [flag |-> [f.flag EXCEPT ![n] = flag],
   exec |-> [f.exec EXCEPT ![n] = IF flag = "absent" THEN NoExec ELSE @],
   mode |-> f.mode]

\* mutate: enable, disable, delete.
Mutate(n, flag) ==
  /\ n \in Configured(config)
  /\ flag = "absent" => ~On(config, n)
  /\ SaveBegin(WithFlag(config, n, flag), rev, NoProfile, NoExec)

\* applyProperty, before or after: the entry's presets change.
SavePreset(n) ==
  /\ Built(active[n]) /\ n \in Configured(config)
  /\ SaveBegin(config, rev, NoProfile, NoExec)

\* The configuration in which exactly the devices of sel are enabled.
WithSelected(f, sel) ==
  [flag |-> [n \in Names |-> IF f.flag[n] = "absent" THEN "absent"
                             ELSE IF n \in sel THEN "on" ELSE "off"],
   exec |-> f.exec,
   mode |-> f.mode]

\* startWebProfile
StartProfile(p) ==
  /\ profiles[p].made
  /\ config.mode.indi > 0 /\ profiles[p].port = config.mode.indi
  /\ indi.st = "up"
  /\ profiles[p].sel # {} /\ profiles[p].sel \subseteq Configured(config)
  /\ SaveBegin(WithSelected(config, profiles[p].sel), rev, p, NoExec)

(***************************************************************************)
(* Other requests                                                           *)
(***************************************************************************)
\* mutate, restart: the driver stops and the entry is started as configured.
RestartEnds(n) ==
  /\ Unlocked /\ On(config, n) /\ Valid(config)
  /\ active' = [active EXCEPT ![n] = Started(config, n, indi)]
  /\ SyncRoutes(config, active', indi)
  /\ UNCHANGED <<up, disk, rev, config, problem, indi, sessions, profiles, wm, req>>

RestartTimesOut(n) ==
  /\ Unlocked /\ On(config, n) /\ Valid(config)
  /\ Waits(active[n])
  /\ active' = [active EXCEPT ![n].st = "cancelled"]
  /\ UNCHANGED <<up, disk, rev, config, problem, indi, disc, ports, routes, sessions, profiles, wm, req>>

\* webRequest, server/stop.
StopProfile ==
  /\ Unlocked
  /\ wm' = NoSelection
  /\ SyncRoutes(config, active, indi)
  /\ UNCHANGED <<up, disk, rev, config, problem, active, indi, sessions, profiles, req>>

SetProfile(p, v) ==
  /\ Unlocked
  /\ profiles' = [profiles EXCEPT ![p] = v]
  /\ UNCHANGED <<up, disk, rev, config, problem, active, indi, disc, ports, routes, sessions, wm, req>>

\* POST profiles/p; PUT profiles/p from the local page, which may name any
\* device; POST profiles/p/drivers, configured devices only; DELETE.
CreateProfile(p) ==
  ~profiles[p].made /\ SetProfile(p, [made |-> TRUE, sel |-> {}, port |-> config.mode.indi])
PutProfile(p, sel) ==
  /\ profiles[p].made /\ config.mode.indi > 0
  /\ SetProfile(p, [made |-> TRUE, sel |-> sel, port |-> config.mode.indi])
SetDrivers(p, sel) ==
  /\ profiles[p].made /\ sel \subseteq Configured(config)
  /\ SetProfile(p, [profiles[p] EXCEPT !.sel = sel])
DeleteProfile(p) == profiles[p].made /\ wm.active # p /\ SetProfile(p, Absent)

(***************************************************************************)
(* Configuration sessions (inspections)                                     *)
(***************************************************************************)
SetSession(x, s) ==
  /\ sessions' = [sessions EXCEPT ![x] = s]
  /\ UNCHANGED <<up, disk, rev, config, problem, active, indi, disc, ports, routes, profiles, wm, req>>

\* handleInspectionSession, token "new"; a session whose driver defines nothing
\* or rejects the draft is closed before the lock is released.
OpenSession(x) ==
  /\ Unlocked
  /\ Cardinality(Open) < MaxSessions
  /\ \A n \in Names : Active(n) => active[n].exec # x
  /\ x \in Found \ Open
  /\ SetSession(x, "armed")

\* Every request resets the timer; a callback that has fired is not recalled.
UseSession(x) ==
  /\ Unlocked
  /\ \/ sessions[x] = "armed" /\ SetSession(x, "armed")
     \/ sessions[x] \in {"fired", "rearmed"} /\ SetSession(x, "rearmed")

CloseSession(x) == Unlocked /\ x \in Open /\ SetSession(x, "none")

\* The timer fires; its callback waits for the lock.
TimerFires(x) == up /\ sessions[x] = "armed" /\ SetSession(x, "fired")

\* The callback gets the lock; the editor's next request is answered 410.
Expire(x) == Unlocked /\ sessions[x] \in {"fired", "rearmed"} /\ SetSession(x, "expired")

(***************************************************************************)
(* The environment                                                          *)
(***************************************************************************)
SetRun(n, s) ==
  /\ active' = [active EXCEPT ![n].st = s]
  /\ UNCHANGED <<up, disk, rev, config, problem, indi, disc, ports, routes, sessions, profiles, wm, req>>

\* Server.Run returns an error on its own, or because of stop's cancel.
RunFails(n) == active[n].st = "running" /\ active[n].alpaca /\ SetRun(n, "error")
RunEnds(n)  == active[n].st = "cancelled" /\ SetRun(n, "ended")

\* Serve has a listener, or could not get one.
Listens(s) ==
  /\ indi.st = "starting"
  /\ indi' = [indi EXCEPT !.st = s]
  /\ UNCHANGED <<up, disk, rev, config, problem, active, disc, ports, routes, sessions, profiles, wm, req>>

EditFile(c) ==
  /\ External
  /\ disk' = c
  /\ UNCHANGED <<up, rev, config, problem, active, indi, disc, ports, routes, sessions, profiles, wm, req>>

-----------------------------------------------------------------------------
Init ==
  /\ up = FALSE
  /\ disk \in Drafts \cup {Missing, Broken}
  /\ rev = Missing /\ config = EmptyConfig /\ problem = FALSE
  /\ active = [n \in Names |-> NoRun]
  /\ indi = NoListener /\ disc = FALSE /\ ports = {}
  /\ routes = [n \in Names |-> "none"]
  /\ sessions = [x \in Execs |-> "none"]
  /\ profiles = [p \in Profiles |-> Absent]
  /\ wm = NoSelection /\ req = NoReq

Saving ==
  \/ \E f \in Drafts, x \in Open \cup {NoExec} : Submit(f, x)
  \/ \E n \in Names, flag \in {"off", "on"}, e \in Execs, x \in Open \cup {NoExec} :
       EditEntry(n, flag, e, x)
  \/ StopAll \/ \E m \in Modes : SaveSettings(m)
  \/ \E n \in Names : SavePreset(n) \/ \E flag \in Flags : Mutate(n, flag)
  \/ \E p \in Profiles : StartProfile(p)
  \/ SaveFails \/ SaveHalfway \/ SaveEnds

Requests ==
  \/ StopProfile
  \/ \E n \in Names : RestartEnds(n) \/ RestartTimesOut(n)
  \/ \E p \in Profiles :
       \/ CreateProfile(p) \/ DeleteProfile(p)
       \/ \E sel \in SUBSET Names : PutProfile(p, sel) \/ SetDrivers(p, sel)
  \/ \E x \in Execs : OpenSession(x) \/ UseSession(x) \/ CloseSession(x) \/ TimerFires(x) \/ Expire(x)

Environment ==
  \/ \E n \in Names : RunFails(n) \/ RunEnds(n)
  \/ \E s \in {"up", "failed"} : Listens(s)
  \/ \E c \in Drafts \cup {Broken} : EditFile(c)

Next == Boot \/ Exit \/ Saving \/ Requests \/ Environment

Spec == Init /\ [][Next]_vars

-----------------------------------------------------------------------------
\* "inspection refuses binaries already enabled in indihurd to avoid launching a
\* competing instance": no executable is run by a device and by a session at
\* the same time, including drivers that were told to stop and did not yet.
NoCompetingInstance ==
  \A n \in Names : Active(n) => active[n].exec \notin Open

\* Unless a save has reported a problem, the drivers that are kept are exactly
\* the enabled ones, through enable, disable, delete, profiles and restarts.
ActiveIsEnabled ==
  up /\ ~problem => \A n \in Names : Active(n) <=> On(config, n)

\* ... and the INDI server routes to exactly the supervisors that were built for
\* the drivers that are kept, whether their Run goes on or has ended: a replaced
\* supervisor is never left in the server's children, and none is missing there.
RoutesFollowActive ==
  up /\ ~problem =>
    \A n \in Names : routes[n] = IF indi.st # "none" /\ Built(active[n]) THEN "current" ELSE "none"

\* A driver's observer is the INDI server of today: a listener change never
\* leaves a driver that publishes to a server nobody can connect to.
ObserversCurrent ==
  \A n \in Names : Built(active[n]) => active[n].obs = IF indi.st = "none" THEN "none" ELSE "current"

\* "The active profile is a label for the applied enable flags": whatever
\* changes the flags, a label that no longer matches is cleared.
LabelMatchesFlags ==
  up /\ ~problem /\ wm.active # NoProfile => Matches(config, wm.sel)

(***************************************************************************)
(* What the sources say and the code does not do.                           *)
(***************************************************************************)
\* "Enabling and disabling take effect immediately": a device that a save
\* enables has a driver that is not on its way out.
EnableTakesEffect ==
  [][\A n \in Names :
       config' = req.f /\ On(req.f, n) /\ ~On(config, n) /\ ~problem' =>
         active'[n].st \notin {"cancelled", "ended"}]_vars

=============================================================================
