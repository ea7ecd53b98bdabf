-------------------------- MODULE SupervisorProofs --------------------------
(***************************************************************************)
(* Proofs about Supervisor for every set of devices, presets and nudges.    *)
(* TypeOK comes first; SafetyInv is inductive relative to it, and the       *)
(* safety properties follow from the two.                                   *)
(***************************************************************************)
EXTENDS Supervisor, TLAPS

\* What an element's fields may hold (internal/indiwire Element).
LEMMA ElementFields ==
  ASSUME NEW e \in Elements
  PROVE  /\ e.dev \in Devices
         /\ e.kind \in {"def", "set", "del", "get"}
         /\ e.state \in {"ok", "busy", "alert"}
         /\ e.kind = "set" => e.name = "CONNECTION"
BY SupervisorAssumption DEF Elements, El

\* evalConnection leads from a phase to a phase.
LEMMA EvalPhaseType ==
  ASSUME phase \in Phases, NEW e PROVE EvalPhase(e) \in Phases
BY DEF EvalPhase, Phases

\* The stored CONNECTION value is one of the snapshot's values.
LEMMA ConnValueType ==
  ASSUME NEW c, NEW e PROVE ConnValue(c, e) \in {"off", "on", "onbad"}
BY DEF ConnValue

\* Writing presets counts at most to the cap.
LEMMA WritePresetsType ==
  ASSUME TypeOK, NEW S \in SUBSET Presets, WritePresets(S)
  PROVE  written' \in [Presets -> 0..2] /\ unfit' \subseteq Presets
BY DEF TypeOK, WritePresets

\* A connection command keeps the type of asked.
LEMMA AskType ==
  ASSUME TypeOK, NEW d \in Devices, NEW cmd \in {"connect", "disconnect"}, Ask(d, cmd)
  PROVE  asked' \in [Devices -> {"none", "connect", "disconnect"}]
BY DEF TypeOK, Ask

\* Store.Apply keeps the snapshot's type.
LEMMA ApplyStoreType ==
  ASSUME TypeOK, NEW e \in Elements, ApplyStore(e)
  PROVE  /\ conn' \in [Devices -> ConnVals]
         /\ props' \in [Devices -> SUBSET Props]
         /\ valid' \in BOOLEAN
<1>1. conn' \in [Devices -> ConnVals]
  BY ElementFields, ConnValueType DEF TypeOK, ApplyStore, ConnVals, HasConn
<1>2. props' \in [Devices -> SUBSET Props]
  BY ElementFields DEF TypeOK, ApplyStore
<1>3. valid' \in BOOLEAN
  BY DEF TypeOK, ApplyStore
<1> QED BY <1>1, <1>2, <1>3

-----------------------------------------------------------------------------
\* The type invariant together with ElementInv, on which it depends: while
\* apply runs there is an element.
TypedInv == TypeOK /\ ElementInv

\* The initial state is typed.
LEMMA TypedInit == Init => TypedInv
<1> SUFFICES ASSUME Init PROVE TypedInv
  OBVIOUS
<1> USE DEF Init
<1>1. nudge \in [Nudgers -> [pc : NudgePcs, live : BOOLEAN, targets : SUBSET Wanted]]
  BY DEF IdleNudge, NudgePcs
<1>2. /\ conn \in [Devices -> ConnVals]
      /\ props \in [Devices -> SUBSET Props]
      /\ asked \in [Devices -> {"none", "connect", "disconnect"}]
      /\ written \in [Presets -> 0..2]
  BY DEF ConnVals
<1>3. /\ pc \in RunPcs /\ phase \in Phases /\ proc \in {"none", "running", "exited"}
      /\ canceller \in {"none", "select", "drain", "sleep", "done"}
      /\ pc \notin ReadPcs
  BY DEF RunPcs, Phases, ReadPcs
<1> QED BY <1>1, <1>2, <1>3, Zenon DEF TypedInv, TypeOK, ElementInv

\* Every step of every goroutine keeps the types: no handler leaves a phase, a
\* preset or a target the code has no name for.
LEMMA TypedStep == TypedInv /\ [Next]_vars => TypedInv'
<1> SUFFICES ASSUME TypedInv, [Next]_vars PROVE TypedInv'
  OBVIOUS
<1> USE DEF TypedInv, TypeOK, ElementInv
<1>1. CASE Spawn
  BY <1>1 DEF Spawn, snapVars, runVars, childVars, RunPcs, Phases, ReadPcs, Publish, ConnVals
<1>2. CASE LoopExit
  BY <1>2 DEF LoopExit, snapVars, runVars, childVars, RunPcs, Phases, ReadPcs
<1>3. CASE DialFail
  BY <1>3 DEF DialFail, snapVars, runVars, childVars, RunPcs, Phases, ReadPcs
<1>4. CASE DialOk
  BY <1>4 DEF DialOk, snapVars, runVars, childVars, RunPcs, Phases, ReadPcs
<1>5. CASE Acquire
  BY <1>5 DEF Acquire, snapVars, runVars, childVars, RunPcs, Phases, ReadPcs
<1>6. CASE GetPropertiesFails
  BY <1>6 DEF GetPropertiesFails, snapVars, runVars, childVars, RunPcs, Phases, ReadPcs
<1>7. CASE GetProperties
  BY <1>7 DEF GetProperties, snapVars, runVars, childVars, RunPcs, Phases, ReadPcs, NudgePcs
<1>8. CASE Receive
  <2>1. el' \in Elements /\ pc' \in RunPcs
    BY <1>8 DEF Receive, RunPcs
  <2>2. asked' \in [Devices -> {"none", "connect", "disconnect"}]
    BY <1>8, ElementFields DEF Receive
  <2> QED BY <1>8, <2>1, <2>2 DEF Receive, snapVars, runVars, childVars
<1>9. CASE Observe \/ Apply
  <2>1. CASE Observe
    <3>1. pc' \in RunPcs /\ el' \in Elements
      BY <2>1 DEF Observe, RunPcs, ReadPcs
    <3>2. seen' \subseteq Devices
      BY <2>1, ElementFields DEF Observe, ReadPcs
    <3> QED BY <2>1, <3>1, <3>2 DEF Observe, snapVars, runVars, childVars
  <2>2. CASE Apply
    <3>1. pc' \in RunPcs /\ el' \in Elements \cup {NoEl} /\ ElementInv' /\ el \in Elements
      BY <2>2 DEF Apply, GoOn, NextElement, RunPcs, ReadPcs
    <3> QED BY <2>2, <3>1, ApplyStoreType DEF Apply, GoOn, NextElement, snapVars, runVars, childVars
  <2> QED BY <1>9, <2>1, <2>2
<1>10. CASE ClaimPresets
  BY <1>10 DEF ClaimPresets, GoOn, NextElement, snapVars, runVars, childVars, RunPcs, Phases, ReadPcs, Due
<1>11. CASE WriteClaimed
  <2>1. pc' \in RunPcs /\ el' \in Elements \cup {NoEl} /\ ElementInv'
    BY <1>11 DEF WriteClaimed, GoOn, NextElement, RunPcs, ReadPcs
  <2>2. written' \in [Presets -> 0..2] /\ unfit' \subseteq Presets
    BY <1>11, WritePresetsType DEF WriteClaimed, GoOn, NextElement
  <2> QED BY <1>11, <2>1, <2>2 DEF WriteClaimed, GoOn, NextElement, snapVars, runVars, childVars
<1>12. CASE ConnectOnDef
  BY <1>12, AskType, ElementFields DEF ConnectOnDef, snapVars, runVars, childVars, RunPcs, Phases, ReadPcs, SendConnect
<1>13. CASE EvalConnection
  <2>1. pc' \in RunPcs
    BY <1>13 DEF EvalConnection, NextElement, RunPcs
  <2>2. phase' \in Phases
    BY <1>13, EvalPhaseType DEF EvalConnection, NextElement
  <2>3. up' \in BOOLEAN
    BY <1>13 DEF EvalConnection, NextElement
  <2>4. el' \in Elements \cup {NoEl} /\ ElementInv'
    BY <1>13 DEF EvalConnection, NextElement, ReadPcs
  <2> QED BY <1>13, <2>1, <2>2, <2>3, <2>4 DEF EvalConnection, NextElement, snapVars, runVars, childVars
<1>14. CASE SweepPresets
  <2>1. pc' \in RunPcs
    BY <1>14 DEF SweepPresets, NextElement, RunPcs
  <2>2. marked' \subseteq Presets /\ todo' \subseteq Presets
    BY <1>14 DEF SweepPresets, NextElement, Due
  <2>3. el' \in Elements \cup {NoEl} /\ ElementInv'
    BY <1>14 DEF SweepPresets, NextElement, ReadPcs
  <2> QED BY <1>14, <2>1, <2>2, <2>3 DEF SweepPresets, NextElement, snapVars, runVars, childVars
<1>16. CASE Eof
  BY <1>16 DEF Eof, snapVars, runVars, childVars, RunPcs, Phases, ReadPcs, ReadFails
<1>17. CASE Malformed
  BY <1>17 DEF Malformed, snapVars, runVars, childVars, RunPcs, Phases, ReadPcs, ReadFails
<1>18. CASE Lost
  <2>1. pc' \in RunPcs /\ pc' \notin ReadPcs
    BY <1>18 DEF Lost, RunPcs, ReadPcs
  <2>2. gone' \subseteq Devices
    BY <1>18 DEF Lost, Known
  <2>3. conn' \in [Devices -> ConnVals] /\ props' \in [Devices -> SUBSET Props]
    BY <1>18 DEF Lost, Publish, ConnVals
  <2>4. valid' \in BOOLEAN
    BY <1>18, Zenon DEF Lost, Publish
  <2> QED BY <1>18, <2>1, <2>2, <2>3, <2>4 DEF Lost, snapVars, runVars, childVars
<1>19. CASE LostPhase
  BY <1>19 DEF LostPhase, snapVars, runVars, childVars, RunPcs, Phases, ReadPcs
<1>20. CASE Teardown
  <2>1. pc' \in RunPcs /\ pc' \notin ReadPcs
    BY <1>20 DEF Teardown, RunPcs, ReadPcs
  <2>2. nudge' \in [Nudgers -> [pc : NudgePcs, live : BOOLEAN, targets : SUBSET Wanted]]
    BY <1>20 DEF Teardown
  <2>3. canceller' \in {"none", "select", "drain", "sleep", "done"}
    BY <1>20 DEF Teardown
  <2> QED BY <1>20, <2>1, <2>2, <2>3 DEF Teardown, snapVars, runVars, childVars
<1>21. CASE Detach
  <2>1. pc' \in RunPcs /\ pc' \notin ReadPcs
    BY <1>21 DEF Detach, RunPcs, ReadPcs
  <2>2. w' \in BOOLEAN
    BY <1>21, Zenon DEF Detach
  <2> QED BY <1>21, <2>1, <2>2 DEF Detach, snapVars, runVars, childVars
<1>22. CASE Term
  BY <1>22 DEF Term, snapVars, runVars, childVars, RunPcs, Phases, ReadPcs
<1>23. CASE GraceExpires
  BY <1>23 DEF GraceExpires, snapVars, runVars, childVars, RunPcs, Phases, ReadPcs
<1>24. CASE Reap
  BY <1>24 DEF Reap, snapVars, runVars, childVars, RunPcs, Phases, ReadPcs
<1>25. CASE CloseChild
  <2>1. pc' \in RunPcs /\ pc' \notin ReadPcs
    BY <1>25 DEF CloseChild, RunPcs, ReadPcs
  <2>2. asked' \in [Devices -> {"none", "connect", "disconnect"}] /\ written' \in [Presets -> 0..2]
    BY <1>25 DEF CloseChild, NoChild
  <2>3. proc' \in {"none", "running", "exited"}
    BY <1>25 DEF CloseChild, NoChild
  <2>4. fdOpen' \in BOOLEAN /\ shut' \in BOOLEAN /\ up' \in BOOLEAN
    BY <1>25, Zenon DEF CloseChild, NoChild
  <2>5. unfit' \subseteq Presets
    BY <1>25 DEF CloseChild, NoChild
  <2> QED BY <1>25, <2>1, <2>2, <2>3, <2>4, <2>5 DEF CloseChild, snapVars, runVars, childVars
<1>26. CASE Invalidate \/ AnnounceGone
  <2>1. pc' \in RunPcs /\ pc' \notin ReadPcs
    BY <1>26 DEF Invalidate, AnnounceGone, RunPcs, ReadPcs
  <2>2. seen' \subseteq Devices /\ gone' \subseteq Devices
    BY <1>26 DEF Invalidate, AnnounceGone, Known
  <2>3. conn' \in [Devices -> ConnVals] /\ props' \in [Devices -> SUBSET Props]
    BY <1>26 DEF Invalidate, AnnounceGone, Publish, ConnVals, snapVars
  <2>4. valid' \in BOOLEAN
    BY <1>26, Zenon DEF Invalidate, AnnounceGone, Publish, snapVars
  <2> QED BY <1>26, <2>1, <2>2, <2>3, <2>4 DEF Invalidate, AnnounceGone, snapVars, runVars, childVars
<1>27. CASE AfterAttempt
  <2>1. pc' \in RunPcs /\ pc' \notin ReadPcs
    BY <1>27 DEF AfterAttempt, RunPcs, ReadPcs
  <2>2. phase' \in Phases
    BY <1>27 DEF AfterAttempt, Phases
  <2>3. el' \in Elements \cup {NoEl}
    BY <1>27 DEF AfterAttempt
  <2> QED BY <1>27, <2>1, <2>2, <2>3 DEF AfterAttempt, snapVars, runVars, childVars
<1>28. CASE BackoffEnds
  BY <1>28 DEF BackoffEnds, snapVars, runVars, childVars, RunPcs, Phases, ReadPcs
<1>29. CASE Stopping
  BY <1>29 DEF Stopping, snapVars, runVars, childVars, RunPcs, Phases, ReadPcs
<1>30. CASE Cancel
  BY <1>30 DEF Cancel, snapVars, runVars, childVars, RunPcs, Phases, ReadPcs
<1>31. CASE DisconnectQuietly
  BY <1>31 DEF DisconnectQuietly, snapVars, runVars, childVars, RunPcs, Phases, ReadPcs
<1>32. CASE Shutdown
  BY <1>32 DEF Shutdown, snapVars, runVars, childVars, RunPcs, Phases, ReadPcs
<1>33. CASE CommandContextKill
  BY <1>33 DEF CommandContextKill, snapVars, runVars, childVars, RunPcs, Phases, ReadPcs
<1>34. CASE DriverExits
  BY <1>34 DEF DriverExits, snapVars, runVars, childVars, RunPcs, Phases, ReadPcs
<1>35. ASSUME NEW n \in Nudgers, NudgeTick(n) PROVE TypedInv'
  BY <1>35, AskType, SupervisorAssumption DEF NudgeTick, NudgeMoves, NudgeDrop, NudgeTargets, NudgePcs, snapVars, runVars, childVars, RunPcs, Phases, ReadPcs
<1>36. ASSUME NEW n \in Nudgers, NudgeExit(n) PROVE TypedInv'
  BY <1>36, AskType, SupervisorAssumption DEF NudgeExit, NudgeMoves, NudgeDrop, NudgeTargets, NudgePcs, snapVars, runVars, childVars, RunPcs, Phases, ReadPcs
<1>37. ASSUME NEW n \in Nudgers, NudgePhase(n) PROVE TypedInv'
  BY <1>37, AskType, SupervisorAssumption DEF NudgePhase, NudgeMoves, NudgeDrop, NudgeTargets, NudgePcs, snapVars, runVars, childVars, RunPcs, Phases, ReadPcs
<1>38. ASSUME NEW n \in Nudgers, NudgeSnapshot(n) PROVE TypedInv'
  <2>1. nudge' \in [Nudgers -> [pc : NudgePcs, live : BOOLEAN, targets : SUBSET Wanted]]
    BY <1>38 DEF NudgeSnapshot, NudgeTargets, NudgePcs
  <2> QED BY <1>38, <2>1 DEF NudgeSnapshot, NudgeMoves, snapVars, runVars, childVars
<1>39. ASSUME NEW n \in Nudgers, NudgeRefused(n) \/ NudgeWaits(n) PROVE TypedInv'
  <2>1. nudge' \in [Nudgers -> [pc : NudgePcs, live : BOOLEAN, targets : SUBSET Wanted]]
    BY <1>39 DEF NudgeRefused, NudgeWaits, NudgeDrop, NudgeTargets, NudgePcs
  <2>2. phase' \in Phases
    BY <1>39 DEF NudgeRefused, NudgeWaits, Phases
  <2> QED BY <1>39, <2>1, <2>2 DEF NudgeRefused, NudgeWaits, NudgeMoves, snapVars, runVars, childVars
<1>40. ASSUME NEW n \in Nudgers, NudgeAllowed(n) PROVE TypedInv'
  BY <1>40, AskType, SupervisorAssumption DEF NudgeAllowed, NudgeMoves, NudgeDrop, NudgeTargets, NudgePcs, snapVars, runVars, childVars, RunPcs, Phases, ReadPcs
<1>41. ASSUME NEW n \in Nudgers, NudgeWrite(n) PROVE TypedInv'
  <2>1. nudge' \in [Nudgers -> [pc : NudgePcs, live : BOOLEAN, targets : SUBSET Wanted]]
    BY <1>41 DEF NudgeWrite, NudgeDrop, NudgeTargets, NudgePcs
  <2>2. asked' \in [Devices -> {"none", "connect", "disconnect"}]
    BY <1>41, AskType, SupervisorAssumption DEF NudgeWrite
  <2> QED BY <1>41, <2>1, <2>2 DEF NudgeWrite, NudgeMoves, snapVars, runVars, childVars
<1>42. CASE UNCHANGED vars
  BY <1>42 DEF vars
<1> QED
  BY <1>1, <1>2, <1>3, <1>4, <1>5, <1>6, <1>7, <1>8, <1>9, <1>10, <1>11, <1>12, <1>13, <1>14, <1>16, <1>17, <1>18, <1>19, <1>20, <1>21, <1>22, <1>23, <1>24, <1>25, <1>26, <1>27, <1>28, <1>29, <1>30, <1>31, <1>32, <1>33, <1>34, <1>35, <1>36, <1>37, <1>38, <1>39, <1>40, <1>41, <1>42
  DEF Next, RunStep, Environment, Nudge

-----------------------------------------------------------------------------
\* SafetyInv is preserved, part by part.  LifeInv: the writer, the descriptor and
\* the process follow Run's position.
LEMMA LifeStep ==
  ASSUME TypedInv, SafetyInv, [Next]_vars PROVE LifeInv'
<1> USE DEF SafetyInv, LifeInv, TypedInv, TypeOK
<1>1. CASE Spawn
  BY <1>1 DEF Spawn, snapVars, runVars, childVars, ReadPcs, WriterPcs, ChildPcs, FreshPcs
<1>2. CASE LoopExit
  BY <1>2 DEF LoopExit, snapVars, runVars, childVars, ReadPcs, WriterPcs, ChildPcs, FreshPcs
<1>3. CASE DialFail
  BY <1>3 DEF DialFail, snapVars, runVars, childVars, ReadPcs, WriterPcs, ChildPcs, FreshPcs
<1>4. CASE DialOk
  BY <1>4 DEF DialOk, snapVars, runVars, childVars, ReadPcs, WriterPcs, ChildPcs, FreshPcs
<1>5. CASE Acquire \/ GetPropertiesFails \/ GetProperties
  BY <1>5
  DEF Acquire, GetPropertiesFails, GetProperties, snapVars, runVars, childVars, ReadPcs, WriterPcs, ChildPcs, FreshPcs
<1>6. CASE Receive \/ Observe \/ Apply \/ ClaimPresets \/ WriteClaimed \/ ConnectOnDef \/ EvalConnection \/ SweepPresets
  BY <1>6
  DEF Receive, Observe, Apply, GoOn, ClaimPresets, WriteClaimed, ConnectOnDef, EvalConnection, SweepPresets, NextElement, snapVars, runVars, childVars, ReadPcs, WriterPcs, ChildPcs, FreshPcs
<1>7. CASE Eof \/ Malformed \/ Lost \/ LostPhase \/ Teardown
  BY <1>7
  DEF Eof, Malformed, Lost, LostPhase, Teardown, snapVars, runVars, childVars, ReadFails, ReadPcs, WriterPcs, ChildPcs, FreshPcs
<1>8. CASE Detach \/ Term \/ GraceExpires \/ Reap
  BY <1>8
  DEF Detach, Term, GraceExpires, Reap, snapVars, runVars, childVars, ReadPcs, WriterPcs, ChildPcs, FreshPcs
<1>9. CASE CloseChild
  BY <1>9 DEF CloseChild, snapVars, runVars, childVars, NoChild, ReadPcs, WriterPcs, ChildPcs, FreshPcs
<1>10. CASE Invalidate \/ AnnounceGone
  <2>1. UNCHANGED <<w, fdOpen, proc>>
    BY <1>10 DEF Invalidate, AnnounceGone, childVars
  <2>2. \/ pc = "invalidate" /\ pc' = "announce"
        \/ pc = "announce" /\ pc' \in {"announce", "after"}
        \/ pc = "lostgone" /\ pc' \in {"lostgone", "teardown"}
    BY <1>10 DEF Invalidate, AnnounceGone
  <2> QED BY <2>1, <2>2 DEF ReadPcs, WriterPcs, ChildPcs
<1>11. CASE AfterAttempt
  BY <1>11 DEF AfterAttempt, snapVars, runVars, childVars, ReadPcs, WriterPcs, ChildPcs, FreshPcs
<1>12. CASE BackoffEnds
  BY <1>12 DEF BackoffEnds, snapVars, runVars, childVars, ReadPcs, WriterPcs, ChildPcs, FreshPcs
<1>13. CASE Stopping
  BY <1>13 DEF Stopping, snapVars, runVars, childVars, ReadPcs, WriterPcs, ChildPcs, FreshPcs
<1>14. CASE Cancel \/ DisconnectQuietly \/ Shutdown \/ CommandContextKill \/ DriverExits
  BY <1>14
  DEF Cancel, DisconnectQuietly, Shutdown, CommandContextKill, DriverExits, snapVars, runVars, childVars, ReadPcs, WriterPcs, ChildPcs, FreshPcs
<1>15. ASSUME NEW n \in Nudgers, Nudge(n) PROVE LifeInv'
  BY <1>15
  DEF Nudge, NudgeTick, NudgeExit, NudgePhase, NudgeSnapshot, NudgeRefused, NudgeWaits, NudgeAllowed, NudgeWrite, NudgeMoves, snapVars, runVars, childVars
<1>16. CASE UNCHANGED vars
  BY <1>16 DEF vars
<1> QED BY <1>1, <1>2, <1>3, <1>4, <1>5, <1>6, <1>7, <1>8, <1>9, <1>10, <1>11, <1>12, <1>13, <1>14, <1>15, <1>16 DEF Next, RunStep, Environment

\* PhaseInv: only Run leaves Acquiring and Serving, whatever nudges are in flight.
LEMMA PhaseStep ==
  ASSUME TypedInv, SafetyInv, [Next]_vars PROVE PhaseInv'
<1> USE DEF SafetyInv, PhaseInv
<1>1. CASE Spawn \/ LoopExit \/ DialFail \/ DialOk
  BY <1>1
  DEF Spawn, LoopExit, DialFail, DialOk, snapVars, runVars, childVars, ReadPcs, WriterPcs, ChildPcs, FreshPcs
<1>2. CASE Acquire \/ GetPropertiesFails \/ GetProperties
  BY <1>2
  DEF Acquire, GetPropertiesFails, GetProperties, snapVars, runVars, childVars, ReadPcs, WriterPcs, ChildPcs, FreshPcs
<1>3. CASE Receive \/ Observe \/ Apply \/ ClaimPresets \/ WriteClaimed \/ SweepPresets
  BY <1>3
  DEF Receive, Observe, Apply, GoOn, ClaimPresets, WriteClaimed, SweepPresets, NextElement, snapVars, runVars, childVars, ReadPcs, WriterPcs, ChildPcs, FreshPcs
<1>4. CASE ConnectOnDef \/ EvalConnection
  BY <1>4
  DEF ConnectOnDef, EvalConnection, NextElement, snapVars, runVars, childVars, SendConnect, EvalPhase, ReadPcs, WriterPcs, ChildPcs, FreshPcs
<1>5. CASE Eof \/ Malformed \/ Lost \/ LostPhase \/ Teardown
  BY <1>5
  DEF Eof, Malformed, Lost, LostPhase, Teardown, snapVars, runVars, childVars, ReadFails, ReadPcs, WriterPcs, ChildPcs, FreshPcs
<1>6. CASE Detach \/ Term \/ GraceExpires \/ Reap
  BY <1>6
  DEF Detach, Term, GraceExpires, Reap, snapVars, runVars, childVars, ReadPcs, WriterPcs, ChildPcs, FreshPcs
<1>7. CASE CloseChild \/ Invalidate \/ AnnounceGone \/ AfterAttempt \/ BackoffEnds \/ Stopping
  BY <1>7
  DEF CloseChild, Invalidate, AnnounceGone, AfterAttempt, BackoffEnds, Stopping, snapVars, runVars, childVars, ReadPcs, WriterPcs, ChildPcs, FreshPcs
<1>8. CASE Cancel \/ DisconnectQuietly \/ Shutdown \/ CommandContextKill \/ DriverExits
  BY <1>8
  DEF Cancel, DisconnectQuietly, Shutdown, CommandContextKill, DriverExits, snapVars, runVars, childVars, ReadPcs, WriterPcs, ChildPcs, FreshPcs
<1>9. ASSUME NEW n \in Nudgers, Nudge(n) PROVE PhaseInv'
  BY <1>9
  DEF Nudge, NudgeTick, NudgeExit, NudgePhase, NudgeSnapshot, NudgeRefused, NudgeWaits, NudgeAllowed, NudgeWrite, NudgeMoves, snapVars, runVars, childVars
<1>10. CASE UNCHANGED vars
  BY <1>10 DEF vars
<1> QED BY <1>1, <1>2, <1>3, <1>4, <1>5, <1>6, <1>7, <1>8, <1>9, <1>10 DEF Next, RunStep, Environment

\* Publishing an empty snapshot leaves no device.
LEMMA PublishedEmpty ==
  ASSUME NEW v, Publish(v) PROVE Known' = {}
BY DEF Publish, Known

\* Store.Apply brings the set of known devices to what the observer was told.
LEMMA ApplyKnown ==
  ASSUME TypedInv, Apply PROVE Known' = Told(el)
<1>1. el \in Elements /\ ApplyStore(el)
  BY DEF TypedInv, ElementInv, Apply, GoOn, NextElement, ReadPcs
<1> DEFINE d == el.dev
<1>2. d \in Devices
  BY <1>1, ElementFields
<1>3. \A x \in Devices \ {d} : conn'[x] = conn[x]
  BY <1>1 DEF ApplyStore, TypedInv, TypeOK
<1>4. CASE el.kind = "def"
  <2>1. conn'[d] # "gone"
    BY <1>1, <1>2, <1>4, ConnValueType DEF ApplyStore, TypedInv, TypeOK
  <2>2. Told(el) = Known \cup {d}
    BY <1>4 DEF Told
  <2> QED BY <1>2, <1>3, <2>1, <2>2 DEF Known
<1>5. CASE el.kind = "del" /\ el.name = "*"
  <2>1. conn'[d] = "gone"
    BY <1>1, <1>2, <1>5 DEF ApplyStore, TypedInv, TypeOK
  <2>2. Told(el) = Known \ {d}
    BY <1>5 DEF Told
  <2> QED BY <1>2, <1>3, <2>1, <2>2 DEF Known
<1>6. CASE el.kind # "def" /\ ~(el.kind = "del" /\ el.name = "*")
  <2>1. (conn'[d] = "gone") <=> (conn[d] = "gone")
    BY <1>1, <1>2, <1>6, ConnValueType DEF ApplyStore, HasConn, TypedInv, TypeOK
  <2>2. Told(el) = Known
    BY <1>6 DEF Told
  <2> QED BY <1>2, <1>3, <2>1, <2>2 DEF Known
<1> QED BY <1>4, <1>5, <1>6

\* DataInv: the snapshot and the observer empty together.
LEMMA DataStep ==
  ASSUME TypedInv, SafetyInv, [Next]_vars PROVE DataInv'
<1> USE DEF SafetyInv, DataInv, PhaseInv
<1>1. CASE Spawn
  BY <1>1, PublishedEmpty DEF Spawn, snapVars, runVars, childVars, ReadPcs, WriterPcs, ChildPcs, FreshPcs
<1>2. CASE LoopExit \/ DialFail
  BY <1>2
  DEF LoopExit, DialFail, snapVars, runVars, childVars, Known, ReadPcs, WriterPcs, ChildPcs, FreshPcs
<1>3. CASE DialOk \/ Acquire \/ GetPropertiesFails \/ GetProperties
  BY <1>3
  DEF DialOk, Acquire, GetPropertiesFails, GetProperties, snapVars, runVars, childVars, Known, ReadPcs, WriterPcs, ChildPcs, FreshPcs
<1>4. CASE Receive \/ ClaimPresets \/ WriteClaimed
  BY <1>4
  DEF Receive, ClaimPresets, GoOn, NextElement, WriteClaimed, snapVars, runVars, childVars, Known, ReadPcs, WriterPcs, ChildPcs, FreshPcs
<1>5. CASE SweepPresets
  BY <1>5
  DEF SweepPresets, NextElement, snapVars, runVars, childVars, Known, ReadPcs, WriterPcs, ChildPcs, FreshPcs
<1>6. CASE Observe \/ Apply
  <2>1. CASE Observe
    <3>1. Known' = Known /\ Told(el)' = Told(el)
      BY <2>1 DEF Observe, Known, Told, snapVars
    <3>2. seen = Known
      BY <2>1 DEF Observe
    <3>3. seen' = Told(el)
      BY <2>1, <3>2, Zenon DEF Observe, Told
    <3> QED BY <2>1, <3>1, <3>3 DEF Observe, ReadPcs, WriterPcs, ChildPcs
  <2>2. CASE Apply
    <3>1. Known' = Told(el) /\ seen' = Told(el)
      BY <2>2, ApplyKnown DEF Apply, GoOn, NextElement
    <3>2. gone' = {}
      BY <2>2 DEF Apply, GoOn, NextElement
    <3> QED BY <2>2, <3>1, <3>2 DEF Apply, GoOn, NextElement, ReadPcs, WriterPcs, ChildPcs
  <2> QED BY <1>6, <2>1, <2>2
<1>7. CASE ConnectOnDef
  BY <1>7 DEF ConnectOnDef, snapVars, runVars, childVars, SendConnect, Known, ReadPcs, WriterPcs, ChildPcs, FreshPcs
<1>8. CASE EvalConnection
  BY <1>8 DEF EvalConnection, NextElement, snapVars, runVars, childVars, EvalPhase, Known, ReadPcs, WriterPcs, ChildPcs, FreshPcs
<1>9. CASE Eof \/ Malformed
  BY <1>9
  DEF Eof, Malformed, snapVars, runVars, childVars, ReadFails, Known, ReadPcs, WriterPcs, ChildPcs, FreshPcs
<1>10. CASE Lost
  BY <1>10, PublishedEmpty DEF Lost, snapVars, runVars, childVars, ReadPcs, WriterPcs, ChildPcs, FreshPcs
<1>11. CASE LostPhase
  BY <1>11 DEF LostPhase, snapVars, runVars, childVars, Known, ReadPcs, WriterPcs, ChildPcs, FreshPcs
<1>12. CASE Teardown \/ Detach \/ Term \/ GraceExpires \/ Reap
  BY <1>12
  DEF Teardown, Detach, Term, GraceExpires, Reap, snapVars, runVars, childVars, Known, ReadPcs, WriterPcs, ChildPcs, FreshPcs
<1>13. CASE CloseChild
  BY <1>13 DEF CloseChild, snapVars, runVars, childVars, Known, ReadPcs, WriterPcs, ChildPcs, FreshPcs
<1>14. CASE Invalidate
  BY <1>14, PublishedEmpty DEF Invalidate, snapVars, runVars, childVars, ReadPcs, WriterPcs, ChildPcs, FreshPcs
<1>15. CASE AfterAttempt \/ BackoffEnds \/ Stopping
  BY <1>15
  DEF AfterAttempt, BackoffEnds, Stopping, snapVars, runVars, childVars, Known, ReadPcs, WriterPcs, ChildPcs, FreshPcs
<1>16. CASE Cancel \/ DisconnectQuietly \/ Shutdown \/ CommandContextKill \/ DriverExits
  BY <1>16
  DEF Cancel, DisconnectQuietly, Shutdown, CommandContextKill, DriverExits, snapVars, runVars, childVars, Known, Told, ReadPcs, WriterPcs, ChildPcs, FreshPcs
<1>17. ASSUME NEW n \in Nudgers, Nudge(n) PROVE DataInv'
  BY <1>17
  DEF Nudge, NudgeTick, NudgeExit, NudgePhase, NudgeSnapshot, NudgeRefused, NudgeWaits, NudgeAllowed, NudgeWrite, NudgeMoves, snapVars, runVars, childVars, Known, Told
<1>18. CASE UNCHANGED vars
  BY <1>18 DEF vars, Known, Told
<1>19. CASE AnnounceGone
  <2>1. Known = {} /\ Known' = {}
    BY <1>19 DEF AnnounceGone, Known, snapVars, ReadPcs, WriterPcs, ChildPcs
  <2> QED BY <1>19, <2>1 DEF AnnounceGone, ReadPcs, WriterPcs, ChildPcs, FreshPcs
<1> QED BY <1>1, <1>2, <1>3, <1>4, <1>5, <1>6, <1>7, <1>8, <1>9, <1>10, <1>11, <1>12, <1>13, <1>14, <1>15, <1>16, <1>17, <1>18, <1>19 DEF Next, RunStep, Environment

\* WritePresets counts at most the presets of S, once each, and those that it
\* does not count are recorded as unfit.
LEMMA WriteCounts ==
  ASSUME TypeOK, NEW S \in SUBSET Presets, WritePresets(S),
         \A p \in S : written[p] = 0
  PROVE  /\ \A p \in Presets \ S : written'[p] = written[p]
         /\ \A p \in S : written'[p] <= 1
         /\ CanWrite => \A p \in S : written'[p] = 1 \/ p \in unfit'
         /\ unfit \subseteq unfit'
BY DEF TypeOK, WritePresets

\* PresetInv: a claimed preset is written once, by the goroutine that claimed it.
LEMMA PresetStep ==
  ASSUME TypedInv, SafetyInv, [Next]_vars PROVE PresetInv'
<1> USE DEF SafetyInv, PresetInv, TypedInv, TypeOK, LifeInv, ElementInv, CanWrite
<1>1. CASE Spawn
  BY <1>1 DEF Spawn, snapVars, runVars, childVars, ReadPcs, WriterPcs, ChildPcs, FreshPcs
<1>2. CASE LoopExit \/ DialFail
  BY <1>2
  DEF LoopExit, DialFail, snapVars, runVars, childVars, ReadPcs, WriterPcs, ChildPcs, FreshPcs
<1>3. CASE DialOk
  BY <1>3 DEF DialOk, snapVars, runVars, childVars, ReadPcs, WriterPcs, ChildPcs, FreshPcs
<1>4. CASE Acquire \/ GetPropertiesFails \/ GetProperties
  BY <1>4
  DEF Acquire, GetPropertiesFails, GetProperties, snapVars, runVars, childVars, ReadPcs, WriterPcs, ChildPcs, FreshPcs
<1>5. CASE Receive \/ Observe \/ Apply
  BY <1>5
  DEF Receive, Observe, Apply, GoOn, NextElement, snapVars, runVars, childVars, ReadPcs, WriterPcs, ChildPcs, FreshPcs
<1>6. CASE ClaimPresets
  BY <1>6 DEF ClaimPresets, GoOn, NextElement, snapVars, runVars, childVars, Due, ReadPcs, WriterPcs, ChildPcs, FreshPcs
<1>7. CASE WriteClaimed
  BY <1>7, WriteCounts DEF WriteClaimed, GoOn, NextElement, snapVars, runVars, childVars, CanWrite, ReadPcs, WriterPcs, ChildPcs, FreshPcs
<1>8. CASE ConnectOnDef \/ EvalConnection
  BY <1>8
  DEF ConnectOnDef, EvalConnection, NextElement, snapVars, runVars, childVars, ReadPcs, WriterPcs, ChildPcs, FreshPcs
<1>9. CASE SweepPresets
  BY <1>9, WriteCounts DEF SweepPresets, NextElement, snapVars, runVars, childVars, Due, SweepPending, CanWrite, ReadPcs, WriterPcs, ChildPcs, FreshPcs
<1>10. CASE Eof \/ Malformed
  BY <1>10
  DEF Eof, Malformed, snapVars, runVars, childVars, ReadFails, ReadPcs, WriterPcs, ChildPcs, FreshPcs
<1>11. CASE Lost \/ LostPhase
  BY <1>11
  DEF Lost, LostPhase, snapVars, runVars, childVars, ReadPcs, WriterPcs, ChildPcs, FreshPcs
<1>12. CASE Teardown \/ Detach \/ Term \/ GraceExpires \/ Reap
  BY <1>12
  DEF Teardown, Detach, Term, GraceExpires, Reap, snapVars, runVars, childVars, ReadPcs, WriterPcs, ChildPcs, FreshPcs
<1>13. CASE CloseChild
  BY <1>13 DEF CloseChild, snapVars, runVars, childVars, NoChild, ReadPcs, WriterPcs, ChildPcs, FreshPcs
<1>14. CASE Invalidate \/ AnnounceGone \/ AfterAttempt
  BY <1>14
  DEF Invalidate, AnnounceGone, AfterAttempt, snapVars, runVars, childVars, ReadPcs, WriterPcs, ChildPcs, FreshPcs
<1>15. CASE BackoffEnds \/ Stopping
  BY <1>15
  DEF BackoffEnds, Stopping, snapVars, runVars, childVars, ReadPcs, WriterPcs, ChildPcs, FreshPcs
<1>16. CASE Cancel \/ DisconnectQuietly \/ Shutdown \/ CommandContextKill \/ DriverExits
  BY <1>16
  DEF Cancel, DisconnectQuietly, Shutdown, CommandContextKill, DriverExits, snapVars, runVars, childVars, ReadPcs, WriterPcs, ChildPcs, FreshPcs
<1>17. ASSUME NEW n \in Nudgers, Nudge(n) PROVE PresetInv'
  BY <1>17
  DEF Nudge, NudgeTick, NudgeExit, NudgePhase, NudgeSnapshot, NudgeRefused, NudgeWaits, NudgeAllowed, NudgeWrite, NudgeMoves, snapVars, runVars, childVars
<1>18. CASE UNCHANGED vars
  BY <1>18 DEF vars
<1> QED BY <1>1, <1>2, <1>3, <1>4, <1>5, <1>6, <1>7, <1>8, <1>9, <1>10, <1>11, <1>12, <1>13, <1>14, <1>15, <1>16, <1>17, <1>18 DEF Next, RunStep, Environment

\* ServingInv: Serving is entered only on a reported connection.
LEMMA ServingStep ==
  ASSUME TypedInv, SafetyInv, [Next]_vars PROVE ServingInv'
<1> USE DEF SafetyInv, ServingInv, TypedInv, TypeOK, PhaseInv
<1>1. CASE Spawn \/ LoopExit \/ DialFail
  BY <1>1
  DEF Spawn, LoopExit, DialFail, snapVars, runVars, childVars, ReadPcs, WriterPcs, ChildPcs, FreshPcs
<1>2. CASE DialOk
  BY <1>2 DEF DialOk, snapVars, runVars, childVars, ReadPcs, WriterPcs, ChildPcs, FreshPcs
<1>3. CASE Acquire \/ GetPropertiesFails \/ GetProperties
  BY <1>3
  DEF Acquire, GetPropertiesFails, GetProperties, snapVars, runVars, childVars, ReadPcs, WriterPcs, ChildPcs, FreshPcs
<1>4. CASE Receive \/ Observe \/ Apply
  BY <1>4
  DEF Receive, Observe, Apply, GoOn, NextElement, snapVars, runVars, childVars, ReadPcs, WriterPcs, ChildPcs, FreshPcs
<1>5. CASE ClaimPresets
  BY <1>5 DEF ClaimPresets, GoOn, NextElement, snapVars, runVars, childVars, Due, ReadPcs, WriterPcs, ChildPcs, FreshPcs
<1>6. CASE WriteClaimed
  BY <1>6, WriteCounts DEF WriteClaimed, GoOn, NextElement, snapVars, runVars, childVars, CanWrite, Presets, PresetInv, ReadPcs, WriterPcs, ChildPcs, FreshPcs
<1>7. CASE ConnectOnDef
  BY <1>7 DEF ConnectOnDef, snapVars, runVars, childVars, SendConnect, ReadPcs, WriterPcs, ChildPcs, FreshPcs
<1>8. CASE EvalConnection
  BY <1>8 DEF EvalConnection, NextElement, snapVars, runVars, childVars, EvalPhase, ReadPcs, WriterPcs, ChildPcs, FreshPcs
<1>10. CASE SweepPresets
  BY <1>10 DEF SweepPresets, NextElement, snapVars, runVars, childVars, PresetInv, ReadPcs, WriterPcs, ChildPcs, FreshPcs
<1>11. CASE Eof \/ Malformed
  BY <1>11
  DEF Eof, Malformed, snapVars, runVars, childVars, ReadFails, ReadPcs, WriterPcs, ChildPcs, FreshPcs
<1>12. CASE Lost \/ LostPhase
  BY <1>12
  DEF Lost, LostPhase, snapVars, runVars, childVars, ReadPcs, WriterPcs, ChildPcs, FreshPcs
<1>13. CASE Teardown \/ Detach \/ Term \/ GraceExpires \/ Reap
  BY <1>13
  DEF Teardown, Detach, Term, GraceExpires, Reap, snapVars, runVars, childVars, ReadPcs, WriterPcs, ChildPcs, FreshPcs
<1>14. CASE CloseChild
  BY <1>14 DEF CloseChild, snapVars, runVars, childVars, NoChild, PresetInv, Presets, ReadPcs, WriterPcs, ChildPcs, FreshPcs
<1>15. CASE Invalidate \/ AnnounceGone \/ AfterAttempt
  BY <1>15
  DEF Invalidate, AnnounceGone, AfterAttempt, snapVars, runVars, childVars, ReadPcs, WriterPcs, ChildPcs, FreshPcs
<1>16. CASE BackoffEnds \/ Stopping
  BY <1>16
  DEF BackoffEnds, Stopping, snapVars, runVars, childVars, ReadPcs, WriterPcs, ChildPcs, FreshPcs
<1>17. CASE Cancel \/ DisconnectQuietly \/ Shutdown \/ CommandContextKill \/ DriverExits
  BY <1>17
  DEF Cancel, DisconnectQuietly, Shutdown, CommandContextKill, DriverExits, snapVars, runVars, childVars, ReadPcs, WriterPcs, ChildPcs, FreshPcs
<1>18. ASSUME NEW n \in Nudgers, Nudge(n) PROVE ServingInv'
  BY <1>18
  DEF Nudge, NudgeTick, NudgeExit, NudgePhase, NudgeSnapshot, NudgeRefused, NudgeWaits, NudgeAllowed, NudgeWrite, NudgeMoves, snapVars, runVars, childVars
<1>19. CASE UNCHANGED vars
  BY <1>19 DEF vars
<1> QED BY <1>1, <1>2, <1>3, <1>4, <1>5, <1>6, <1>7, <1>8, <1>10, <1>11, <1>12, <1>13, <1>14, <1>15, <1>16, <1>17, <1>18, <1>19 DEF Next, RunStep, Environment

\* HoldInv: no goroutine passes the HoldConnect test.
LEMMA HoldStep ==
  ASSUME TypedInv, SafetyInv, [Next]_vars PROVE HoldInv'
<1> USE DEF SafetyInv, HoldInv, TypedInv, TypeOK
<1>1. CASE Spawn \/ LoopExit \/ DialFail \/ DialOk \/ Acquire \/ GetPropertiesFails \/ Observe \/ Apply \/ ClaimPresets \/ WriteClaimed \/ EvalConnection \/ SweepPresets \/ Lost \/ LostPhase \/ Detach \/ Term \/ GraceExpires \/ Reap \/ Invalidate \/ AnnounceGone \/ AfterAttempt \/ BackoffEnds \/ Stopping \/ Cancel \/ Shutdown \/ CommandContextKill \/ DriverExits
  BY <1>1
  DEF Spawn, LoopExit, DialFail, DialOk, Acquire, GetPropertiesFails, Observe, Apply, GoOn, ClaimPresets, WriteClaimed, EvalConnection, SweepPresets, NextElement, Lost, LostPhase, Detach, Term, GraceExpires, Reap, Invalidate, AnnounceGone, AfterAttempt, BackoffEnds, Stopping, Cancel, Shutdown, CommandContextKill, DriverExits, snapVars, runVars, childVars
<1>2. CASE GetProperties
  BY <1>2 DEF GetProperties, snapVars, runVars, childVars
<1>3. CASE Teardown
  BY <1>3 DEF Teardown, snapVars, runVars, childVars
<1>4. CASE Eof \/ Malformed
  BY <1>4
  DEF Eof, Malformed, snapVars, runVars, childVars, ReadFails
<1>5. CASE Receive
  BY <1>5, ElementFields DEF Receive, snapVars, runVars, childVars
<1>6. CASE ConnectOnDef
  BY <1>6 DEF ConnectOnDef, snapVars, runVars, childVars, SendConnect, Ask
<1>7. CASE CloseChild
  BY <1>7 DEF CloseChild, snapVars, runVars, childVars, NoChild
<1>8. CASE DisconnectQuietly
  BY <1>8 DEF DisconnectQuietly, snapVars, runVars, childVars
<1>9. ASSUME NEW n \in Nudgers, Nudge(n) PROVE HoldInv'
  BY <1>9
  DEF Nudge, NudgeTick, NudgeExit, NudgePhase, NudgeSnapshot, NudgeRefused, NudgeWaits, NudgeAllowed, NudgeWrite, NudgeMoves, snapVars, runVars, childVars, NudgeDrop, NudgeTargets, Ask
<1>10. CASE UNCHANGED vars
  BY <1>10 DEF vars
<1> QED BY <1>1, <1>2, <1>3, <1>4, <1>5, <1>6, <1>7, <1>8, <1>9, <1>10 DEF Next, RunStep, Environment

\* wantDevice is asked before every CONNECT.
LEMMA UnwantedStep ==
  ASSUME TypedInv, SafetyInv, [Next]_vars PROVE UnwantedNeverConnects'
<1> USE DEF SafetyInv, UnwantedNeverConnects, TypedInv, TypeOK
<1>1. CASE Spawn \/ LoopExit \/ DialFail \/ DialOk \/ Acquire \/ GetPropertiesFails \/ Observe \/ Apply \/ ClaimPresets \/ WriteClaimed \/ EvalConnection \/ SweepPresets \/ Lost \/ LostPhase \/ Detach \/ Term \/ GraceExpires \/ Reap \/ Invalidate \/ AnnounceGone \/ AfterAttempt \/ BackoffEnds \/ Stopping \/ Cancel \/ Shutdown \/ CommandContextKill \/ DriverExits
  BY <1>1
  DEF Spawn, LoopExit, DialFail, DialOk, Acquire, GetPropertiesFails, Observe, Apply, GoOn, ClaimPresets, WriteClaimed, EvalConnection, SweepPresets, NextElement, Lost, LostPhase, Detach, Term, GraceExpires, Reap, Invalidate, AnnounceGone, AfterAttempt, BackoffEnds, Stopping, Cancel, Shutdown, CommandContextKill, DriverExits, snapVars, runVars, childVars
<1>2. CASE GetProperties
  BY <1>2 DEF GetProperties, snapVars, runVars, childVars
<1>3. CASE Teardown
  BY <1>3 DEF Teardown, snapVars, runVars, childVars
<1>4. CASE Eof \/ Malformed
  BY <1>4
  DEF Eof, Malformed, snapVars, runVars, childVars, ReadFails
<1>5. CASE Receive
  BY <1>5, ElementFields DEF Receive, snapVars, runVars, childVars
<1>6. CASE ConnectOnDef
  BY <1>6, SupervisorAssumption DEF ConnectOnDef, snapVars, runVars, childVars, SendConnect, Ask
<1>7. CASE CloseChild
  BY <1>7 DEF CloseChild, snapVars, runVars, childVars, NoChild
<1>8. CASE DisconnectQuietly
  BY <1>8 DEF DisconnectQuietly, snapVars, runVars, childVars
<1>9. ASSUME NEW n \in Nudgers, Nudge(n) PROVE UnwantedNeverConnects'
  BY <1>9, SupervisorAssumption
  DEF Nudge, NudgeTick, NudgeExit, NudgePhase, NudgeSnapshot, NudgeRefused, NudgeWaits, NudgeAllowed, NudgeWrite, NudgeMoves, snapVars, runVars, childVars, NudgeDrop, NudgeTargets, Ask
<1>10. CASE UNCHANGED vars
  BY <1>10 DEF vars
<1> QED BY <1>1, <1>2, <1>3, <1>4, <1>5, <1>6, <1>7, <1>8, <1>9, <1>10 DEF Next, RunStep, Environment

-----------------------------------------------------------------------------
\* The initial state satisfies SafetyInv.
LEMMA SafetyInit == Init => SafetyInv
<1> SUFFICES ASSUME Init PROVE SafetyInv
  OBVIOUS
<1> USE DEF Init
<1>1. LifeInv /\ ElementInv /\ PhaseInv
  BY DEF LifeInv, ElementInv, PhaseInv, ReadPcs, WriterPcs, ChildPcs, FreshPcs
<1>2. DataInv
  BY DEF DataInv, Known
<1>3. PresetInv
  BY DEF PresetInv, ReadPcs, WriterPcs, ChildPcs, FreshPcs
<1>4. ServingInv
  BY DEF ServingInv, Presets, ReadPcs
<1>5. HoldInv /\ UnwantedNeverConnects
  BY DEF HoldInv, IdleNudge, UnwantedNeverConnects
<1> QED BY <1>1, <1>2, <1>3, <1>4, <1>5 DEF SafetyInv

\* TypeOK holds of every behaviour, for every set of devices and presets.
THEOREM TypeCorrect == Spec => []TypeOK
<1>1. TypedInv => TypeOK
  BY DEF TypedInv
<1> QED BY TypedInit, TypedStep, <1>1, PTL DEF Spec

\* SafetyInv is an invariant: the named parts support each other.
THEOREM SafetyCorrect == Spec => [](TypedInv /\ SafetyInv)
<1>1. ASSUME TypedInv, SafetyInv, [Next]_vars PROVE SafetyInv'
  <2>1. ElementInv'
    BY <1>1, TypedStep DEF TypedInv
  <2> QED
    BY <1>1, <2>1, LifeStep, PhaseStep, DataStep, PresetStep, ServingStep, HoldStep,
       UnwantedStep DEF SafetyInv
<1> QED BY TypedInit, TypedStep, SafetyInit, <1>1, PTL DEF Spec

\* attempt's ordering: senders never reach a reaped child or a closed descriptor.
THEOREM WriterSafe == Spec => []WriterHasChild
<1>1. TypedInv /\ SafetyInv => WriterHasChild
  BY DEF SafetyInv, LifeInv, WriterHasChild, ChildPcs
<1> QED BY SafetyCorrect, <1>1, PTL

\* What clients were told and what a replay would tell them differ by at most the
\* element under way, or by the devices of a lost child still to be announced.
THEOREM ObserverInStep == Spec => []ObserverAgrees
<1>1. TypedInv /\ SafetyInv => ObserverAgrees
  BY DEF SafetyInv, DataInv, ObserverAgrees, Told
<1> QED BY SafetyCorrect, <1>1, PTL

\* announceGone: between two children the observer believes in no device, on
\* every way out of attempt.
THEOREM ObserverForgets == Spec => []ObserverForgetsChild
<1>1. TypedInv /\ SafetyInv => ObserverForgetsChild
  BY DEF SafetyInv, DataInv, ObserverForgetsChild, BetweenChildren, ChildPcs, WriterPcs, ReadPcs
<1> QED BY SafetyCorrect, <1>1, PTL

\* readLoop invalidates before it publishes the phase: a phase that says the
\* driver is down is never seen with the dead child's devices.
THEOREM DownIsEmpty == Spec => []DownHasNoData
<1>1. TypedInv /\ SafetyInv => DownHasNoData
  BY DEF SafetyInv, DataInv, DownHasNoData
<1> QED BY SafetyCorrect, <1>1, PTL

\* applyPresetsFor: at most once per child, after-connect ones only after a
\* reported connection.
THEOREM PresetSafe == Spec => [](PresetOncePerChild /\ AfterPresetsWaitForServing)
<1>1. TypedInv /\ SafetyInv => PresetOncePerChild /\ AfterPresetsWaitForServing
  BY DEF SafetyInv, PresetInv, ServingInv, PresetOncePerChild, AfterPresetsWaitForServing
<1> QED BY SafetyCorrect, <1>1, PTL

\* sendConnect: no goroutine connects a held child or a device not wanted.
THEOREM ConnectSafe == Spec => [](HeldNeverConnects /\ UnwantedNeverConnects)
<1>1. TypedInv /\ SafetyInv => HeldNeverConnects /\ UnwantedNeverConnects
  BY DEF SafetyInv, HoldInv, HeldNeverConnects
<1> QED BY SafetyCorrect, <1>1, PTL

\* The read loop's own CONNECT follows every before-connect preset of this child
\* that its vectors took; those they did not take are the ones in unfit.
THEOREM ReaderOrder == Spec => ReaderConnectsAfterPresets
<1>1. ASSUME TypedInv, SafetyInv, [Next]_vars,
             pc = "connect", pc' # pc, asked' # asked
      PROVE  \A p \in Before : written[<<p, "before">>] > 0 \/ <<p, "before">> \in unfit
  <2>1. ConnectOnDef
    BY <1>1 DEF Next, RunStep, Environment, vars, Nudge, NudgeTick, NudgeExit, NudgePhase, NudgeSnapshot, NudgeRefused, NudgeWaits,
                NudgeAllowed, NudgeWrite, NudgeMoves, runVars, Spawn, LoopExit, DialFail, DialOk, Acquire,
                GetPropertiesFails, GetProperties, Receive, Observe, Apply, GoOn, ClaimPresets, WriteClaimed, EvalConnection,
                SweepPresets, NextElement, Eof, Malformed, Lost, LostPhase, Teardown, Detach, Term,
                GraceExpires, Reap, CloseChild, Invalidate, AnnounceGone, AfterAttempt, BackoffEnds, Stopping,
                Cancel, DisconnectQuietly, Shutdown, CommandContextKill, DriverExits
  <2>2. BeforeDone /\ CanWrite
    BY <1>1, <2>1 DEF ConnectOnDef, SendConnect, Ask
  <2>3. \A p \in Before : <<p, "before">> \in marked \ todo
    BY <1>1, <2>2 DEF SafetyInv, PresetInv, BeforeDone
  <2>4. \A p \in Before : <<p, "before">> \in Presets
    BY DEF Presets
  <2>5. pc \in ReadPcs
    BY <1>1 DEF ReadPcs
  <2>6. \A q \in marked \ todo : q \in Presets => written[q] > 0 \/ q \in unfit
    BY <1>1, <2>2, <2>5 DEF SafetyInv, PresetInv
  <2> QED BY <2>3, <2>4, <2>6
<1>2. TypedInv /\ SafetyInv /\ [Next]_vars =>
        [pc = "connect" /\ pc' # pc /\ asked' # asked =>
           \A p \in Before : written[<<p, "before">>] > 0 \/ <<p, "before">> \in unfit]_vars
  BY <1>1
<1> QED BY SafetyCorrect, <1>2, PTL DEF Spec, ReaderConnectsAfterPresets

-----------------------------------------------------------------------------
(***************************************************************************)
(* The phase and the snapshot.                                              *)
(***************************************************************************)
\* One device is wanted, the driver defines what it sets and names every member,
\* and no nudge can be refused half-way: it holds no presets back, or never
\* connects at all.  Without any one of these the two can part (see README.md).
Ordinary ==
  /\ \A d, e \in Wanted : d = e
  /\ Quirks = {}
  /\ Before = {} \/ HoldConnect

\* The phase is what the snapshot's CONNECTION says.
Agree ==
  \A d \in Wanted : /\ (conn[d] = "on" => phase = "serving")
                    /\ (phase = "serving" => conn[d] \in {"on", "onbad"})

\* The snapshot holds what the element said.
Stored ==
  IF el.kind \in {"def", "set"}
  THEN conn[el.dev] = IF el.on # "on" THEN "off" ELSE IF el.state = "ok" THEN "on" ELSE "onbad"
  ELSE conn[el.dev] \in {"gone", "none"}

\* Between the store and evalConnection the phase is behind by one element.
AgreeInv ==
  /\ pc \in {"read", "apply", "store", "sweep", "sweepwrite"} => Agree
  /\ pc \in {"apply", "store"} => Sends(el)
  /\ pc \in {"connect", "eval"} => el.name = "CONNECTION"
  /\ pc \in {"claim", "write", "connect", "eval"} =>
       IF el.name = "CONNECTION" /\ el.dev \in Wanted THEN Stored ELSE Agree

\* Nobody is about to set Acquiring because presets are pending.
NoneRefused == HoldConnect \/ \A n \in Nudgers : nudge[n].pc # "refused"

\* An ordinary driver's elements.
LEMMA OrdinaryElement ==
  ASSUME Ordinary, NEW e \in Elements
  PROVE  /\ e.dev \in Devices
         /\ e.name = "CONNECTION" =>
              \/ e.kind \in {"def", "set"} /\ e.on \in {"on", "off"} /\ e.state \in {"ok", "busy", "alert"}
              \/ e.kind = "del" /\ e.on = "none" /\ e.state = "ok"
         /\ e.name # "CONNECTION" => e.kind \in {"def", "del"} /\ e.name # "*"
BY SupervisorAssumption DEF Ordinary, Elements, El, Props

\* Storing an element.
LEMMA ApplyAgree ==
  ASSUME Ordinary, TypedInv, SafetyInv, AgreeInv, Apply PROVE AgreeInv'
<1>1. /\ el \in Elements /\ ApplyStore(el) /\ UNCHANGED phase /\ pc = "store"
      /\ \/ pc' \in {"claim", "eval"} /\ UNCHANGED el /\ (pc' = "eval" => el.name = "CONNECTION")
         \/ pc' = "read" /\ el.name # "CONNECTION"
  BY DEF TypedInv, ElementInv, Apply, GoOn, NextElement, ReadPcs
<1>2. /\ \A x \in Devices \ {el.dev} : conn'[x] = conn[x]
      /\ el.dev \in Devices /\ Wanted \subseteq Devices
  BY <1>1, OrdinaryElement, SupervisorAssumption DEF ApplyStore, TypedInv, TypeOK
<1>3. conn[el.dev] \in ConnVals
  BY <1>2 DEF TypedInv, TypeOK
<1>4. CASE el.name = "CONNECTION" /\ el.dev \in Wanted
  <2>1. el.kind = "set" => HasConn(conn[el.dev])
    BY <1>1 DEF AgreeInv, Sends, Ordinary
  <2>2. Stored'
    BY <1>1, <1>2, <1>3, <1>4, <2>1, OrdinaryElement
    DEF ApplyStore, ConnValue, HasConn, ConnVals, Stored, TypedInv, TypeOK
  <2> QED BY <1>1, <1>4, <2>2 DEF AgreeInv
<1>5. CASE ~(el.name = "CONNECTION" /\ el.dev \in Wanted)
  <2>1. Agree
    BY <1>1 DEF AgreeInv
  <2>2. ASSUME NEW d \in Wanted
        PROVE  conn'[d] = conn[d] \/ (conn[d] = "gone" /\ conn'[d] = "none")
    <3>1. CASE d # el.dev
      BY <1>2, <3>1
    <3>2. CASE d = el.dev
      BY <1>1, <1>2, <1>3, <1>5, <3>2, OrdinaryElement, SupervisorAssumption
      DEF ApplyStore, TypedInv, TypeOK
    <3> QED BY <3>1, <3>2
  <2>3. Agree'
    BY <1>1, <2>1, <2>2 DEF Agree
  <2> QED BY <1>1, <1>5, <2>3 DEF AgreeInv
<1> QED BY <1>4, <1>5

\* evalConnection brings the phase up to date.
LEMMA EvalAgree ==
  ASSUME Ordinary, TypedInv, SafetyInv, AgreeInv, EvalConnection PROVE AgreeInv'
<1>1. el \in Elements /\ pc = "eval" /\ pc' \in {"sweep", "read"} /\ UNCHANGED conn
  BY DEF TypedInv, ElementInv, EvalConnection, NextElement, ReadPcs, snapVars
<1>2. CASE el.name = "CONNECTION" /\ el.dev \in Wanted
  <2>1. Stored /\ phase' = EvalPhase(el) /\ \A d \in Wanted : d = el.dev
    BY <1>1, <1>2 DEF AgreeInv, EvalConnection, NextElement, Ordinary
  <2>2. Agree'
    BY <1>1, <1>2, <2>1, OrdinaryElement DEF Agree, Stored, EvalPhase
  <2> QED BY <1>1, <2>2 DEF AgreeInv
<1>3. CASE ~(el.name = "CONNECTION" /\ el.dev \in Wanted)
  BY <1>1, <1>3 DEF AgreeInv, Agree, EvalConnection, NextElement
<1> QED BY <1>2, <1>3

\* Without before-connect presets sendConnect refuses no nudge.
LEMMA RefusedStep ==
  ASSUME Ordinary, TypedInv, NoneRefused, [Next]_vars PROVE NoneRefused'
<1> USE DEF NoneRefused, TypedInv, TypeOK
<1>1. CASE Environment \/ DisconnectQuietly \/ Shutdown \/ UNCHANGED vars
  BY <1>1 DEF Environment, Receive, Malformed, ReadFails, Cancel, CommandContextKill, DriverExits,
              DisconnectQuietly, Shutdown, vars
<1>2. CASE GetProperties
  BY <1>2 DEF GetProperties
<1>3. CASE Teardown
  BY <1>3 DEF Teardown
<1>4. CASE RunStep /\ ~GetProperties /\ ~Teardown
  BY <1>4 DEF RunStep, Spawn, LoopExit, DialFail, DialOk, Acquire, GetPropertiesFails, Observe, Apply, GoOn,
              ClaimPresets, WriteClaimed, ConnectOnDef, EvalConnection, SweepPresets, NextElement,
              Eof, ReadFails, Lost, LostPhase, AnnounceGone, Detach, Term, GraceExpires, Reap,
              CloseChild, Invalidate, AfterAttempt, BackoffEnds, Stopping
<1>5. ASSUME NEW n \in Nudgers, Nudge(n) PROVE NoneRefused'
  BY <1>5 DEF Nudge, NudgeTick, NudgeExit, NudgePhase, NudgeSnapshot, NudgeRefused,
              NudgeWaits, NudgeAllowed, NudgeWrite, NudgeDrop, NudgeTargets, BeforeDone, Ordinary
<1> QED BY <1>1, <1>2, <1>3, <1>4, <1>5 DEF Next

\* Every other step leaves the phase and the snapshot alone while an attempt reads.
LEMMA AgreeStep ==
  ASSUME Ordinary, TypedInv, SafetyInv, AgreeInv, NoneRefused, [Next]_vars PROVE AgreeInv'
<1> USE DEF AgreeInv, Agree, Stored
<1>1. CASE GetProperties
  <2>1. phase # "serving" /\ Known = {} /\ UNCHANGED <<phase, conn>> /\ pc' = "read"
    BY <1>1 DEF GetProperties, SafetyInv, PhaseInv, DataInv, FreshPcs, snapVars
  <2> QED BY <2>1, SupervisorAssumption DEF Known
<1>2. CASE Apply
  BY <1>2, ApplyAgree
<1>3. CASE EvalConnection
  BY <1>3, EvalAgree
<1>4. CASE Receive
  BY <1>4 DEF Receive, Sends, HasConn, snapVars
<1>5. CASE Observe \/ ClaimPresets \/ WriteClaimed \/ SweepPresets
  BY <1>5 DEF Observe, ClaimPresets, GoOn, WriteClaimed, SweepPresets, NextElement, snapVars, Sends
<1>6. CASE ConnectOnDef
  <2>1. UNCHANGED phase
    BY <1>6 DEF ConnectOnDef, SendConnect, BeforeDone, Ordinary
  <2> QED BY <1>6, <2>1 DEF ConnectOnDef, snapVars
<1>7. CASE Spawn \/ LoopExit \/ DialFail \/ DialOk \/ Acquire \/ GetPropertiesFails
  BY <1>7 DEF Spawn, LoopExit, DialFail, DialOk, Acquire, GetPropertiesFails
<1>8. CASE Eof \/ Malformed \/ Lost \/ LostPhase \/ Teardown \/ Detach \/ Term \/ Reap
  BY <1>8 DEF Eof, Malformed, ReadFails, Lost, LostPhase, Teardown, Detach, Term, Reap
<1>9. CASE CloseChild \/ Invalidate \/ AnnounceGone \/ AfterAttempt \/ BackoffEnds \/ Stopping
  BY <1>9 DEF CloseChild, Invalidate, AnnounceGone, AfterAttempt, BackoffEnds, Stopping
<1>10. CASE GraceExpires \/ Cancel \/ DisconnectQuietly \/ Shutdown \/ CommandContextKill \/ DriverExits
  <2>1. UNCHANGED <<pc, el, phase, conn>>
    BY <1>10 DEF GraceExpires, Cancel, DisconnectQuietly, Shutdown, CommandContextKill,
                 DriverExits, runVars, snapVars
  <2> QED BY <2>1 DEF Sends
<1>11. ASSUME NEW n \in Nudgers, Nudge(n) PROVE AgreeInv'
  <2>1. UNCHANGED <<pc, el, phase, conn>>
    BY <1>11 DEF Nudge, NudgeTick, NudgeExit, NudgePhase, NudgeSnapshot, NudgeRefused, NudgeWaits, NudgeAllowed,
                 NudgeWrite, NudgeMoves, runVars, snapVars, NoneRefused
  <2> QED BY <2>1 DEF Sends
<1>12. CASE UNCHANGED vars
  BY <1>12 DEF vars, Sends
<1> QED BY <1>1, <1>2, <1>3, <1>4, <1>5, <1>6, <1>7, <1>8, <1>9, <1>10, <1>11, <1>12
        DEF Next, RunStep, Environment

\* evalConnection: with an ordinary driver, whenever the read loop waits for the
\* next element Serving means that the wanted device is connected, and a
\* connected one is being served, through every define, set, delete and restart.
THEOREM PhaseCorrect ==
  ASSUME Ordinary PROVE Spec => []PhaseFollowsConnection
<1>1. Init => AgreeInv /\ NoneRefused
  BY DEF Init, AgreeInv, NoneRefused, IdleNudge
<1>2. ASSUME TypedInv, SafetyInv, AgreeInv, NoneRefused, [Next]_vars
      PROVE  AgreeInv' /\ NoneRefused'
  BY <1>2, AgreeStep, RefusedStep
<1>3. AgreeInv => PhaseFollowsConnection
  BY DEF AgreeInv, Agree, PhaseFollowsConnection
<1> QED BY SafetyCorrect, <1>1, <1>2, <1>3, PTL DEF Spec

=============================================================================
