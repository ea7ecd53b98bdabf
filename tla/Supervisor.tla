----------------------------- MODULE Supervisor -----------------------------
(***************************************************************************)
(* The supervisor of one INDI driver process (internal/supervisor).         *)
(*                                                                          *)
(* Three kinds of goroutine share the supervisor's state:                   *)
(*   - Run (one): spawns the child, applies its elements, tears it down,    *)
(*     backs off and starts over.  Its program counter is pc.               *)
(*   - the nudge (one per attempt): every ConnectRetry it re-sends CONNECT  *)
(*     while the phase is Acquiring.  An attempt closes nudgeDone but never *)
(*     waits for the goroutine, so one that is half-way through connectAll  *)
(*     survives into the next attempt; hence several slots, Nudgers.        *)
(*   - the canceller: on cancellation it writes DISCONNECT, lets it drain   *)
(*     and shuts the socket down so that the reader wakes.                  *)
(* The driver is the environment: it may send any element, in any order,    *)
(* at any time, and may exit at any time.  One action is one access to      *)
(* state another goroutine can see.  Messages, labels and values are left   *)
(* out; a preset is its property and its stage.                             *)
(***************************************************************************)
EXTENDS Naturals, FiniteSets

CONSTANTS
  Devices,      \* INDI devices the child may define
  Wanted,       \* the devices wantDevice accepts
  Before,       \* properties with a before-connect preset
  After,        \* properties with an after-connect preset
  HoldConnect,  \* Config.HoldConnect
  Nudgers,      \* slots for nudge goroutines alive at the same time
  Quirks        \* what this driver may do, see Elements, WritePresets and Receive

ASSUME SupervisorAssumption ==
  /\ Wanted \subseteq Devices
  /\ HoldConnect \in BOOLEAN
  /\ Quirks \subseteq {"partial", "deldevice", "early", "misfit", "backlog"}
  /\ "CONNECTION" \notin Before \cup After
  /\ "*" \notin Before \cup After

Props   == Before \cup After
Presets == (Before \X {"before"}) \cup (After \X {"after"})

Phases  == {"idle", "spawning", "acquiring", "serving", "retrying", "stopped"}
RunPcs  == {"loop", "dial", "acquire", "getprops", "read", "apply", "store",
            "claim", "write", "connect", "eval", "sweep", "sweepwrite",
            "lost", "lostphase", "lostgone", "teardown", "detach", "term", "reap",
            "close", "invalidate", "announce", "after", "backoff", "stopping", "done"}

\* The CONNECTION vector of a device as the snapshot holds it: the device is
\* unknown, known without CONNECTION, or its CONNECT member is Off, On with
\* state Ok or Idle, On with state Busy or Alert.
ConnVals == {"gone", "none", "off", "on", "onbad"}

El(k, d, n, o, s) == [kind |-> k, dev |-> d, name |-> n, on |-> o, state |-> s]

\* What the parser may deliver.  "ok" stands for Ok and Idle; on = "none" is an
\* element that does not carry the CONNECT member.  A "partial" driver sends
\* CONNECTION elements without it (a set of the other members or of the state
\* only, a getProperties that names CONNECTION); a "deldevice" driver deletes
\* a whole device; an "early" one sets CONNECTION before it defines it.
Elements ==
  {El(k, d, "CONNECTION", o, s) :
     k \in {"def", "set"}, d \in Devices, o \in {"on", "off"},
     s \in {"ok", "busy", "alert"}}
  \cup {El("del", d, "CONNECTION", "none", "ok") : d \in Devices}
  \cup {El(k, d, p, "none", "ok") : k \in {"def", "del"}, d \in Devices, p \in Props}
  \cup (IF "partial" \in Quirks
        THEN {El("set", d, "CONNECTION", "none", s) : d \in Devices, s \in {"ok", "busy", "alert"}}
             \cup {El("get", d, "CONNECTION", "none", "ok") : d \in Devices}
        ELSE {})
  \cup (IF "deldevice" \in Quirks
        THEN {El("del", d, "*", "none", "ok") : d \in Devices}
        ELSE {})

NoEl == [kind |-> "nil"]

VARIABLES
  \* the Run goroutine
  pc,         \* where it is
  el,         \* the element being applied
  todo,       \* presets claimed by applyPresetsFor and not yet written
  gone,       \* devices of a lost child that are still to be announced as gone
  \* shared state
  phase,      \* Supervisor.phase
  valid,      \* Snapshot.valid
  conn,       \* Snapshot: CONNECTION of each device
  props,      \* Snapshot: preset properties defined by each device
  marked,     \* presetSent
  w,          \* Supervisor.w is not nil
  cancelled,  \* ctx is done
  \* the child
  proc,       \* none, running or exited (not yet reaped)
  fdOpen,     \* the parent end of the socketpair is open
  shut,       \* ... and shut down
  asked,      \* connection command written to it and not yet answered
  written,    \* how often each preset was written to it (capped at 2)
  unfit,      \* presets that its vectors did not take
  up,         \* it has reported a wanted device connected
  \* others
  seen,       \* devices the element observer believes to exist
  nudge,      \* the nudge goroutines
  canceller   \* the cancellation goroutine of the current attempt

runVars   == <<pc, el, todo, gone>>
snapVars  == <<valid, conn, props>>
childVars == <<proc, fdOpen, shut, asked, written, unfit, up>>
vars == <<pc, el, todo, gone, phase, valid, conn, props, marked, w, cancelled,
          proc, fdOpen, shut, asked, written, unfit, up, seen, nudge, canceller>>

IdleNudge == [pc |-> "none", live |-> FALSE, targets |-> {}]
NudgePcs  == {"none", "wait", "ticked", "snap", "send", "refused", "write"}

TypeOK ==
  /\ pc \in RunPcs
  /\ el \in Elements \cup {NoEl}
  /\ todo \subseteq Presets
  /\ gone \subseteq Devices
  /\ phase \in Phases
  /\ valid \in BOOLEAN
  /\ conn \in [Devices -> ConnVals]
  /\ props \in [Devices -> SUBSET Props]
  /\ marked \subseteq Presets
  /\ w \in BOOLEAN
  /\ cancelled \in BOOLEAN
  /\ proc \in {"none", "running", "exited"}
  /\ fdOpen \in BOOLEAN
  /\ shut \in BOOLEAN
  /\ asked \in [Devices -> {"none", "connect", "disconnect"}]
  /\ written \in [Presets -> 0..2]
  /\ unfit \subseteq Presets
  /\ up \in BOOLEAN
  /\ seen \subseteq Devices
  /\ nudge \in [Nudgers -> [pc : NudgePcs, live : BOOLEAN, targets : SUBSET Wanted]]
  /\ canceller \in {"none", "select", "drain", "sleep", "done"}

Init ==
  /\ pc = "loop" /\ el = NoEl /\ todo = {} /\ gone = {}
  /\ phase = "idle"
  /\ valid = TRUE
  /\ conn = [d \in Devices |-> "gone"]
  /\ props = [d \in Devices |-> {}]
  /\ marked = {}
  /\ w = FALSE
  /\ cancelled = FALSE
  /\ proc = "none" /\ fdOpen = FALSE /\ shut = FALSE
  /\ asked = [d \in Devices |-> "none"]
  /\ written = [p \in Presets |-> 0]
  /\ unfit = {}
  /\ up = FALSE
  /\ seen = {}
  /\ nudge = [n \in Nudgers |-> IdleNudge]
  /\ canceller = "none"

(***************************************************************************)
(* Snapshot store operations (internal/snapshot).                           *)
(***************************************************************************)
Known == {d \in Devices : conn[d] # "gone"}

\* Invalidate and Reset publish an empty snapshot, invalid and valid.
Publish(v) ==
  /\ valid' = v
  /\ conn' = [d \in Devices |-> "gone"]
  /\ props' = [d \in Devices |-> {}]

\* The stored value of CONNECTION after an element e for a vector that holds c:
\* a member the element does not name keeps its value, the state is replaced.
ConnValue(c, e) ==
  LET isOn == IF e.on = "none" THEN c \in {"on", "onbad"} ELSE e.on = "on"
  IN IF ~isOn THEN "off" ELSE IF e.state = "ok" THEN "on" ELSE "onbad"

HasConn(c) == c \in {"off", "on", "onbad"}

\* applyDef, applySet and applyDel.  A set or del of a vector that was never
\* defined is ignored; the last property's deletion keeps the device.
ApplyStore(e) ==
  LET c == conn[e.dev] IN
  /\ conn' = [conn EXCEPT ![e.dev] =
       CASE e.kind = "def" /\ e.name = "CONNECTION" -> ConnValue(c, e)
         [] e.kind = "def" /\ e.name # "CONNECTION" -> IF c = "gone" THEN "none" ELSE c
         [] e.kind = "set" -> IF HasConn(c) THEN ConnValue(c, e) ELSE c
         [] e.kind = "del" /\ e.name = "CONNECTION" -> IF HasConn(c) THEN "none" ELSE c
         [] e.kind = "del" /\ e.name = "*" -> "gone"
         [] OTHER -> c]
  /\ props' = [props EXCEPT ![e.dev] =
       CASE e.kind = "def" /\ e.name \in Props -> @ \cup {e.name}
         [] e.kind = "del" /\ e.name \in Props -> @ \ {e.name}
         [] e.kind = "del" /\ e.name = "*" -> {}
         [] OTHER -> @]
  /\ UNCHANGED valid

(***************************************************************************)
(* Writes to the child.  rawWrite needs Supervisor.w; a write to a child    *)
(* that has exited, or to a socket shut down, fails and is only logged.     *)
(***************************************************************************)
CanWrite == w /\ proc = "running" /\ ~shut

Ask(d, cmd) == asked' = IF CanWrite THEN [asked EXCEPT ![d] = cmd] ELSE asked

\* applyPresetsFor, after the claim of S: what goes into the vector's write.  A
\* Light or BLOB vector takes none of them, and a Number vector none whose value
\* does not parse; a "misfit" driver has such vectors.
WritePresets(S) ==
  IF CanWrite
  THEN \E taken \in IF "misfit" \in Quirks THEN SUBSET S ELSE {S} :
         /\ unfit' = unfit \cup (S \ taken)
         /\ written' = [p \in Presets |-> IF p \in taken /\ written[p] < 2
                                         THEN written[p] + 1 ELSE written[p]]
  ELSE UNCHANGED <<unfit, written>>

BeforeDone == \A p \in Before : <<p, "before">> \in marked

(***************************************************************************)
(* Run: the attempt, up to the read loop.                                   *)
(***************************************************************************)
\* The head of Run's loop and of attempt: Spawning, store.Reset, resetPresets.
Spawn ==
  /\ pc = "loop" /\ ~cancelled
  /\ pc' = "dial"
  /\ phase' = "spawning"
  /\ Publish(TRUE)
  /\ marked' = {}
  /\ UNCHANGED <<el, todo, gone, w, cancelled, childVars, seen, nudge, canceller>>

LoopExit ==
  /\ pc = "loop" /\ cancelled
  /\ pc' = "stopping"
  /\ UNCHANGED <<el, todo, gone, phase, snapVars, marked, w, cancelled, childVars,
                 seen, nudge, canceller>>

DialFail ==
  /\ pc = "dial"
  /\ pc' = "after"
  /\ phase' = "retrying"
  /\ UNCHANGED <<el, todo, gone, snapVars, marked, w, cancelled, childVars,
                 seen, nudge, canceller>>

\* DialExec succeeded; child and writer are published to the senders.
DialOk ==
  /\ pc = "dial" /\ ~cancelled
  /\ pc' = "acquire"
  /\ proc' = "running"
  /\ fdOpen' = TRUE
  /\ w' = TRUE
  /\ UNCHANGED <<el, todo, gone, phase, snapVars, marked, cancelled, shut, asked,
                 written, unfit, up, seen, nudge, canceller>>

Acquire ==
  /\ pc = "acquire"
  /\ pc' = "getprops"
  /\ phase' = "acquiring"
  /\ UNCHANGED <<el, todo, gone, snapVars, marked, w, cancelled, childVars,
                 seen, nudge, canceller>>

GetPropertiesFails ==
  /\ pc = "getprops" /\ proc = "exited"
  /\ pc' = "detach"
  /\ phase' = "retrying"
  /\ UNCHANGED <<el, todo, gone, snapVars, marked, w, cancelled, childVars,
                 seen, nudge, canceller>>

\* getProperties is written and the attempt's two goroutines start.  The
\* canceller is taken to be parked in its select from here on.
GetProperties ==
  /\ pc = "getprops" /\ proc = "running"
  /\ \E n \in Nudgers :
       /\ nudge[n].pc = "none"
       /\ nudge' = [nudge EXCEPT ![n] = [pc |-> "wait", live |-> TRUE, targets |-> {}]]
  /\ pc' = "read"
  /\ canceller' = IF cancelled THEN "drain" ELSE "select"
  /\ UNCHANGED <<el, todo, gone, phase, snapVars, marked, w, cancelled, childVars, seen>>

(***************************************************************************)
(* Run: the read loop and apply.                                            *)
(***************************************************************************)
Sends(e) == e.kind = "set" => HasConn(conn[e.dev]) \/ "early" \in Quirks

\* What a "backlog" driver wrote before it exited, or before the socket was shut
\* down, may still be read afterwards.
Receive ==
  /\ pc = "read"
  /\ (proc = "running" /\ ~shut) \/ "backlog" \in Quirks
  /\ \E e \in Elements :
       /\ Sends(e)
       /\ el' = e
       /\ asked' = IF e.kind \in {"def", "set"} /\ e.name = "CONNECTION"
                   THEN [asked EXCEPT ![e.dev] = "none"] ELSE asked
  /\ pc' = "apply"
  /\ UNCHANGED <<todo, gone, phase, snapVars, marked, w, cancelled, proc,
                 fdOpen, shut, written, unfit, up, seen, nudge, canceller>>

\* Back in readLoop.  Whether the attempt ever served decides only how long the
\* backoff is, and delays are left out.
NextElement == pc' = "read" /\ el' = NoEl

\* apply goes on to CONNECT or to evalConnection with elements of CONNECTION only.
GoOn(place) == IF el.name = "CONNECTION" THEN pc' = place /\ UNCHANGED el ELSE NextElement

\* The observer sees the element ...
Observe ==
  /\ pc = "apply"
  /\ seen' = CASE el.kind = "def" -> seen \cup {el.dev}
               [] el.kind = "del" /\ el.name = "*" -> seen \ {el.dev}
               [] OTHER -> seen
  /\ pc' = "store"
  /\ UNCHANGED <<el, todo, gone, phase, snapVars, marked, w, cancelled, childVars,
                 nudge, canceller>>

\* ... and then the store applies it.
Apply ==
  /\ pc = "store"
  /\ ApplyStore(el)
  /\ IF el.kind = "def" THEN pc' = "claim" /\ UNCHANGED el ELSE GoOn("eval")
  /\ UNCHANGED <<todo, gone, phase, marked, w, cancelled, childVars, seen,
                 nudge, canceller>>

\* Mutant of Due: the one-shot mark is not consulted.
DueForgetsSent(prop, serving) ==
  {p \in Presets : p[1] = prop /\ (p[2] = "before" \/ serving)}

\* applyPresetsFor under the lock: claim every due preset of prop.
Due(prop, serving) ==
  {p \in Presets \ marked : p[1] = prop /\ (p[2] = "before" \/ serving)}

\* applyPresetDefs, first half: the claim, made before anything is written.
ClaimPresets ==
  /\ pc = "claim"
  /\ LET due == IF el.dev \in Wanted THEN Due(el.name, phase = "serving") ELSE {}
     IN /\ marked' = marked \cup due
        /\ todo' = due
        /\ IF due = {} THEN GoOn("connect") ELSE pc' = "write" /\ UNCHANGED el
  /\ UNCHANGED <<gone, phase, snapVars, w, cancelled, childVars, seen, nudge, canceller>>

\* applyPresetsFor, second half: the lock is taken again for the write.
WriteClaimed ==
  /\ pc \in {"write", "sweepwrite"}
  /\ WritePresets(todo)
  /\ todo' = {}
  /\ IF pc = "write" THEN GoOn("connect") ELSE pc' = "sweep" /\ UNCHANGED el
  /\ UNCHANGED <<gone, phase, snapVars, marked, w, cancelled, proc, fdOpen,
                 shut, asked, up, seen, nudge, canceller>>

\* Mutant of SendConnect: before-connect presets are not waited for.
SendConnectEagerly(d) ==
  /\ IF HoldConnect THEN UNCHANGED asked ELSE Ask(d, "connect")
  /\ UNCHANGED phase

\* sendConnect, as the read loop calls it.
SendConnect(d) ==
  /\ phase' = IF HoldConnect \/ BeforeDone THEN phase ELSE "acquiring"
  /\ IF ~HoldConnect /\ BeforeDone THEN Ask(d, "connect") ELSE UNCHANGED asked

\* Mutant of ConnectOnDef: wantDevice is not asked.
ConnectAnyDevice ==
  /\ pc = "connect"
  /\ SendConnect(el.dev)
  /\ pc' = "eval"
  /\ UNCHANGED <<el, todo, gone, snapVars, marked, w, cancelled, proc, fdOpen,
                 shut, written, unfit, up, seen, nudge, canceller>>

ConnectOnDef ==
  /\ pc = "connect"
  /\ IF el.dev \in Wanted
     THEN SendConnect(el.dev)
     ELSE UNCHANGED <<phase, asked>>
  /\ pc' = "eval"
  /\ UNCHANGED <<el, todo, gone, snapVars, marked, w, cancelled, proc, fdOpen,
                 shut, written, unfit, up, seen, nudge, canceller>>

\* Mutant of EvalPhase: a disconnect is noticed only through an Alert.
EvalPhaseIgnoresOff(e) ==
  CASE e.on = "on" /\ e.state = "ok" -> "serving"
    [] e.state = "alert" -> "acquiring"
    [] OTHER -> phase

\* evalConnection looks at the element alone, whatever its kind.
EvalPhase(e) ==
  CASE e.on = "on" /\ e.state = "ok" -> "serving"
    [] ~(e.on = "on" /\ e.state = "ok") /\ e.state = "alert" -> "acquiring"
    [] e.on # "on" /\ e.state # "alert" /\ phase = "serving" -> "acquiring"
    [] OTHER -> phase

EvalConnection ==
  /\ pc = "eval"
  /\ IF el.dev \in Wanted
     THEN /\ phase' = EvalPhase(el)
          /\ up' = (up \/ (el.on = "on" /\ el.state = "ok"))
     ELSE UNCHANGED <<phase, up>>
  /\ IF phase' = "serving" /\ phase # "serving"
     THEN pc' = "sweep" /\ UNCHANGED el
     ELSE NextElement
  /\ UNCHANGED <<todo, gone, snapVars, marked, w, cancelled, proc, fdOpen,
                 shut, asked, written, unfit, seen, nudge, canceller>>

\* sweepPresets: properties with an after-connect preset still to be sent which
\* the device has already defined.
SweepPending(d) == {p \in After \cap props[d] : <<p, "after">> \notin marked}

\* onServing: one property after the other, each claimed and then written.
SweepPresets ==
  /\ pc = "sweep"
  /\ \/ /\ SweepPending(el.dev) = {}
        /\ NextElement
        /\ UNCHANGED <<marked, todo>>
     \/ \E p \in SweepPending(el.dev) :
          /\ marked' = marked \cup Due(p, TRUE)
          /\ todo' = Due(p, TRUE)
          /\ pc' = "sweepwrite"
          /\ UNCHANGED el
  /\ UNCHANGED <<gone, phase, snapVars, w, cancelled, childVars, seen, nudge,
                 canceller>>

\* p.Next fails: end of stream, a shut-down socket, or malformed XML.
ReadFails ==
  /\ pc' = IF cancelled THEN "teardown" ELSE "lost"
  /\ UNCHANGED <<el, todo, gone, phase, snapVars, marked, w, cancelled, childVars,
                 seen, nudge, canceller>>

\* Mutant of Eof: an empty read is retried instead of ending the stream.
EofIgnored == pc = "read" /\ shut /\ proc = "running" /\ ReadFails

Eof       == pc = "read" /\ (proc = "exited" \/ shut) /\ ReadFails
Malformed == pc = "read" /\ proc = "running" /\ ~shut /\ ReadFails

\* Mutants of Lost: the device list is taken from the new snapshot; the phase
\* is published before the data is invalidated.
LostTooLate ==
  /\ pc = "lost"
  /\ gone' = {}
  /\ Publish(FALSE)
  /\ pc' = "lostphase"
  /\ UNCHANGED <<el, todo, phase, marked, w, cancelled, childVars, seen, nudge, canceller>>
LostPhaseFirst ==
  /\ pc = "lost"
  /\ gone' = Known
  /\ phase' = "retrying"
  /\ pc' = "lostphase"
  /\ UNCHANGED <<el, todo, snapVars, marked, w, cancelled, childVars, seen, nudge, canceller>>

\* "Invalidate data before publishing the unavailable phase."
Lost ==
  /\ pc = "lost"
  /\ gone' = Known
  /\ Publish(FALSE)
  /\ pc' = "lostphase"
  /\ UNCHANGED <<el, todo, phase, marked, w, cancelled, childVars, seen, nudge, canceller>>

\* transition(PhaseRetrying).
LostPhase ==
  /\ pc = "lostphase"
  /\ phase' = "retrying"
  /\ pc' = "lostgone"
  /\ UNCHANGED <<el, todo, gone, snapVars, marked, w, cancelled, childVars, seen,
                 nudge, canceller>>

\* Mutant of AnnounceGone: only readLoop announces, attempt's teardown does not.
AnnounceLostOnly ==
  /\ pc \in {"lostgone", "announce"}
  /\ IF gone = {} \/ pc = "announce"
     THEN /\ pc' = IF pc = "lostgone" THEN "teardown" ELSE "after"
          /\ gone' = {}
          /\ UNCHANGED seen
     ELSE /\ \E d \in gone : gone' = gone \ {d} /\ seen' = seen \ {d}
          /\ UNCHANGED pc
  /\ UNCHANGED <<el, todo, phase, snapVars, marked, w, cancelled, childVars, nudge,
                 canceller>>

\* announceGone, as readLoop and the teardown call it: a deletion per device.
AnnounceGone ==
  /\ pc \in {"lostgone", "announce"}
  /\ IF gone = {}
     THEN /\ pc' = IF pc = "lostgone" THEN "teardown" ELSE "after"
          /\ UNCHANGED <<gone, seen>>
     ELSE /\ \E d \in gone : gone' = gone \ {d} /\ seen' = seen \ {d}
          /\ UNCHANGED pc
  /\ UNCHANGED <<el, todo, phase, snapVars, marked, w, cancelled, childVars, nudge,
                 canceller>>

(***************************************************************************)
(* Run: attempt's deferred calls, then Run's own tail.                      *)
(***************************************************************************)
\* close(nudgeDone): a goroutine parked in its select takes that case; one in
\* the middle of connectAll notices only when it is back.
Teardown ==
  /\ pc = "teardown"
  /\ nudge' = [n \in Nudgers |-> [nudge[n] EXCEPT !.live = FALSE]]
  /\ canceller' = IF canceller = "select" THEN "none" ELSE canceller
  /\ pc' = "detach"
  /\ UNCHANGED <<el, todo, gone, phase, snapVars, marked, w, cancelled, childVars, seen>>

\* Mutant of Detach: the writer is left for the senders.
DetachKeepsWriter ==
  /\ pc = "detach"
  /\ pc' = "term"
  /\ UNCHANGED <<el, todo, gone, phase, snapVars, marked, w, cancelled, childVars,
                 seen, nudge, canceller>>

Detach ==
  /\ pc = "detach"
  /\ w' = FALSE
  /\ pc' = "term"
  /\ UNCHANGED <<el, todo, gone, phase, snapVars, marked, cancelled, childVars,
                 seen, nudge, canceller>>

\* child.Signal(SIGTERM).  A driver that obeys takes DriverExits.
Term ==
  /\ pc = "term"
  /\ pc' = "reap"
  /\ UNCHANGED <<el, todo, gone, phase, snapVars, marked, w, cancelled, proc, fdOpen,
                 shut, asked, written, unfit, up, seen, nudge, canceller>>

\* KillGrace has passed and the child has not exited: SIGKILL.
GraceExpires ==
  /\ pc = "reap" /\ proc = "running"
  /\ proc' = "exited"
  /\ UNCHANGED <<runVars, phase, snapVars, marked, w, cancelled, fdOpen, shut, asked, written, unfit,
                 up, seen, nudge, canceller>>

Reap ==
  /\ pc = "reap" /\ proc = "exited"
  /\ pc' = "close"
  /\ UNCHANGED <<el, todo, gone, phase, snapVars, marked, w, cancelled, childVars,
                 seen, nudge, canceller>>

\* The process and its stream are gone, and with them what was written to it.
NoChild ==
  /\ proc' = "none" /\ fdOpen' = FALSE /\ shut' = FALSE
  /\ asked' = [d \in Devices |-> "none"]
  /\ written' = [p \in Presets |-> 0]
  /\ unfit' = {}
  /\ up' = FALSE

CloseChild ==
  /\ pc = "close"
  /\ NoChild
  /\ pc' = "invalidate"
  /\ UNCHANGED <<el, todo, gone, phase, snapVars, marked, w, cancelled, seen, nudge,
                 canceller>>

\* The teardown's store.Invalidate; failAll, which follows it, is in module Waiters.
Invalidate ==
  /\ pc = "invalidate"
  /\ gone' = Known
  /\ Publish(FALSE)
  /\ pc' = "announce"
  /\ UNCHANGED <<el, todo, phase, marked, w, cancelled, childVars, seen, nudge, canceller>>

\* Run, after attempt: leave the loop when cancelled, else back off.
AfterAttempt ==
  /\ pc = "after"
  /\ \/ cancelled /\ pc' = "stopping" /\ UNCHANGED phase
     \/ ~cancelled /\ pc' = "backoff" /\ phase' = "retrying"
  /\ el' = NoEl
  /\ UNCHANGED <<todo, gone, snapVars, marked, w, cancelled, childVars, seen, nudge, canceller>>

BackoffEnds ==
  /\ pc = "backoff"
  /\ pc' = "loop"
  /\ UNCHANGED <<el, todo, gone, phase, snapVars, marked, w, cancelled, childVars,
                 seen, nudge, canceller>>

Stopping ==
  /\ pc = "stopping"
  /\ phase' = "stopped"
  /\ pc' = "done"
  /\ UNCHANGED <<el, todo, gone, snapVars, marked, w, cancelled, childVars,
                 seen, nudge, canceller>>

(***************************************************************************)
(* The nudge goroutine n.                                                   *)
(***************************************************************************)
NudgeMoves ==
  UNCHANGED <<runVars, snapVars, marked, w, cancelled, proc, fdOpen, shut, written, unfit, up,
              seen, canceller>>

\* The ticker fires; the phase is read after it.
NudgeTick(n) ==
  /\ nudge[n].pc = "wait" /\ nudge[n].live
  /\ nudge' = [nudge EXCEPT ![n].pc = "ticked"]
  /\ NudgeMoves /\ UNCHANGED <<phase, asked>>

NudgeExit(n) ==
  /\ nudge[n].pc = "wait" /\ ~nudge[n].live
  /\ nudge' = [nudge EXCEPT ![n].pc = "none"]
  /\ NudgeMoves /\ UNCHANGED <<phase, asked>>

\* Mutant of NudgePhase: the goroutine returns when there is nothing to do.
NudgeGivesUp(n) ==
  /\ nudge[n].pc = "ticked"
  /\ nudge' = [nudge EXCEPT ![n].pc = IF phase = "acquiring" THEN "snap" ELSE "none"]
  /\ NudgeMoves /\ UNCHANGED <<phase, asked>>

NudgePhase(n) ==
  /\ nudge[n].pc = "ticked"
  /\ nudge' = [nudge EXCEPT ![n].pc = IF phase = "acquiring" THEN "snap" ELSE "wait"]
  /\ NudgeMoves /\ UNCHANGED <<phase, asked>>

\* The goroutine goes on with the devices T.
NudgeTargets(n, T) ==
  nudge' = [nudge EXCEPT ![n] = [pc |-> IF T = {} THEN "wait" ELSE "send",
                                 live |-> nudge[n].live, targets |-> T]]

\* connectAll: the wanted devices whose CONNECT is Off in the current snapshot.
NudgeSnapshot(n) ==
  /\ nudge[n].pc = "snap"
  /\ NudgeTargets(n, {d \in Wanted : conn[d] = "off"})
  /\ NudgeMoves /\ UNCHANGED <<phase, asked>>

\* The goroutine is finished with device d.
NudgeDrop(n, d) == NudgeTargets(n, nudge[n].targets \ {d})

\* sendConnect: refused if held or while presets are pending ...
NudgeRefused(n) ==
  /\ nudge[n].pc = "send"
  /\ ~HoldConnect => ~BeforeDone
  /\ nudge' = [nudge EXCEPT ![n].pc = "refused"]
  /\ NudgeMoves /\ UNCHANGED <<phase, asked>>

\* ... which unless held sets the phase, whatever it is by now ...
NudgeWaits(n) ==
  /\ nudge[n].pc = "refused"
  /\ \E d \in nudge[n].targets : NudgeDrop(n, d)
  /\ phase' = IF HoldConnect THEN phase ELSE "acquiring"
  /\ NudgeMoves /\ UNCHANGED asked

\* ... or allowed.
NudgeAllowed(n) ==
  /\ nudge[n].pc = "send"
  /\ ~HoldConnect /\ BeforeDone
  /\ nudge' = [nudge EXCEPT ![n].pc = "write"]
  /\ NudgeMoves /\ UNCHANGED <<phase, asked>>

\* sendConnect's write goes to whichever child is attached by now.
NudgeWrite(n) ==
  /\ nudge[n].pc = "write"
  /\ \E d \in nudge[n].targets : NudgeDrop(n, d) /\ Ask(d, "connect")
  /\ NudgeMoves /\ UNCHANGED phase

Nudge(n) ==
  \/ NudgeTick(n) \/ NudgeExit(n) \/ NudgePhase(n) \/ NudgeSnapshot(n)
  \/ NudgeRefused(n) \/ NudgeWaits(n) \/ NudgeAllowed(n) \/ NudgeWrite(n)

(***************************************************************************)
(* Cancellation, and the driver process.                                    *)
(***************************************************************************)
Cancel ==
  /\ ~cancelled
  /\ cancelled' = TRUE
  /\ canceller' = IF canceller = "select" THEN "drain" ELSE canceller
  /\ UNCHANGED <<runVars, phase, snapVars, marked, w, childVars, seen, nudge>>

\* disconnectQuietly, before its 100 ms sleep.
DisconnectQuietly ==
  /\ canceller = "drain"
  /\ asked' = IF CanWrite
              THEN [d \in Devices |-> IF conn[d] \in {"on", "onbad"} THEN "disconnect" ELSE asked[d]]
              ELSE asked
  /\ canceller' = "sleep"
  /\ UNCHANGED <<runVars, phase, snapVars, marked, w, cancelled, proc, fdOpen, shut,
                 written, unfit, up, seen, nudge>>

\* Mutant of Shutdown: the blocked reader is not woken.
ShutdownForgotten ==
  /\ canceller = "sleep"
  /\ canceller' = "done"
  /\ UNCHANGED <<runVars, phase, snapVars, marked, w, cancelled, proc, fdOpen, shut, asked,
                 written, unfit, up, seen, nudge>>

\* Conn.Shutdown, a no-op on a closed Conn.
Shutdown ==
  /\ canceller = "sleep"
  /\ shut' = (shut \/ fdOpen)
  /\ canceller' = "done"
  /\ UNCHANGED <<runVars, phase, snapVars, marked, w, cancelled, proc, fdOpen, asked,
                 written, unfit, up, seen, nudge>>

\* exec.CommandContext(cctx): os/exec kills the process once cctx is done.
CommandContextKill ==
  /\ cancelled /\ proc = "running"
  /\ proc' = "exited"
  /\ UNCHANGED <<runVars, phase, snapVars, marked, w, cancelled, fdOpen, shut, asked, written, unfit,
                 up, seen, nudge, canceller>>

DriverExits ==
  /\ proc = "running"
  /\ proc' = "exited"
  /\ UNCHANGED <<runVars, phase, snapVars, marked, w, cancelled, fdOpen, shut, asked,
                 written, unfit, up, seen, nudge, canceller>>

-----------------------------------------------------------------------------
\* Run's steps other than waiting for the driver.
RunStep ==
  \/ Spawn \/ LoopExit \/ DialFail \/ DialOk \/ Acquire
  \/ GetPropertiesFails \/ GetProperties
  \/ Observe \/ Apply \/ ClaimPresets \/ WriteClaimed \/ ConnectOnDef \/ EvalConnection
  \/ SweepPresets \/ Eof \/ Lost \/ LostPhase \/ AnnounceGone
  \/ Teardown \/ Detach \/ Term \/ GraceExpires \/ Reap \/ CloseChild
  \/ Invalidate \/ AfterAttempt \/ BackoffEnds \/ Stopping

Environment == Receive \/ Malformed \/ Cancel \/ CommandContextKill \/ DriverExits

Next ==
  \/ RunStep
  \/ Environment
  \/ DisconnectQuietly \/ Shutdown
  \/ \E n \in Nudgers : Nudge(n)

Spec == Init /\ [][Next]_vars

\* The Go scheduler runs every goroutine; timers (ticker, backoff, grace, the
\* 100 ms drain) fire.  Nothing is assumed of the driver.
Fairness ==
  /\ WF_vars(RunStep)
  /\ WF_vars(DisconnectQuietly \/ Shutdown)
  /\ \A n \in Nudgers : WF_vars(Nudge(n))

FairSpec == Spec /\ Fairness

-----------------------------------------------------------------------------
(***************************************************************************)
(* Properties.                                                              *)
(***************************************************************************)
\* Senders (nudge, canceller, clients) write through Supervisor.w whenever it
\* is set, without knowing where Run is.  It is therefore set only while the
\* descriptor is open and the child is not reaped: attempt clears it under the
\* lock before Wait and Close release the pid and the descriptor number.
WriterHasChild == w => fdOpen /\ proc # "none"

\* Run is in readLoop.
ReadPcs == {"read", "apply", "store", "claim", "write", "connect", "eval", "sweep",
            "sweepwrite"}

\* Run is between two children (or has returned).
BetweenChildren == pc \in {"after", "backoff", "loop", "dial", "stopping", "done"}

\* announceGone: once an attempt is over the element observer has been told
\* that every device of the dead child is gone, on every way out of attempt.
ObserverForgetsChild == BetweenChildren => seen = {}

\* apply, readLoop and the teardown tell the observer and change the snapshot in
\* different steps and in different orders.  A device in the snapshot was announced,
\* unless its deletion is just being applied; and a device the observer believes
\* in is in the snapshot, unless its definition is just being applied or its
\* deletion is still to be announced.  So no order of loss, teardown and restart
\* leaves clients with a device that no later message will take away.
ObserverAgrees ==
  /\ \A d \in Known \ seen : pc = "store" /\ el.dev = d /\ el.kind = "del"
  /\ \A d \in seen \ Known : \/ pc = "store" /\ el.dev = d /\ el.kind = "def"
                             \/ pc \in {"lostphase", "lostgone", "announce"} /\ d \in gone

\* readLoop invalidates the data before it publishes the phase: nobody who sees
\* Retrying or Stopped can still find the dead child's devices.
DownHasNoData == phase \in {"retrying", "stopped"} => Known = {}

\* applyPresetsFor: a preset goes to a child at most once, although the
\* definition and the sweep both try.
PresetOncePerChild == \A p \in Presets : written[p] <= 1

\* After-connect presets reach a child only after it reported a connection.
AfterPresetsWaitForServing ==
  \A p \in After : written[<<p, "after">>] > 0 => up

AllBeforeWritten == \A p \in Before : written[<<p, "before">>] > 0

\* sendConnect on the read loop: CONNECT follows every before-connect preset on
\* the wire of the same child, except those that its vectors do not take.  These
\* are marked sent like the others, and nothing is written for them.
ReaderConnectsAfterPresets ==
  [][pc = "connect" /\ pc' # pc /\ asked' # asked =>
       \A p \in Before : written[<<p, "before">>] > 0 \/ <<p, "before">> \in unfit]_vars

\* Config.Device: a device of the child that is not the one of interest is
\* never told to connect, neither by the read loop nor by a nudge, whatever
\* devices come and go between connectAll's snapshot and its writes.
UnwantedNeverConnects == \A d \in Devices \ Wanted : asked[d] # "connect"

\* A held child (configuration session, dump -pre) is never told to connect,
\* by any goroutine: "hardware connection held off".
HeldNeverConnects == HoldConnect => \A d \in Devices : asked[d] # "connect"

NoNudgeInFlight == \A n \in Nudgers : nudge[n].pc \in {"none", "wait"}

\* With the read loop waiting and no nudge under way, the phase is what the
\* snapshot's CONNECTION says: On and Ok means Serving, and Serving means On.
PhaseFollowsConnection ==
  pc = "read" /\ NoNudgeInFlight =>
    \A d \in Wanted : /\ (conn[d] = "on" => phase = "serving")
                       /\ (phase = "serving" => conn[d] \in {"on", "onbad"})

\* Shutdown completes: whatever the driver does, a cancelled Run returns.
CancelledStops == cancelled ~> pc = "done"

\* A child that exits is replaced (or Run is cancelled): no way out of the
\* attempt leaves Run waiting.
DeadChildReplaced == proc = "exited" ~> (pc = "dial" \/ cancelled)

\* The nudge: a wanted device that stays Off in a live, acquiring child with
\* its presets applied is sent CONNECT again, however silent the driver is.
SilentDriverIsNudged ==
  \A d \in Wanted :
    (pc = "read" /\ phase = "acquiring" /\ conn[d] = "off" /\ BeforeDone /\ ~HoldConnect)
      ~> (asked[d] = "connect" \/ conn[d] # "off" \/ phase # "acquiring"
          \/ proc # "running" \/ cancelled \/ pc \notin ReadPcs)

(***************************************************************************)
(* The inductive invariant behind the safety properties, in parts.          *)
(***************************************************************************)
WriterPcs == ReadPcs \cup {"acquire", "getprops", "lost", "lostphase", "lostgone", "teardown",
                          "detach"}
ChildPcs  == WriterPcs \cup {"term", "reap", "close"}
FreshPcs  == {"dial", "acquire", "getprops"}

\* Where Run is decides whether a writer, a descriptor and a process exist.
LifeInv ==
  /\ w => pc \in WriterPcs
  /\ pc \in WriterPcs => w
  /\ pc \in ChildPcs => fdOpen /\ proc # "none"

ElementInv == pc \in ReadPcs \ {"read"} => el \in Elements

\* Only Run leaves Acquiring and Serving; nudges can only set Acquiring.
PhaseInv ==
  /\ pc \in ReadPcs \cup {"getprops"} => phase \in {"acquiring", "serving"}
  /\ pc \in FreshPcs => phase # "serving"

\* What the observer believes once it has seen e.
Told(e) == CASE e.kind = "def" -> Known \cup {e.dev}
             [] e.kind = "del" /\ e.name = "*" -> Known \ {e.dev}
             [] OTHER -> Known

\* The snapshot is empty outside an attempt.  The observer is one element ahead of
\* the store in apply, and behind it by what is still to be announced after a loss.
DataInv ==
  /\ pc \notin (ChildPcs \cup {"invalidate"}) => Known = {}
  /\ pc \in {"acquire", "getprops", "lostphase", "lostgone"} => Known = {}
  /\ phase \in {"retrying", "stopped"} => Known = {}
  /\ pc \notin {"lostphase", "lostgone", "announce"} => gone = {}
  /\ seen = IF pc = "store" THEN Told(el) ELSE Known \cup gone

\* Between the claim and the write a preset is marked and not yet written;
\* afterwards it was written once, unless its vector did not take it or the child
\* can no longer be written to.
PresetInv ==
  /\ pc \notin {"write", "sweepwrite"} => todo = {}
  /\ todo \subseteq marked
  /\ pc \in FreshPcs => marked = {}
  /\ pc \notin ChildPcs \/ pc \in FreshPcs => \A p \in Presets : written[p] = 0
  /\ \A p \in Presets : written[p] > 0 => p \in marked \ todo
  /\ \A p \in Presets : written[p] <= 1
  /\ pc \in ReadPcs /\ CanWrite => \A p \in marked \ todo : written[p] > 0 \/ p \in unfit

\* Serving, claiming an after-connect preset and having written one all imply
\* that this child reported a connection.
ServingInv ==
  /\ pc \in ReadPcs /\ phase = "serving" => up
  /\ pc \in {"sweep", "sweepwrite"} => up
  /\ \A p \in After : <<p, "after">> \in todo => up
  /\ \A p \in After : written[<<p, "after">>] > 0 => up

\* A held supervisor has no nudge past the HoldConnect test.
HoldInv ==
  HoldConnect => /\ \A d \in Devices : asked[d] # "connect"
                 /\ \A n \in Nudgers : nudge[n].pc # "write"

SafetyInv ==
  /\ LifeInv /\ ElementInv /\ PhaseInv /\ DataInv /\ PresetInv /\ ServingInv /\ HoldInv
  /\ UnwantedNeverConnects

(***************************************************************************)
(* What the sources say and the code does not do.                           *)
(***************************************************************************)
\* Config.PresetsBeforeConnect: "Before-connect presets must be applied before
\* CONNECT", whichever goroutine sends it.
ConnectAfterPresets ==
  [][\A d \in Devices : asked[d] # "connect" /\ asked'[d] = "connect" => AllBeforeWritten]_vars

=============================================================================
