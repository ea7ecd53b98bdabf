------------------------------ MODULE Waiters ------------------------------
(***************************************************************************)
(* WaitSettle and WaitUpdate against the read loop (supervisor/sender.go).  *)
(*                                                                          *)
(* A waiter reads the snapshot, registers a fresh one-slot channel for its  *)
(* device and property, and blocks on it.  The read loop publishes a        *)
(* snapshot and then notifies the property's channels; when the child is    *)
(* gone it invalidates the snapshot and fails every channel.  Both send     *)
(* while they hold the waiters' lock, so a full channel would stop the read *)
(* loop and every other waiter.                                             *)
(*                                                                          *)
(* A key is a device and property.  Times are abstracted to the one         *)
(* question the code asks of them: fresh[w] is v.Updated.After(since) for   *)
(* waiter w.  A channel that is neither registered nor held is garbage and  *)
(* make may return it again.                                                *)
(***************************************************************************)
EXTENDS Naturals, FiniteSets

CONSTANTS Callers, Keys, Chans, NoChan

ASSUME WaitersAssumption == NoChan \notin Chans

VARIABLES
  vec,     \* snapshot: undefined, busy or settled (Idle, Ok, Alert), per key
  valid,   \* Snapshot.valid
  reader,  \* the read loop: where it is, and the key it will notify
  reg,     \* waiters.m
  buf,     \* contents of each channel
  fresh,   \* v.Updated.After(since)
  wt       \* the callers

waitersVars == <<vec, valid, reader, reg, buf, fresh, wt>>

TypeOK ==
  /\ vec \in [Keys -> {"undef", "busy", "settled"}]
  /\ valid \in BOOLEAN
  /\ reader \in [pc : {"run", "notify", "fail", "down"}, key : Keys]
  /\ reg \in [Keys -> SUBSET Chans]
  /\ buf \in [Chans -> {"empty", "nil", "err"}]
  /\ fresh \in [Callers -> BOOLEAN]
  /\ wt \in [Callers -> [pc : {"idle", "check", "register", "select", "done"},
                         mode : {"none", "settle", "update"},
                         key : Keys, ch : Chans \cup {NoChan}]]

At(w, p) == wt[w].pc = p

Registered == UNION {reg[k] : k \in Keys}
Held       == {wt[w].ch : w \in Callers} \ {NoChan}

WaitersInit ==
  /\ vec = [k \in Keys |-> "undef"]
  /\ valid = TRUE
  /\ \E k \in Keys :
       /\ reader = [pc |-> "run", key |-> k]
       /\ wt = [w \in Callers |-> [pc |-> "idle", mode |-> "none", key |-> k, ch |-> NoChan]]
  /\ reg = [k \in Keys |-> {}]
  /\ buf = [c \in Chans |-> "empty"]
  /\ fresh = [w \in Callers |-> FALSE]

(***************************************************************************)
(* The read loop.                                                           *)
(***************************************************************************)
\* apply of a def or set: the vector is replaced and its time is now.
ApplyUpdate(k, v) ==
  /\ reader.pc = "run"
  /\ vec' = [vec EXCEPT ![k] = v]
  /\ fresh' = [w \in Callers |-> fresh[w] \/ (wt[w].key = k /\ ~At(w, "idle"))]
  /\ reader' = [pc |-> "notify", key |-> k]
  /\ UNCHANGED <<valid, reg, buf, wt>>

ApplyDel(k) ==
  /\ reader.pc = "run" /\ vec[k] # "undef"
  /\ vec' = [vec EXCEPT ![k] = "undef"]
  /\ reader' = [pc |-> "notify", key |-> k]
  /\ UNCHANGED <<valid, reg, buf, fresh, wt>>

\* A delProperty without a name: notify(device, "") reaches no waiter.
ApplyDelDevice ==
  /\ reader.pc = "run"
  /\ \E k \in Keys : vec[k] # "undef"
  /\ vec' = [k \in Keys |-> "undef"]
  /\ UNCHANGED <<valid, reader, reg, buf, fresh, wt>>

\* A send on a full channel blocks with the lock held.
CanSend(S) == \A c \in S : buf[c] = "empty"

SendAll(S, m) == buf' = [c \in Chans |-> IF c \in S THEN m ELSE buf[c]]

\* Mutant of Notify: the key is not deleted from the map.
NotifyKeeps ==
  /\ reader.pc = "notify"
  /\ CanSend(reg[reader.key])
  /\ SendAll(reg[reader.key], "nil")
  /\ reader' = [reader EXCEPT !.pc = "run"]
  /\ UNCHANGED <<vec, valid, reg, fresh, wt>>

Notify ==
  /\ reader.pc = "notify"
  /\ CanSend(reg[reader.key])
  /\ SendAll(reg[reader.key], "nil")
  /\ reg' = [reg EXCEPT ![reader.key] = {}]
  /\ reader' = [reader EXCEPT !.pc = "run"]
  /\ UNCHANGED <<vec, valid, fresh, wt>>

\* The stream ended: store.Invalidate.
Invalidate ==
  /\ reader.pc = "run"
  /\ vec' = [k \in Keys |-> "undef"]
  /\ valid' = FALSE
  /\ reader' = [reader EXCEPT !.pc = "fail"]
  /\ UNCHANGED <<reg, buf, fresh, wt>>

\* Mutant of FailAll: the map is dropped without waking anyone.
FailNobody ==
  /\ reader.pc = "fail"
  /\ reg' = [k \in Keys |-> {}]
  /\ reader' = [reader EXCEPT !.pc = "down"]
  /\ UNCHANGED <<vec, valid, buf, fresh, wt>>

FailAll ==
  /\ reader.pc = "fail"
  /\ CanSend(Registered)
  /\ SendAll(Registered, "err")
  /\ reg' = [k \in Keys |-> {}]
  /\ reader' = [reader EXCEPT !.pc = "down"]
  /\ UNCHANGED <<vec, valid, fresh, wt>>

\* The next attempt: store.Reset.
Reset ==
  /\ reader.pc = "down"
  /\ valid' = TRUE
  /\ reader' = [reader EXCEPT !.pc = "run"]
  /\ UNCHANGED <<vec, reg, buf, fresh, wt>>

(***************************************************************************)
(* A caller of WaitSettle (mode settle) or WaitUpdate (mode update).        *)
(***************************************************************************)
\* A call that times out leaves its channel registered until the property is
\* next notified, so the map grows with every call on a silent property.  The
\* bound on it is |Chans|, and a call starts only when it can have a channel.
ChansLeft ==
  Cardinality(Registered \ Held) + Cardinality({w \in Callers : ~At(w, "idle")})
    < Cardinality(Chans)

\* since is now (nothing is fresh yet) or zero (whatever is there is).
Call(w, k, m, zero) ==
  /\ At(w, "idle") /\ ChansLeft
  /\ wt' = [wt EXCEPT ![w] = [pc |-> "check", mode |-> m, key |-> k, ch |-> NoChan]]
  /\ fresh' = [fresh EXCEPT ![w] = zero]
  /\ UNCHANGED <<vec, valid, reader, reg, buf>>

Move(w, p, c) == wt' = [wt EXCEPT ![w] = [pc |-> p, mode |-> wt[w].mode, key |-> wt[w].key, ch |-> c]]

\* The condition of the caller's mode on the current snapshot.
Satisfied(w) ==
  fresh[w] /\ (wt[w].mode = "update" \/ vec[wt[w].key] # "busy")

\* One pass of the loop: invalid, undefined and satisfied return; otherwise
\* the caller goes on to register.
Check(w) ==
  /\ At(w, "check")
  /\ Move(w, IF ~valid \/ vec[wt[w].key] = "undef" \/ Satisfied(w) THEN "done" ELSE "register",
          NoChan)
  /\ UNCHANGED <<vec, valid, reader, reg, buf, fresh>>

Register(w) ==
  /\ At(w, "register")
  /\ \E c \in Chans \ (Registered \cup Held) :
       /\ reg' = [reg EXCEPT ![wt[w].key] = @ \cup {c}]
       /\ buf' = [buf EXCEPT ![c] = "empty"]
       /\ Move(w, "select", c)
  /\ UNCHANGED <<vec, valid, reader, fresh>>

Wake(w) ==
  /\ At(w, "select")
  /\ buf[wt[w].ch] # "empty"
  /\ Move(w, IF buf[wt[w].ch] = "nil" THEN "check" ELSE "done", NoChan)
  /\ UNCHANGED <<vec, valid, reader, reg, buf, fresh>>

\* Mutant of Timeout: the deadline restarts the loop.
TimeoutLoops(w) ==
  /\ At(w, "select")
  /\ Move(w, "check", NoChan)
  /\ UNCHANGED <<vec, valid, reader, reg, buf, fresh>>

\* The deadline or ctx; select may take it although the channel is ready.  The
\* channel stays registered.
Timeout(w) ==
  /\ At(w, "select")
  /\ Move(w, "done", NoChan)
  /\ UNCHANGED <<vec, valid, reader, reg, buf, fresh>>

Return(w) ==
  /\ At(w, "done")
  /\ wt' = [wt EXCEPT ![w] = [pc |-> "idle", mode |-> "none", key |-> wt[w].key, ch |-> NoChan]]
  /\ fresh' = [fresh EXCEPT ![w] = FALSE]
  /\ UNCHANGED <<vec, valid, reader, reg, buf>>

-----------------------------------------------------------------------------
ReadLoop ==
  \/ \E k \in Keys, v \in {"busy", "settled"} : ApplyUpdate(k, v)
  \/ \E k \in Keys : ApplyDel(k)
  \/ ApplyDelDevice \/ Notify \/ Invalidate \/ FailAll \/ Reset

Steps(w) == Check(w) \/ Register(w) \/ Wake(w) \/ Return(w)

WaitersNext ==
  \/ ReadLoop
  \/ \E w \in Callers :
       \/ \E k \in Keys, m \in {"settle", "update"}, z \in BOOLEAN : Call(w, k, m, z)
       \/ Steps(w)
       \/ Timeout(w)

WaitersSpec == WaitersInit /\ [][WaitersNext]_waitersVars

\* The goroutines run; a timer fires, and once it has, select's random choice
\* takes it in one of the passes.  Nothing is assumed of the driver.
Fairness ==
  /\ WF_waitersVars(Notify \/ FailAll \/ Reset)
  /\ \A w \in Callers : WF_waitersVars(Steps(w)) /\ SF_waitersVars(Timeout(w))

FairSpec == WaitersSpec /\ Fairness

-----------------------------------------------------------------------------
\* notify and failAll send with the waiters' lock held on channels of one slot:
\* a registered channel is always empty, so neither ever blocks.
RegisteredEmpty == \A c \in Registered : buf[c] = "empty"

\* A caller blocked on an empty channel is still registered under its own key,
\* so the next update of that property, or the child's death, wakes it: no
\* path takes a channel out of the map without sending on it.
NoOrphan ==
  \A w \in Callers : At(w, "select") /\ buf[wt[w].ch] = "empty" => wt[w].ch \in reg[wt[w].key]

\* A channel belongs to one caller and one key: a wake-up is never taken by
\* another caller and never comes from another property.
ChannelIsPrivate ==
  /\ \A v, w \in Callers : v # w /\ wt[v].ch = wt[w].ch => wt[w].ch = NoChan
  /\ \A k \in Keys, w \in Callers : wt[w].ch \in reg[k] => k = wt[w].key
  /\ \A j, k \in Keys : j # k => reg[j] \cap reg[k] = {}

\* The read loop comes back from notify and failAll whatever the callers do.
ReaderReturns == reader.pc \in {"notify", "fail"} ~> reader.pc \in {"run", "down"}

\* Every call returns, however often updates wake it without satisfying it.
WaitReturns == \A w \in Callers : At(w, "check") ~> At(w, "done")

\* "WaitSettle waits for a non-Busy update after since and returns its state":
\* while the read loop has nothing left to deliver no caller is blocked on an
\* empty channel although the snapshot satisfies it.
NoLostWakeup ==
  reader.pc = "run" =>
    \A w \in Callers :
      At(w, "select") /\ buf[wt[w].ch] = "empty" =>
        ~(vec[wt[w].key] # "undef" /\ Satisfied(w))

=============================================================================
