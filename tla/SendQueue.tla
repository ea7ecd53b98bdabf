----------------------------- MODULE SendQueue -----------------------------
(***************************************************************************)
(* The outbound queue of one INDI client (indiserve/conn.go).               *)
(*                                                                          *)
(* Several goroutines enqueue for the same client: the read loop of every   *)
(* child, through publish, and the client's own serve goroutine, through    *)
(* replay and ping replies.  None of them takes a lock: the byte budget is  *)
(* an atomic counter that is raised before the channel send and lowered     *)
(* again when the send is refused.  writeLoop takes messages out.  A refused*)
(* message means that the client is dropped.  A message is its size.        *)
(***************************************************************************)
EXTENDS Naturals, Sequences, FiniteSets

CONSTANTS
  Senders,        \* goroutines that enqueue for this client
  Sizes,          \* message sizes
  QueueMessages,  \* queueMessages
  QueueBytes      \* queueBytes

ASSUME SendQueueAssumption ==
  /\ IsFiniteSet(Senders)
  /\ Sizes \subseteq Nat \ {0}
  /\ QueueMessages \in Nat \ {0}
  /\ QueueBytes \in Nat

VARIABLES
  out,      \* conn.out
  pending,  \* conn.pending
  done,     \* conn.done is closed
  writer,   \* writeLoop
  snd,      \* the senders
  refused   \* some message of the stream was not queued

vars == <<out, pending, done, writer, snd, refused>>

Quiet == [pc |-> "idle", n |-> 0]

TypeOK ==
  /\ out \in Seq(Sizes) /\ Len(out) <= QueueMessages
  /\ pending \in Nat
  /\ done \in BOOLEAN
  /\ writer \in [pc : {"wait", "write", "drop", "exit"}, n : Sizes \cup {0}]
  /\ snd \in [Senders -> [pc : {"idle", "put", "undo", "drop"}, n : Sizes \cup {0}]]
  /\ refused \in BOOLEAN

Init ==
  /\ out = <<>> /\ pending = 0 /\ done = FALSE /\ refused = FALSE
  /\ writer = [pc |-> "wait", n |-> 0]
  /\ snd = [s \in Senders |-> Quiet]

SetSender(s, p, n) == snd' = [snd EXCEPT ![s] = [pc |-> p, n |-> n]]

(***************************************************************************)
(* enqueue                                                                  *)
(***************************************************************************)
\* Mutant of OverBudget: an oversized message is let in beside others.
OverBudgetAnySize(p, n) == p > QueueBytes /\ n <= QueueBytes

\* "A message larger than the whole byte budget is admitted only into an empty
\* queue": p is the counter after the addition.
OverBudget(p, n) == p > QueueBytes /\ p # n

\* pending.Add(n).
Add(s, n) ==
  /\ snd[s].pc = "idle"
  /\ pending' = pending + n
  /\ SetSender(s, IF OverBudget(pending + n, n) THEN "undo" ELSE "put", n)
  /\ UNCHANGED <<out, done, writer, refused>>

\* The select: a ready channel and a closed done are chosen between at random,
\* and default is taken only when neither is ready.
Put(s) ==
  /\ snd[s].pc = "put"
  /\ \/ /\ Len(out) < QueueMessages
        /\ out' = Append(out, snd[s].n)
        /\ SetSender(s, "idle", 0)
     \/ /\ done \/ Len(out) >= QueueMessages
        /\ SetSender(s, "undo", snd[s].n)
        /\ UNCHANGED out
  /\ UNCHANGED <<pending, done, writer, refused>>

\* Mutant of Undo: the refused message stays in the budget.
UndoForgotten(s) ==
  /\ snd[s].pc = "undo"
  /\ refused' = TRUE
  /\ SetSender(s, "drop", 0)
  /\ UNCHANGED <<pending, out, done, writer>>

\* pending.Add(-n) on every refusal.
Undo(s) ==
  /\ snd[s].pc = "undo"
  /\ pending' = pending - snd[s].n
  /\ refused' = TRUE
  /\ SetSender(s, "drop", 0)
  /\ UNCHANGED <<out, done, writer>>

\* Mutant of Drop: the message is lost and the client stays.
DropForgotten(s) ==
  /\ snd[s].pc = "drop"
  /\ SetSender(s, "idle", 0)
  /\ UNCHANGED <<out, pending, done, writer, refused>>

\* The caller's dropf on any error: close, once.
Drop(s) ==
  /\ snd[s].pc = "drop"
  /\ done' = TRUE
  /\ SetSender(s, "idle", 0)
  /\ UNCHANGED <<out, pending, writer, refused>>

(***************************************************************************)
(* writeLoop                                                                *)
(***************************************************************************)
Take ==
  /\ writer.pc = "wait" /\ out # <<>>
  /\ writer' = [pc |-> "write", n |-> Head(out)]
  /\ out' = Tail(out)
  /\ UNCHANGED <<pending, done, snd, refused>>

\* The write returns, with an error when the deadline passed or the
\* connection was closed; the budget is released either way.
Wrote ==
  /\ writer.pc = "write"
  /\ pending' = pending - writer.n
  /\ \E p \in {"wait", "drop"} : writer' = [pc |-> p, n |-> 0]
  /\ UNCHANGED <<out, done, snd, refused>>

WriterDrops ==
  /\ writer.pc = "drop"
  /\ done' = TRUE
  /\ writer' = [pc |-> "exit", n |-> 0]
  /\ UNCHANGED <<out, pending, snd, refused>>

\* Mutant of WriterExit: the queue is drained first.
WriterDrains ==
  /\ writer.pc = "wait" /\ done /\ out = <<>>
  /\ writer' = [pc |-> "exit", n |-> 0]
  /\ UNCHANGED <<out, pending, done, snd, refused>>

WriterExit ==
  /\ writer.pc = "wait" /\ done
  /\ writer' = [pc |-> "exit", n |-> 0]
  /\ UNCHANGED <<out, pending, done, snd, refused>>

\* closeAll, or serve returning because the client went away.
Close ==
  /\ ~done
  /\ done' = TRUE
  /\ UNCHANGED <<out, pending, writer, snd, refused>>

-----------------------------------------------------------------------------
Enqueue(s) == Put(s) \/ Undo(s) \/ Drop(s)
WriteLoop  == Take \/ Wrote \/ WriterDrops \/ WriterExit

Next ==
  \/ \E s \in Senders : Enqueue(s) \/ \E n \in Sizes : Add(s, n)
  \/ WriteLoop \/ Close

Spec == Init /\ [][Next]_vars

\* Goroutines run and a write returns by its deadline.  select's random choice
\* reaches the closed done channel even while messages keep coming.
Fairness ==
  /\ \A s \in Senders : WF_vars(Enqueue(s))
  /\ WF_vars(WriteLoop) /\ SF_vars(WriterExit)

FairSpec == Spec /\ Fairness

-----------------------------------------------------------------------------
\* The bytes of the messages f, as pairs of a message and a position in it; their
\* number is the sum of the sizes.
BytesOf(f) == UNION {{i} \X (1..f[i]) : i \in DOMAIN f}
Bytes(f)   == Cardinality(BytesOf(f))

\* Messages the client is committed to: queued, or in writeLoop's hands, which is
\* place 0.
Queued == [i \in (IF writer.pc = "write" THEN 0 ELSE 1)..Len(out) |->
             IF i = 0 THEN writer.n ELSE out[i]]

\* Messages of the senders that are at P.
Sending(P) == [s \in {s \in Senders : snd[s].pc \in P} |-> snd[s].n]

\* The counter is exactly what is queued, being written or being decided on: no
\* refusal, write error or race of two senders leaks or double-frees budget, so
\* a drained client can again take a frame of any size.
PendingExact == pending = Bytes(Queued) + Bytes(Sending({"put", "undo"}))

\* "Queue limits allow a full camera frame while bounding slow-client memory
\* use": what is queued fits the budget, or it is one oversized message.
MemoryBounded == Bytes(Queued) <= QueueBytes \/ Cardinality(DOMAIN Queued) = 1

\* A refused message is never a silent gap in the client's stream: once the
\* sender has returned the client is closed.
GapMeansDrop == refused /\ (\A s \in Senders : snd[s].pc # "drop") => done

\* A dropped client's writeLoop ends.
WriterEnds == done ~> writer.pc = "exit"

=============================================================================
