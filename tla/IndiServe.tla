----------------------------- MODULE IndiServe -----------------------------
(***************************************************************************)
(* The INDI server that fans several children out to clients                *)
(* (indiserve/server.go, with the read loop of supervisor/run.go).          *)
(*                                                                          *)
(* A child publishes an element to the clients first and applies it to its  *)
(* snapshot afterwards; when the child dies it invalidates the snapshot     *)
(* first and announces the deletion afterwards.  A client's own goroutine   *)
(* replays snapshots to it on getProperties: it copies the children, then   *)
(* takes each child's snapshot and enqueues it, with no lock that a         *)
(* publisher would wait for.  SetChildren excludes publishers, not replays. *)
(*                                                                          *)
(* Every child has one device with one vector; two children may have the    *)
(* same device.  Queues are those of SendQueue, seen as enqueue or drop.    *)
(***************************************************************************)
EXTENDS Naturals, Sequences, FiniteSets, SequencesExt

CONSTANTS
  Children,
  Clients,
  Devices,
  Device,         \* the device of each child
  BlobChildren,   \* children whose vector is a BLOB
  Values,         \* what a vector may hold
  Selections,     \* what SetChildren may be given: sequences of children
  QueueMessages

None == "none"

ASSUME IndiServeAssumption ==
  /\ Device \in [Children -> Devices]
  /\ BlobChildren \subseteq Children
  /\ Selections \subseteq Seq(Children)
  /\ None \notin Values
  /\ QueueMessages \in Nat \ {0}

VARIABLES
  exposed,  \* Server.children
  snap,     \* each child's snapshot: its vector's value, or None
  reader,   \* each child's read loop: the element it publishes and applies
  conn,     \* each client's connection
  policy,   \* conn.policy for the device: never, also or only
  out,      \* conn.out
  view,     \* what each client believes of each device
  replay,   \* each client's serve goroutine in replay
  raced,    \* children a client was sent an outdated snapshot of
  missed    \* children whose elements the client's policy filtered out

vars == <<exposed, snap, reader, conn, policy, out, view, replay, raced, missed>>

Msgs == [kind : {"def", "set", "del"}, child : Children, val : Values \cup {None}]

TypeOK ==
  /\ exposed \in Selections
  /\ snap \in [Children -> Values \cup {None}]
  /\ reader \in [Children -> [pc : {"idle", "publish", "apply", "gone"}, el : Msgs]]
  /\ conn \in [Clients -> {"none", "accepted", "open", "closed"}]
  /\ policy \in [Clients -> {"never", "also", "only"}]
  /\ out \in [Clients -> Seq(Msgs)] /\ \A c \in Clients : Len(out[c]) <= QueueMessages
  /\ view \in [Clients -> [Devices -> Values \cup {None}]]
  /\ replay \in [Clients -> [pc : {"idle", "child", "send"}, todo : Seq(Children),
                             val : Values \cup {None}, old : BOOLEAN]]
  /\ raced \in [Clients -> SUBSET Children]
  /\ missed \in [Clients -> SUBSET Children]

Exposed == ToSet(exposed)
NoReplay == [pc |-> "idle", todo |-> <<>>, val |-> None, old |-> FALSE]
Del(ch) == [kind |-> "del", child |-> ch, val |-> None]

Init ==
  /\ exposed \in Selections
  /\ snap = [ch \in Children |-> None]
  /\ reader = [ch \in Children |-> [pc |-> "idle", el |-> Del(ch)]]
  /\ conn = [c \in Clients |-> "none"]
  /\ policy = [c \in Clients |-> "never"]
  /\ out = [c \in Clients |-> <<>>]
  /\ view = [c \in Clients |-> [d \in Devices |-> None]]
  /\ replay = [c \in Clients |-> NoReplay]
  /\ raced = [c \in Clients |-> {}]
  /\ missed = [c \in Clients |-> {}]

(***************************************************************************)
(* Queues                                                                   *)
(***************************************************************************)
\* Mutant of Wants: a deletion is filtered like any element.
WantsFiltersDel(c, m) == IF m.child \in BlobChildren THEN m.kind = "def" \/ policy[c] # "never"
                         ELSE policy[c] # "only"

\* conn.wants
Wants(c, m) ==
  \/ m.kind = "del"
  \/ m.child \in BlobChildren /\ (m.kind = "def" \/ policy[c] # "never")
  \/ m.child \notin BlobChildren /\ policy[c] # "only"

Full(c) == Len(out[c]) >= QueueMessages

\* The targets of publish: registered connections that want m.
Targets(m) == {c \in Clients : conn[c] = "open" /\ Wants(c, m)}

\* Mutant of Send: a message for a full queue is skipped.
SendSkips(S, m) ==
  /\ out' = [c \in Clients |-> IF c \in S /\ ~Full(c) THEN Append(out[c], m) ELSE out[c]]
  /\ conn' = conn

\* enqueue m for every client of S; a full queue drops its client.
Send(S, m) ==
  /\ out' = [c \in Clients |-> IF c \in S /\ ~Full(c) THEN Append(out[c], m) ELSE out[c]]
  /\ conn' = [c \in Clients |-> IF c \in S /\ Full(c) THEN "closed" ELSE conn[c]]

(***************************************************************************)
(* A child's read loop                                                      *)
(***************************************************************************)
Elements(ch) ==
  [kind : {"def"}, child : {ch}, val : Values] \cup {Del(ch)}
  \cup (IF snap[ch] = None THEN {} ELSE [kind : {"set"}, child : {ch}, val : Values])

Receive(ch) ==
  /\ reader[ch].pc = "idle"
  /\ \E e \in Elements(ch) : reader' = [reader EXCEPT ![ch] = [pc |-> "publish", el |-> e]]
  /\ UNCHANGED <<exposed, snap, conn, policy, out, view, replay, raced, missed>>

\* publish for child ch, under the read lock of childrenMu.  A replay that holds
\* ch's snapshot is outdated from here on; a definition or a deletion brings
\* the clients that get it up to date.
Publish(ch, p) ==
  LET m == reader[ch].el
      T == IF ch \in Exposed THEN Targets(m) ELSE {}
  IN /\ Send(T, m)
     /\ raced' = [c \in Clients |-> IF c \in T /\ m.kind # "set" THEN raced[c] \ {ch} ELSE raced[c]]
     /\ missed' = [c \in Clients |-> IF c \notin T THEN missed[c] \cup {ch}
                                     ELSE IF m.kind # "set" THEN missed[c] \ {ch} ELSE missed[c]]
     /\ replay' = [c \in Clients |->
                     IF replay[c].pc = "send" /\ Head(replay[c].todo) = ch
                     THEN [replay[c] EXCEPT !.old = TRUE] ELSE replay[c]]
     /\ reader' = [reader EXCEPT ![ch].pc = p]
     /\ UNCHANGED <<exposed, policy, view>>

PublishElement(ch) == reader[ch].pc = "publish" /\ Publish(ch, "apply") /\ UNCHANGED snap

\* store.Apply
Apply(ch) ==
  /\ reader[ch].pc = "apply"
  /\ snap' = [snap EXCEPT ![ch] = reader[ch].el.val]
  /\ reader' = [reader EXCEPT ![ch] = [pc |-> "idle", el |-> Del(ch)]]
  /\ UNCHANGED <<exposed, conn, policy, out, view, replay, raced, missed>>

\* The child dies: the snapshot is invalidated, then the deletion announced.
Dies(ch) ==
  /\ reader[ch].pc = "idle" /\ snap[ch] # None
  /\ snap' = [snap EXCEPT ![ch] = None]
  /\ reader' = [reader EXCEPT ![ch] = [pc |-> "gone", el |-> Del(ch)]]
  /\ UNCHANGED <<exposed, conn, policy, out, view, replay, raced, missed>>

AnnounceGone(ch) == reader[ch].pc = "gone" /\ Publish(ch, "idle") /\ UNCHANGED snap

(***************************************************************************)
(* Connections                                                              *)
(***************************************************************************)
\* Everything about client c but its connection is that of a new client.
Fresh(c) ==
  /\ out' = [out EXCEPT ![c] = <<>>]
  /\ view' = [view EXCEPT ![c] = [d \in Devices |-> None]]
  /\ policy' = [policy EXCEPT ![c] = "never"]
  /\ replay' = [replay EXCEPT ![c] = NoReplay]
  /\ raced' = [raced EXCEPT ![c] = {}]
  /\ missed' = [missed EXCEPT ![c] = {}]

Accept(c) ==
  /\ conn[c] = "none"
  /\ conn' = [conn EXCEPT ![c] = "accepted"]
  /\ UNCHANGED <<exposed, snap, reader, policy, out, view, replay, raced, missed>>

\* s.conns[c], and then the connection's goroutines start.
Register(c) ==
  /\ conn[c] = "accepted"
  /\ conn' = [conn EXCEPT ![c] = "open"]
  /\ UNCHANGED <<exposed, snap, reader, policy, out, view, replay, raced, missed>>

\* The client leaves, or its write times out.
Leave(c) ==
  /\ conn[c] = "open"
  /\ conn' = [conn EXCEPT ![c] = "closed"]
  /\ UNCHANGED <<exposed, snap, reader, policy, out, view, replay, raced, missed>>

\* The goroutines of a closed connection end; the client may come again.
Forget(c) ==
  /\ conn[c] = "closed"
  /\ conn' = [conn EXCEPT ![c] = "none"]
  /\ Fresh(c)
  /\ UNCHANGED <<exposed, snap, reader>>

\* Mutant of SetChildren: clients keep their connections.
SetChildrenKeeps(sel) ==
  /\ sel # exposed
  /\ exposed' = sel
  /\ UNCHANGED <<snap, reader, conn, policy, out, view, replay, raced, missed>>

\* A changed selection closes every registered connection.
SetChildren(sel) ==
  /\ sel # exposed
  /\ exposed' = sel
  /\ conn' = [c \in Clients |-> IF conn[c] = "open" THEN "closed" ELSE conn[c]]
  /\ UNCHANGED <<snap, reader, policy, out, view, replay, raced, missed>>

\* enableBLOB
SetPolicy(c, p) ==
  /\ conn[c] = "open" /\ replay[c].pc = "idle"
  /\ policy' = [policy EXCEPT ![c] = p]
  /\ UNCHANGED <<exposed, snap, reader, conn, out, view, replay, raced, missed>>

\* writeLoop hands the next message to the client, which updates what it knows.
Deliver(c) ==
  /\ conn[c] = "open" /\ out[c] # <<>>
  /\ LET m == Head(out[c])
         d == Device[m.child]
     IN view' = [view EXCEPT ![c][d] = IF m.kind = "set" /\ @ = None THEN None ELSE m.val]
  /\ out' = [out EXCEPT ![c] = Tail(@)]
  /\ UNCHANGED <<exposed, snap, reader, conn, policy, replay, raced, missed>>

(***************************************************************************)
(* replay, on getProperties                                                 *)
(***************************************************************************)
GetProperties(c) ==
  /\ conn[c] = "open" /\ replay[c].pc = "idle"
  /\ replay' = [replay EXCEPT ![c] = [NoReplay EXCEPT !.pc = "child", !.todo = exposed]]
  /\ UNCHANGED <<exposed, snap, reader, conn, policy, out, view, raced, missed>>

\* ch.Snapshot() of the next child; it is outdated already when the read loop is
\* between publishing an element and applying it.
ReplaySnapshot(c) ==
  /\ conn[c] = "open" /\ replay[c].pc = "child" /\ replay[c].todo # <<>>
  /\ LET ch == Head(replay[c].todo)
     IN replay' = [replay EXCEPT ![c] = [pc |-> "send", todo |-> @.todo, val |-> snap[ch],
                                         old |-> reader[ch].pc = "apply"]]
  /\ UNCHANGED <<exposed, snap, reader, conn, policy, out, view, raced, missed>>

\* enqueue the snapshot as a definition, if there is one and the client wants it.
ReplaySend(c) ==
  /\ conn[c] = "open" /\ replay[c].pc = "send"
  /\ LET r == replay[c]
         ch == Head(r.todo)
         m == [kind |-> "def", child |-> ch, val |-> r.val]
         sends == r.val # None /\ Wants(c, m)
     IN /\ Send(IF sends THEN {c} ELSE {}, m)
        /\ raced' = IF ~sends THEN raced
                    ELSE [raced EXCEPT ![c] = IF r.old THEN @ \cup {ch} ELSE @ \ {ch}]
        /\ missed' = IF ~sends THEN missed ELSE [missed EXCEPT ![c] = @ \ {ch}]
        /\ replay' = [replay EXCEPT ![c] = [NoReplay EXCEPT !.pc = "child", !.todo = Tail(r.todo)]]
  /\ UNCHANGED <<exposed, snap, reader, policy, view>>

ReplayDone(c) ==
  /\ conn[c] = "open" /\ replay[c].pc = "child" /\ replay[c].todo = <<>>
  /\ replay' = [replay EXCEPT ![c] = NoReplay]
  /\ UNCHANGED <<exposed, snap, reader, conn, policy, out, view, raced, missed>>

-----------------------------------------------------------------------------
ReadLoop(ch) ==
  Receive(ch) \/ PublishElement(ch) \/ Apply(ch) \/ Dies(ch) \/ AnnounceGone(ch)

Client(c) ==
  \/ Accept(c) \/ Register(c) \/ Leave(c) \/ Forget(c) \/ Deliver(c)
  \/ GetProperties(c) \/ ReplaySnapshot(c) \/ ReplaySend(c) \/ ReplayDone(c)
  \/ \E p \in {"never", "also", "only"} : SetPolicy(c, p)

Next ==
  \/ \E ch \in Children : ReadLoop(ch)
  \/ \E c \in Clients : Client(c)
  \/ \E sel \in Selections : SetChildren(sel)

Spec == Init /\ [][Next]_vars

-----------------------------------------------------------------------------
\* What the observers of ch were told last; undefined while Dies is not yet
\* announced.
Announced(ch) == IF reader[ch].pc = "apply" THEN reader[ch].el.val ELSE snap[ch]

\* What client c believes of ch, from now until it has read its queue.
Readings(c, ch) ==
  {b \in [0..Len(out[c]) -> Values \cup {None}] :
     /\ b[0] = view[c][Device[ch]]
     /\ \A i \in 1..Len(out[c]) :
          LET m == out[c][i]
          IN b[i] = IF m.child # ch \/ (m.kind = "set" /\ b[i - 1] = None) THEN b[i - 1] ELSE m.val}

\* When it has read its queue it believes one of V.
Settles(c, ch, V) == \A b \in Readings(c, ch) : b[Len(out[c])] \in V

\* c is served by ch, and no other child that is served has the same device.
Follows(c, ch) ==
  /\ conn[c] = "open" /\ ch \in Exposed /\ reader[ch].pc # "gone"
  /\ \A x \in Exposed \ {ch} : Device[x] # Device[ch]

\* A connected client that was not sent an outdated snapshot, and whose policy
\* filtered nothing out, ends up with the value the driver last sent: elements
\* reach it in order and none is skipped, or it is dropped.
ClientFollowsChild ==
  \A c \in Clients, ch \in Children :
    Follows(c, ch) /\ ch \notin raced[c] \cup missed[c] =>
      Settles(c, ch, {None, Announced(ch)})

\* announceGone, "so clients drop stale defs": whatever its policy, such a
\* client keeps no device that its driver does not have.
ClientForgetsDead ==
  \A c \in Clients, ch \in Children :
    Follows(c, ch) /\ ch \notin raced[c] /\ Announced(ch) = None => Settles(c, ch, {None})

\* SetChildren: "existing clients' cached devices and queued events cannot
\* outlive the selection", though accepts, replays and publishers run on.
SelectionIsFresh ==
  \A c \in Clients : conn[c] = "open" =>
    /\ \A i \in 1..Len(out[c]) : out[c][i].child \in Exposed
    /\ \A d \in Devices : (\A ch \in Exposed : Device[ch] # d) => view[c][d] = None

\* announceGone, "so clients drop stale defs", without excluding the race: with
\* nothing under way no client keeps a device whose driver has none.
NoPhantomDevice ==
  \A c \in Clients, ch \in Children :
    Follows(c, ch) /\ reader[ch].pc = "idle" /\ replay[c].pc = "idle" /\ out[c] = <<>> =>
      (snap[ch] = None => view[c][Device[ch]] = None)

=============================================================================
