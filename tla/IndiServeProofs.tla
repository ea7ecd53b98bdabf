-------------------------- MODULE IndiServeProofs --------------------------
(***************************************************************************)
(* Proofs about IndiServe for any children, clients, devices, values,       *)
(* selections and queue length.                                             *)
(*                                                                          *)
(* What a client believes once it has read its queue is a fold over the     *)
(* queue.  It is stated over all readings of the queue, so that a message   *)
(* at its end extends a reading and a message taken from its head shortens  *)
(* one: no induction over the queue is needed.                              *)
(***************************************************************************)
EXTENDS IndiServe, TLAPS

Vals == Values \cup {None}

(***************************************************************************)
(* Readings of a queue s by a client that believes v of child ch.           *)
(***************************************************************************)
Step(v, m, ch) == IF m.child # ch \/ (m.kind = "set" /\ v = None) THEN v ELSE m.val

Reading(b, v, s, ch) ==
  /\ b \in [0..Len(s) -> Vals] /\ b[0] = v
  /\ \A i \in 1..Len(s) : b[i] = Step(b[i - 1], s[i], ch)

Ends(v, s, ch, V) == \A b : Reading(b, v, s, ch) => b[Len(s)] \in V

\* Settles in these terms, before and after a step.
LEMMA InTerms ==
  ASSUME NEW c, NEW ch, NEW V
  PROVE  /\ Settles(c, ch, V) <=> Ends(view[c][Device[ch]], out[c], ch, V)
         /\ Settles(c, ch, V)' <=> Ends(view'[c][Device[ch]], out'[c], ch, V')
BY DEF Settles, Readings, Ends, Reading, Step, Vals

\* An empty queue leaves the client with what it has.
LEMMA EndsEmpty ==
  ASSUME NEW v, NEW ch PROVE Ends(v, <<>>, ch, {v})
BY DEF Ends, Reading

\* Less precise is right, too.
LEMMA EndsMore ==
  ASSUME NEW v, NEW s, NEW ch, NEW V, NEW W, Ends(v, s, ch, V), V \subseteq W
  PROVE  Ends(v, s, ch, W)
BY DEF Ends

\* A reading of a longer queue begins with one of the shorter, and makes one step.
LEMMA ReadingAppend ==
  ASSUME NEW s \in Seq(Msgs), NEW m \in Msgs, NEW v, NEW ch, NEW b,
         Reading(b, v, Append(s, m), ch)
  PROVE  \E a : /\ Reading(a, v, s, ch)
                /\ b[Len(Append(s, m))] = Step(a[Len(s)], m, ch)
<1> DEFINE t == Append(s, m)
           n == Len(s)
           a == [i \in 0..n |-> b[i]]
<1>1. n \in Nat /\ Len(t) = n + 1 /\ t[n + 1] = m /\ \A i \in 1..n : t[i] = s[i]
  OBVIOUS
<1>2. b \in [0..(n + 1) -> Vals] /\ b[0] = v /\ \A i \in 1..(n + 1) : b[i] = Step(b[i - 1], t[i], ch)
  BY <1>1 DEF Reading
<1>3. a \in [0..n -> Vals] /\ a[0] = v /\ a[n] = b[n]
  BY <1>1, <1>2
<1>4. ASSUME NEW i \in 1..n PROVE a[i] = Step(a[i - 1], s[i], ch)
  <2>1. i \in 1..(n + 1) /\ i \in 0..n /\ i - 1 \in 0..n
    BY <1>1
  <2> QED BY <1>1, <1>2, <2>1
<1>5. Reading(a, v, s, ch)
  BY <1>3, <1>4 DEF Reading
<1>6. b[n + 1] = Step(b[n], m, ch)
  <2>1. n + 1 \in 1..(n + 1) /\ (n + 1) - 1 = n
    BY <1>1
  <2> QED BY <1>1, <1>2, <2>1
<1> QED BY <1>1, <1>3, <1>5, <1>6

\* A message of another child does not matter.
LEMMA EndsOther ==
  ASSUME NEW s \in Seq(Msgs), NEW m \in Msgs, NEW v, NEW ch, NEW V,
         Ends(v, s, ch, V), m.child # ch
  PROVE  Ends(v, Append(s, m), ch, V)
<1> SUFFICES ASSUME NEW b, Reading(b, v, Append(s, m), ch)
             PROVE  b[Len(Append(s, m))] \in V
  BY DEF Ends
<1>1. PICK a : Reading(a, v, s, ch) /\ b[Len(Append(s, m))] = Step(a[Len(s)], m, ch)
  BY ReadingAppend
<1> QED BY <1>1 DEF Ends, Step

\* A message of the child replaces what came before, unless it sets what the client
\* does not have.
LEMMA EndsOwn ==
  ASSUME NEW s \in Seq(Msgs), NEW m \in Msgs, NEW v, NEW ch, m.child = ch
  PROVE  /\ Ends(v, Append(s, m), ch, {None, m.val})
         /\ m.kind # "set" => Ends(v, Append(s, m), ch, {m.val})
<1>1. ASSUME NEW b, Reading(b, v, Append(s, m), ch)
      PROVE  /\ b[Len(Append(s, m))] \in {None, m.val}
             /\ m.kind # "set" => b[Len(Append(s, m))] = m.val
  <2>1. PICK a : Reading(a, v, s, ch) /\ b[Len(Append(s, m))] = Step(a[Len(s)], m, ch)
    BY <1>1, ReadingAppend
  <2> QED BY <2>1 DEF Step
<1> QED BY <1>1 DEF Ends

\* Reading the first message early leads to the same end.
LEMMA EndsTail ==
  ASSUME NEW s \in Seq(Msgs), s # <<>>, NEW v \in Vals, NEW ch, NEW V, Ends(v, s, ch, V)
  PROVE  Ends(Step(v, Head(s), ch), Tail(s), ch, V)
<1> DEFINE t == Tail(s)
           n == Len(t)
           u == Step(v, Head(s), ch)
<1>1. n \in Nat /\ Len(s) = n + 1 /\ Head(s) = s[1] /\ \A i \in 1..n : t[i] = s[i + 1]
  OBVIOUS
<1> SUFFICES ASSUME NEW b, Reading(b, u, t, ch)
             PROVE  b[n] \in V
  BY DEF Ends
<1> DEFINE a == [i \in 0..(n + 1) |-> IF i = 0 THEN v ELSE b[i - 1]]
<1>2. b \in [0..n -> Vals] /\ b[0] = u /\ \A i \in 1..n : b[i] = Step(b[i - 1], t[i], ch)
  BY DEF Reading
<1> HIDE DEF t, n, u
<1>3. a \in [0..(n + 1) -> Vals] /\ a[0] = v /\ a[n + 1] = b[n]
  BY <1>1, <1>2
<1>4. ASSUME NEW i \in 1..(n + 1) PROVE a[i] = Step(a[i - 1], s[i], ch)
  <2>1. CASE i = 1
    BY <1>1, <1>2, <2>1 DEF u
  <2>2. CASE i # 1
    <3>1. i - 1 \in 1..n /\ i \in 0..(n + 1) /\ i - 1 \in 0..(n + 1) /\ i # 0 /\ i - 1 # 0
      BY <1>1, <2>2
    <3>2. a[i] = b[i - 1] /\ a[i - 1] = b[(i - 1) - 1] /\ t[i - 1] = s[(i - 1) + 1] /\ (i - 1) + 1 = i
      BY <1>1, <3>1
    <3>3. b[i - 1] = Step(b[(i - 1) - 1], t[i - 1], ch)
      BY <1>2, <3>1
    <3> QED BY <3>2, <3>3
  <2> QED BY <2>1, <2>2
<1>5. Reading(a, v, s, ch)
  BY <1>1, <1>3, <1>4 DEF Reading
<1> QED BY <1>1, <1>3, <1>5 DEF Ends

(***************************************************************************)
(* The inductive invariant.                                                 *)
(***************************************************************************)
\* A read loop carries elements of its own child; only a deletion has no value.
ReaderInv ==
  \A ch \in Children :
    /\ reader[ch].el.child = ch
    /\ reader[ch].el.val = None <=> reader[ch].el.kind = "del"
    /\ reader[ch].pc = "gone" => reader[ch].el.kind = "del" /\ snap[ch] = None

TypedInv == TypeOK /\ ReaderInv /\ \A c \in Clients : replay[c].pc = "send" => replay[c].todo # <<>>

\* A client that is not registered yet has been told nothing.
FreshInv ==
  \A c \in Clients : conn[c] \in {"none", "accepted"} =>
    /\ out[c] = <<>> /\ replay[c].pc = "idle"
    /\ \A d \in Devices : view[c][d] = None

\* A replay of a registered client is of the children that are exposed.
TodoExposed ==
  \A c \in Clients : conn[c] = "open" /\ replay[c].pc # "idle" =>
    \A i \in 1..Len(replay[c].todo) : replay[c].todo[i] \in Exposed

\* A snapshot that is not marked outdated is what the child last announced.
ReplayInv ==
  \A c \in Clients, ch \in Children :
    /\ replay[c].pc = "send" /\ ~replay[c].old /\ Head(replay[c].todo) = ch
    /\ reader[ch].pc # "gone"
    => replay[c].val = Announced(ch)

\* Both properties of a client and a child that it follows.
Sound(c, ch) ==
  /\ ch \notin raced[c] \cup missed[c] => Settles(c, ch, {None, Announced(ch)})
  /\ ch \notin raced[c] /\ Announced(ch) = None => Settles(c, ch, {None})

FollowInv == \A c \in Clients, ch \in Children : Follows(c, ch) => Sound(c, ch)

IndInv == TypedInv /\ FreshInv /\ TodoExposed /\ SelectionIsFresh /\ ReplayInv /\ FollowInv

(***************************************************************************)
(* Types.                                                                   *)
(***************************************************************************)
\* enqueue gives every client the message, drops it, or passes it by.
LEMMA SendEffect ==
  ASSUME TypeOK, NEW S, NEW m \in Msgs, Send(S, m)
  PROVE  /\ out' \in [Clients -> Seq(Msgs)] /\ \A c \in Clients : Len(out'[c]) <= QueueMessages
         /\ conn' \in [Clients -> {"none", "accepted", "open", "closed"}]
         /\ \A c \in Clients : c \notin S => out'[c] = out[c] /\ conn'[c] = conn[c]
         /\ \A c \in S \cap Clients : \/ conn'[c] = "closed" /\ out'[c] = out[c]
                                      \/ conn'[c] = conn[c] /\ out'[c] = Append(out[c], m)
<1>1. ASSUME NEW c \in Clients
      PROVE  /\ out'[c] \in Seq(Msgs) /\ Len(out'[c]) <= QueueMessages
  <2>1. out[c] \in Seq(Msgs) /\ Len(out[c]) \in Nat /\ Len(out[c]) <= QueueMessages
    BY DEF TypeOK
  <2>2. CASE c \in S /\ ~Full(c)
    BY <2>1, <2>2, IndiServeAssumption DEF Send, Full
  <2>3. CASE ~(c \in S /\ ~Full(c))
    BY <2>1, <2>3 DEF Send
  <2> QED BY <2>2, <2>3
<1>2. out' \in [Clients -> Seq(Msgs)]
  BY <1>1 DEF Send
<1>3. conn' \in [Clients -> {"none", "accepted", "open", "closed"}]
  BY DEF Send, TypeOK
<1>4. \A c \in Clients : c \notin S => out'[c] = out[c] /\ conn'[c] = conn[c]
  BY DEF Send
<1>5. \A c \in S \cap Clients : \/ conn'[c] = "closed" /\ out'[c] = out[c]
                                \/ conn'[c] = conn[c] /\ out'[c] = Append(out[c], m)
  BY DEF Send
<1> QED BY <1>1, <1>2, <1>3, <1>4, <1>5

\* The elements a child may send.
LEMMA ElementsTyped ==
  ASSUME NEW ch \in Children, NEW e \in Elements(ch)
  PROVE  e \in Msgs /\ e.child = ch /\ (e.val = None <=> e.kind = "del")
BY IndiServeAssumption DEF Elements, Del, Msgs

LEMMA PublishTyped ==
  ASSUME TypedInv, NEW ch \in Children, NEW p \in {"idle", "apply"}, Publish(ch, p), UNCHANGED snap
  PROVE  TypedInv'
<1> USE DEF TypedInv
<1> DEFINE m == reader[ch].el
           T == IF ch \in Exposed THEN Targets(m) ELSE {}
<1>1. m \in Msgs
  BY DEF TypeOK
<1>2. Send(T, m)
  BY DEF Publish
<1>3. /\ out' \in [Clients -> Seq(Msgs)] /\ \A c \in Clients : Len(out'[c]) <= QueueMessages
      /\ conn' \in [Clients -> {"none", "accepted", "open", "closed"}]
  BY <1>1, <1>2, SendEffect
<1>4. raced' \in [Clients -> SUBSET Children] /\ missed' \in [Clients -> SUBSET Children]
  BY DEF Publish, TypeOK
<1>5. /\ replay' \in [Clients -> [pc : {"idle", "child", "send"}, todo : Seq(Children),
                                  val : Values \cup {None}, old : BOOLEAN]]
      /\ \A c \in Clients : replay'[c].pc = replay[c].pc /\ replay'[c].todo = replay[c].todo
  BY DEF Publish, TypeOK
<1>6. /\ reader' \in [Children -> [pc : {"idle", "publish", "apply", "gone"}, el : Msgs]]
      /\ \A x \in Children : reader'[x].el = reader[x].el
      /\ \A x \in Children : reader'[x].pc = "gone" => reader[x].pc = "gone"
  <2>1. reader \in [Children -> [pc : {"idle", "publish", "apply", "gone"}, el : Msgs]]
    BY DEF TypeOK
  <2>2. reader' = [reader EXCEPT ![ch].pc = p]
    BY DEF Publish
  <2>3. p \in {"idle", "publish", "apply", "gone"} /\ p # "gone"
    OBVIOUS
  <2> QED BY ONLY <2>1, <2>2, <2>3, ch \in Children
<1>7. UNCHANGED <<exposed, policy, view, snap>>
  BY DEF Publish
<1>8. TypeOK'
  BY <1>3, <1>4, <1>5, <1>6, <1>7 DEF TypeOK
<1>9. ReaderInv'
  BY <1>6, <1>7 DEF ReaderInv
<1> QED BY <1>5, <1>8, <1>9

LEMMA ReaderTyped ==
  ASSUME TypedInv, NEW ch \in Children, Receive(ch) \/ Apply(ch) \/ Dies(ch)
  PROVE  TypedInv'
<1> USE DEF TypedInv
<1>1. CASE Receive(ch)
  <2>1. PICK e \in Elements(ch) : reader' = [reader EXCEPT ![ch] = [pc |-> "publish", el |-> e]]
    BY <1>1 DEF Receive
  <2>2. e \in Msgs /\ e.child = ch /\ (e.val = None <=> e.kind = "del")
    BY ElementsTyped
  <2> QED BY <1>1, <2>1, <2>2 DEF Receive, TypeOK, ReaderInv
<1>2. CASE Apply(ch)
  <2>1. Del(ch) \in Msgs /\ Del(ch).child = ch /\ Del(ch).val = None /\ Del(ch).kind = "del"
    BY DEF Del, Msgs
  <2>2. reader[ch].el.val \in Values \cup {None}
    BY DEF TypeOK, Msgs
  <2> QED BY <1>2, <2>1, <2>2 DEF Apply, TypeOK, ReaderInv
<1>3. CASE Dies(ch)
  <2>1. Del(ch) \in Msgs /\ Del(ch).child = ch /\ Del(ch).val = None /\ Del(ch).kind = "del"
    BY DEF Del, Msgs
  <2> QED BY <1>3, <2>1 DEF Dies, TypeOK, ReaderInv
<1> QED BY <1>1, <1>2, <1>3

LEMMA ReplaySendTyped ==
  ASSUME TypedInv, NEW c \in Clients, ReplaySend(c)
  PROVE  TypedInv'
<1> USE DEF TypedInv
<1> DEFINE r == replay[c]
           ch == Head(r.todo)
           m == [kind |-> "def", child |-> ch, val |-> r.val]
           sends == r.val # None /\ Wants(c, m)
<1>1. r.todo \in Seq(Children) /\ r.todo # <<>> /\ r.val \in Values \cup {None} /\ r.pc = "send"
  BY DEF ReplaySend, TypeOK
<1>2. ch \in Children /\ Tail(r.todo) \in Seq(Children)
  BY <1>1
<1>3. m \in Msgs
  BY <1>1, <1>2 DEF Msgs
<1>4. Send(IF sends THEN {c} ELSE {}, m)
  BY DEF ReplaySend
<1>5. /\ out' \in [Clients -> Seq(Msgs)] /\ \A x \in Clients : Len(out'[x]) <= QueueMessages
      /\ conn' \in [Clients -> {"none", "accepted", "open", "closed"}]
  BY <1>3, <1>4, SendEffect
<1>6. raced' \in [Clients -> SUBSET Children] /\ missed' \in [Clients -> SUBSET Children]
  BY <1>2 DEF ReplaySend, TypeOK
<1>7. /\ replay' \in [Clients -> [pc : {"idle", "child", "send"}, todo : Seq(Children),
                                  val : Values \cup {None}, old : BOOLEAN]]
      /\ \A x \in Clients : replay'[x].pc = "send" => x # c /\ replay'[x] = replay[x]
  BY <1>2 DEF ReplaySend, TypeOK, NoReplay
<1>8. UNCHANGED <<exposed, snap, reader, policy, view>>
  BY DEF ReplaySend
<1>9. TypeOK'
  BY <1>5, <1>6, <1>7, <1>8 DEF TypeOK
<1>10. ReaderInv'
  BY <1>8 DEF ReaderInv
<1> QED BY <1>7, <1>9, <1>10

LEMMA DeliverTyped ==
  ASSUME TypedInv, NEW c \in Clients, Deliver(c)
  PROVE  TypedInv'
<1> USE DEF TypedInv
<1> DEFINE m == Head(out[c])
<1>1. out[c] \in Seq(Msgs) /\ out[c] # <<>> /\ Len(out[c]) \in Nat /\ Len(out[c]) <= QueueMessages
  BY DEF Deliver, TypeOK
<1>2. m \in Msgs /\ Tail(out[c]) \in Seq(Msgs) /\ Len(Tail(out[c])) <= QueueMessages
  BY <1>1, IndiServeAssumption
<1>3. Device[m.child] \in Devices /\ m.val \in Values \cup {None}
  BY <1>2, IndiServeAssumption DEF Msgs
<1>4. out' \in [Clients -> Seq(Msgs)] /\ \A x \in Clients : Len(out'[x]) <= QueueMessages
  BY <1>2 DEF Deliver, TypeOK
<1>5. view' \in [Clients -> [Devices -> Values \cup {None}]]
  BY <1>3 DEF Deliver, TypeOK
<1>6. UNCHANGED <<exposed, snap, reader, conn, policy, replay, raced, missed>>
  BY DEF Deliver
<1>7. TypeOK'
  BY <1>4, <1>5, <1>6 DEF TypeOK
<1> QED BY <1>6, <1>7 DEF ReaderInv

LEMMA ConnectionTyped ==
  ASSUME TypedInv, NEW c \in Clients,
         \/ Accept(c) \/ Register(c) \/ Leave(c) \/ Forget(c)
         \/ \E p \in {"never", "also", "only"} : SetPolicy(c, p)
  PROVE  TypedInv'
<1> USE DEF TypedInv
<1>1. CASE Accept(c) \/ Register(c) \/ Leave(c)
  <2>1. UNCHANGED <<exposed, snap, reader, policy, out, view, replay, raced, missed>>
    BY <1>1 DEF Accept, Register, Leave
  <2>2. conn' \in [Clients -> {"none", "accepted", "open", "closed"}]
    BY <1>1 DEF Accept, Register, Leave, TypeOK
  <2>3. TypeOK'
    BY <2>1, <2>2 DEF TypeOK
  <2> QED BY <2>1, <2>3 DEF ReaderInv
<1>2. CASE Forget(c)
  <2>1. <<>> \in Seq(Msgs) /\ <<>> \in Seq(Children) /\ Len(<<>>) = 0 /\ 0 <= QueueMessages
    BY IndiServeAssumption
  <2>2. /\ out' \in [Clients -> Seq(Msgs)] /\ \A x \in Clients : Len(out'[x]) <= QueueMessages
    BY <1>2, <2>1 DEF Forget, Fresh, TypeOK
  <2>3. /\ replay' \in [Clients -> [pc : {"idle", "child", "send"}, todo : Seq(Children),
                                  val : Values \cup {None}, old : BOOLEAN]]
        /\ \A x \in Clients : replay'[x].pc = "send" => replay'[x] = replay[x]
    BY <1>2, <2>1 DEF Forget, Fresh, TypeOK, NoReplay
  <2>4. TypeOK'
    BY <1>2, <2>2, <2>3 DEF Forget, Fresh, TypeOK
  <2> QED BY <1>2, <2>3, <2>4 DEF Forget, ReaderInv
<1>3. ASSUME NEW p \in {"never", "also", "only"}, SetPolicy(c, p) PROVE TypedInv'
  BY <1>3 DEF SetPolicy, TypeOK, ReaderInv
<1> QED BY <1>1, <1>2, <1>3

LEMMA ReplayTyped ==
  ASSUME TypedInv, NEW c \in Clients, GetProperties(c) \/ ReplaySnapshot(c) \/ ReplayDone(c)
  PROVE  TypedInv'
<1> USE DEF TypedInv
<1>1. UNCHANGED <<exposed, snap, reader, conn, policy, out, view, raced, missed>>
  BY DEF GetProperties, ReplaySnapshot, ReplayDone
<1>2. /\ replay' \in [Clients -> [pc : {"idle", "child", "send"}, todo : Seq(Children),
                                  val : Values \cup {None}, old : BOOLEAN]]
      /\ \A x \in Clients : replay'[x].pc = "send" => replay'[x].todo # <<>>
  <2>1. exposed \in Seq(Children) /\ <<>> \in Seq(Children)
    BY IndiServeAssumption DEF TypeOK
  <2>2. CASE GetProperties(c)
    BY <2>1, <2>2 DEF GetProperties, TypeOK, NoReplay
  <2>3. CASE ReplaySnapshot(c)
    <3>1. Head(replay[c].todo) \in Children
      BY <2>3 DEF ReplaySnapshot, TypeOK
    <3> QED BY <2>3, <3>1 DEF ReplaySnapshot, TypeOK
  <2>4. CASE ReplayDone(c)
    BY <2>1, <2>4 DEF ReplayDone, TypeOK, NoReplay
  <2> QED BY <2>2, <2>3, <2>4
<1>3. TypeOK'
  BY <1>1, <1>2 DEF TypeOK
<1> QED BY <1>1, <1>2, <1>3 DEF ReaderInv

LEMMA TypedStep == TypedInv /\ [Next]_vars => TypedInv'
<1> SUFFICES ASSUME TypedInv, [Next]_vars PROVE TypedInv'
  OBVIOUS
<1>1. ASSUME NEW ch \in Children, ReadLoop(ch) PROVE TypedInv'
  BY <1>1, ReaderTyped, PublishTyped DEF ReadLoop, PublishElement, AnnounceGone
<1>2. ASSUME NEW c \in Clients, Client(c) PROVE TypedInv'
  BY <1>2, ConnectionTyped, ReplayTyped, ReplaySendTyped, DeliverTyped DEF Client
<1>3. ASSUME NEW sel \in Selections, SetChildren(sel) PROVE TypedInv'
  BY <1>3 DEF SetChildren, TypedInv, TypeOK, ReaderInv
<1>4. CASE UNCHANGED vars
  BY <1>4 DEF vars, TypedInv, TypeOK, ReaderInv
<1> QED BY <1>1, <1>2, <1>3, <1>4 DEF Next

(***************************************************************************)
(* Steps of a child's read loop.                                            *)
(***************************************************************************)
\* A client and a child that a step does not concern stay in step.
LEMMA SoundSame ==
  ASSUME NEW c \in Clients, NEW ch \in Children, Sound(c, ch),
         view'[c] = view[c], out'[c] = out[c], Announced(ch)' = Announced(ch),
         ch \in raced[c] => ch \in raced'[c],
         ch \in missed[c] => ch \in missed'[c]
  PROVE  Sound(c, ch)'
<1>2. Settles(c, ch, {None, Announced(ch)}) => Settles(c, ch, {None, Announced(ch)})'
  BY InTerms
<1>3. Settles(c, ch, {None}) => Settles(c, ch, {None})'
  BY InTerms
<1> QED BY <1>2, <1>3 DEF Sound

\* publish, client by client.
LEMMA PublishEffect ==
  ASSUME TypedInv, NEW ch \in Children, NEW p \in {"idle", "apply"}, Publish(ch, p),
         NEW c \in Clients
  PROVE  LET m == reader[ch].el IN
         /\ conn'[c] \in {"none", "accepted"} => conn'[c] = conn[c] /\ out'[c] = out[c]
         /\ conn'[c] = "open" => conn[c] = "open"
         /\ out'[c] = out[c] \/ (out'[c] = Append(out[c], m) /\ ch \in Exposed)
         /\ conn'[c] = "open" /\ ch \in Exposed /\ Wants(c, m) => out'[c] = Append(out[c], m)
         /\ conn'[c] = "open" /\ ~(ch \in Exposed /\ Wants(c, m)) => ch \in missed'[c]
         /\ \A x \in Children \ {ch} : (x \in raced'[c] <=> x \in raced[c])
                                       /\ (x \in missed'[c] <=> x \in missed[c])
<1> DEFINE m == reader[ch].el
           T == IF ch \in Exposed THEN Targets(m) ELSE {}
<1>1. m \in Msgs /\ TypeOK
  BY DEF TypedInv, TypeOK
<1>2. Send(T, m)
  BY DEF Publish
<1>3. /\ c \notin T => out'[c] = out[c] /\ conn'[c] = conn[c]
      /\ c \in T => \/ conn'[c] = "closed" /\ out'[c] = out[c]
                    \/ conn'[c] = conn[c] /\ out'[c] = Append(out[c], m)
  BY <1>1, <1>2, SendEffect
<1>4. c \in T <=> ch \in Exposed /\ conn[c] = "open" /\ Wants(c, m)
  BY DEF Targets
<1>5. /\ c \notin T => ch \in missed'[c]
      /\ \A x \in Children \ {ch} : (x \in raced'[c] <=> x \in raced[c])
                                    /\ (x \in missed'[c] <=> x \in missed[c])
  BY DEF Publish
<1> HIDE DEF T, m
<1> QED BY <1>3, <1>4, <1>5 DEF m

LEMMA PublishKeeps ==
  ASSUME IndInv, NEW ch \in Children, NEW p \in {"idle", "apply"}, Publish(ch, p), UNCHANGED snap,
         Announced(ch)' = reader[ch].el.val
  PROVE  FreshInv' /\ TodoExposed' /\ SelectionIsFresh' /\ ReplayInv' /\ FollowInv'
<1> DEFINE m == reader[ch].el
<1>1. TypedInv /\ TypeOK /\ m \in Msgs /\ m.child = ch /\ (m.val = None <=> m.kind = "del")
  BY DEF IndInv, TypedInv, TypeOK, ReaderInv
<1>2. /\ UNCHANGED <<exposed, policy, view, snap>> /\ Exposed' = Exposed
      /\ \A x \in Children : x # ch => reader'[x] = reader[x] /\ Announced(x)' = Announced(x)
  BY <1>1 DEF Publish, Exposed, Announced, TypeOK
<1>3. \A c \in Clients :
        /\ replay'[c].pc = replay[c].pc /\ replay'[c].todo = replay[c].todo
        /\ replay'[c].val = replay[c].val /\ (replay[c].old => replay'[c].old)
        /\ replay[c].pc = "send" /\ Head(replay[c].todo) = ch => replay'[c].old
  BY <1>1 DEF Publish, TypeOK
<1>4. FreshInv'
  BY <1>1, <1>2, <1>3, PublishEffect DEF IndInv, FreshInv
<1>5. TodoExposed'
  BY <1>1, <1>2, <1>3, PublishEffect DEF IndInv, TodoExposed
<1>6. SelectionIsFresh'
  <2> SUFFICES ASSUME NEW c \in Clients, conn'[c] = "open"
               PROVE  /\ \A i \in 1..Len(out'[c]) : out'[c][i].child \in Exposed
                      /\ \A d \in Devices : (\A x \in Exposed : Device[x] # d) => view'[c][d] = None
    BY <1>2 DEF SelectionIsFresh
  <2>1. /\ \A i \in 1..Len(out[c]) : out[c][i].child \in Exposed
        /\ \A d \in Devices : (\A x \in Exposed : Device[x] # d) => view[c][d] = None
    BY <1>1, PublishEffect DEF IndInv, SelectionIsFresh
  <2>2. out[c] \in Seq(Msgs)
    BY <1>1 DEF TypeOK
  <2>3. out'[c] = out[c] \/ (out'[c] = Append(out[c], m) /\ ch \in Exposed)
    BY <1>1, PublishEffect
  <2> HIDE DEF m
  <2> QED BY <1>1, <1>2, <2>1, <2>2, <2>3
<1>7. ReplayInv'
  BY <1>2, <1>3 DEF IndInv, ReplayInv
<1>8. FollowInv'
  <2> SUFFICES ASSUME NEW c \in Clients, NEW x \in Children, Follows(c, x)' PROVE Sound(c, x)'
    BY DEF FollowInv
  <2>0. out[c] \in Seq(Msgs)
    BY <1>1 DEF TypeOK
  <2>1. conn'[c] = "open" /\ x \in Exposed
    BY <1>2 DEF Follows
  <2>2. CASE x # ch
    <3>1. Follows(c, x)
      BY <1>1, <1>2, <2>1, <2>2, PublishEffect DEF Follows
    <3>2. Sound(c, x)
      BY <3>1 DEF IndInv, FollowInv
    <3>3. (x \in raced'[c] <=> x \in raced[c]) /\ (x \in missed'[c] <=> x \in missed[c])
      BY <1>1, <2>2, PublishEffect
    <3>4. CASE out'[c] = out[c]
      BY <1>2, <2>2, <3>2, <3>3, <3>4, SoundSame
    <3>5. CASE out'[c] = Append(out[c], m)
      <4>1. \A V : Ends(view[c][Device[x]], out[c], x, V) => Ends(view[c][Device[x]], out'[c], x, V)
        BY <1>1, <2>0, <2>2, <3>5, EndsOther
      <4> QED BY <1>2, <2>2, <3>2, <3>3, <4>1, InTerms DEF Sound
    <3> QED BY <1>1, <3>4, <3>5, PublishEffect
  <2>3. CASE x = ch
    <3>1. CASE Wants(c, m)
      <4>1. out'[c] = Append(out[c], m)
        BY <1>1, <2>1, <2>3, <3>1, PublishEffect
      <4>2. /\ Ends(view'[c][Device[ch]], out'[c], ch, {None, m.val})
            /\ m.kind # "set" => Ends(view'[c][Device[ch]], out'[c], ch, {m.val})
        BY <1>1, <2>0, <4>1, EndsOwn
      <4>3. Settles(c, ch, {None, Announced(ch)})'
        BY <4>2, InTerms
      <4>4. Announced(ch)' = None => Settles(c, ch, {None})'
        BY <1>1, <4>2, InTerms
      <4> QED BY <2>3, <4>3, <4>4 DEF Sound
    <3>2. CASE ~Wants(c, m)
      <4>1. ch \in missed'[c]
        BY <1>1, <2>1, <3>2, PublishEffect
      <4>2. m.val # None
        BY <1>1, <3>2 DEF Wants
      <4> QED BY <2>3, <4>1, <4>2 DEF Sound
    <3> QED BY <3>1, <3>2
  <2> QED BY <2>2, <2>3
<1> QED BY <1>4, <1>5, <1>6, <1>7, <1>8

\* Receive, Apply and Dies concern no client; what the child announced stays, or
\* its end is about to be announced.
LEMMA ReaderKeeps ==
  ASSUME IndInv, NEW ch \in Children, Receive(ch) \/ Apply(ch) \/ Dies(ch)
  PROVE  FreshInv' /\ TodoExposed' /\ SelectionIsFresh' /\ ReplayInv' /\ FollowInv'
<1>1. TypedInv /\ TypeOK
  BY DEF IndInv, TypedInv
<1>2. UNCHANGED <<exposed, conn, policy, out, view, replay, raced, missed>> /\ Exposed' = Exposed
  BY DEF Receive, Apply, Dies, Exposed
<1>3. \A x \in Children : reader'[x].pc # "gone" =>
        reader[x].pc # "gone" /\ Announced(x)' = Announced(x)
  BY <1>1 DEF Receive, Apply, Dies, Announced, TypeOK
<1>4. FreshInv' /\ TodoExposed' /\ SelectionIsFresh'
  BY <1>2 DEF IndInv, FreshInv, TodoExposed, SelectionIsFresh
<1>5. ReplayInv'
  BY <1>2, <1>3 DEF IndInv, ReplayInv
<1>6. FollowInv'
  <2> SUFFICES ASSUME NEW c \in Clients, NEW x \in Children, Follows(c, x)' PROVE Sound(c, x)'
    BY DEF FollowInv
  <2>1. Follows(c, x) /\ Announced(x)' = Announced(x)
    BY <1>2, <1>3 DEF Follows
  <2> QED BY <1>2, <2>1, SoundSame DEF IndInv, FollowInv
<1> QED BY <1>4, <1>5, <1>6

LEMMA ReadLoopKeeps ==
  ASSUME IndInv, NEW ch \in Children, ReadLoop(ch)
  PROVE  FreshInv' /\ TodoExposed' /\ SelectionIsFresh' /\ ReplayInv' /\ FollowInv'
<1>1. CASE PublishElement(ch)
  <2>1. Announced(ch)' = reader[ch].el.val
    BY <1>1 DEF PublishElement, Publish, Announced, IndInv, TypedInv, TypeOK
  <2> QED BY <1>1, <2>1, PublishKeeps DEF PublishElement
<1>2. CASE AnnounceGone(ch)
  <2>1. Announced(ch)' = reader[ch].el.val
    BY <1>2 DEF AnnounceGone, Publish, Announced, IndInv, TypedInv, TypeOK, ReaderInv
  <2> QED BY <1>2, <2>1, PublishKeeps DEF AnnounceGone
<1> QED BY <1>1, <1>2, ReaderKeeps DEF ReadLoop

(***************************************************************************)
(* Steps of a client's goroutines, and SetChildren.                         *)
(***************************************************************************)
\* A client that has just been registered starts from nothing.
LEMMA SoundFresh ==
  ASSUME NEW c \in Clients, NEW ch \in Children, out'[c] = <<>>, view'[c][Device[ch]] = None
  PROVE  Sound(c, ch)'
<1>1. Ends(view'[c][Device[ch]], out'[c], ch, {None})
  BY EndsEmpty
<1>2. Settles(c, ch, {None})' /\ Settles(c, ch, {None, Announced(ch)})'
  BY <1>1, InTerms, EndsMore
<1> QED BY <1>2 DEF Sound

LEMMA ConnectionKeeps ==
  ASSUME IndInv, NEW c \in Clients,
         \/ Accept(c) \/ Register(c) \/ Leave(c) \/ Forget(c)
         \/ \E p \in {"never", "also", "only"} : SetPolicy(c, p)
  PROVE  FreshInv' /\ TodoExposed' /\ SelectionIsFresh' /\ ReplayInv' /\ FollowInv'
<1>1. TypedInv /\ TypeOK
  BY DEF IndInv, TypedInv
<1>2. /\ UNCHANGED <<exposed, snap, reader>> /\ Exposed' = Exposed
      /\ \A x \in Children : Announced(x)' = Announced(x)
  BY DEF Accept, Register, Leave, Forget, SetPolicy, Exposed, Announced
<1>3. \A x \in Clients \ {c} : /\ conn'[x] = conn[x] /\ out'[x] = out[x] /\ view'[x] = view[x]
                               /\ replay'[x] = replay[x] /\ raced'[x] = raced[x]
                               /\ missed'[x] = missed[x]
  BY <1>1 DEF Accept, Register, Leave, Forget, SetPolicy, Fresh, TypeOK
<1>4. \/ /\ conn[c] = "accepted" /\ conn'[c] = "open"
         /\ UNCHANGED <<out, view, replay, raced, missed>>
      \/ /\ conn'[c] = "none" /\ out'[c] = <<>> /\ replay'[c] = NoReplay
         /\ \A d \in Devices : view'[c][d] = None
      \/ /\ conn[c] = "none" /\ conn'[c] = "accepted"
         /\ UNCHANGED <<out, view, replay, raced, missed>>
      \/ /\ conn'[c] = "closed" /\ UNCHANGED <<out, view, replay, raced, missed>>
      \/ /\ conn[c] = "open" /\ conn'[c] = "open" /\ UNCHANGED <<out, view, replay, raced, missed>>
  BY <1>1 DEF Accept, Register, Leave, Forget, SetPolicy, Fresh, TypeOK
<1>5. FreshInv'
  BY <1>3, <1>4 DEF IndInv, FreshInv, NoReplay
<1>6. TodoExposed'
  BY <1>2, <1>3, <1>4 DEF IndInv, TodoExposed, FreshInv
<1>7. SelectionIsFresh'
  <2> SUFFICES ASSUME NEW x \in Clients, conn'[x] = "open"
               PROVE  /\ \A i \in 1..Len(out'[x]) : out'[x][i].child \in Exposed
                      /\ \A d \in Devices : (\A ch \in Exposed : Device[ch] # d) => view'[x][d] = None
    BY <1>2 DEF SelectionIsFresh
  <2>1. CASE conn[x] = "open"
    BY <1>3, <1>4, <2>1 DEF IndInv, SelectionIsFresh
  <2>2. CASE conn[x] # "open"
    <3>1. out'[x] = <<>> /\ \A d \in Devices : view'[x][d] = None
      BY <1>3, <1>4, <2>2 DEF IndInv, FreshInv
    <3> QED BY <3>1
  <2> QED BY <2>1, <2>2
<1>8. ReplayInv'
  <2>1. \A x \in Clients : replay'[x] = replay[x] \/ replay'[x].pc = "idle"
    BY <1>3, <1>4 DEF NoReplay
  <2> QED BY <1>2, <2>1 DEF IndInv, ReplayInv
<1>9. FollowInv'
  <2> SUFFICES ASSUME NEW x \in Clients, NEW ch \in Children, Follows(x, ch)' PROVE Sound(x, ch)'
    BY DEF FollowInv
  <2>1. conn'[x] = "open"
    BY DEF Follows
  <2>2. CASE conn[x] = "open"
    <3>1. Follows(x, ch)
      BY <1>2, <2>2 DEF Follows
    <3>2. /\ view'[x] = view[x] /\ out'[x] = out[x] /\ raced'[x] = raced[x] /\ missed'[x] = missed[x]
      BY <1>3, <1>4, <2>1, <2>2
    <3> QED BY <1>2, <3>1, <3>2, SoundSame DEF IndInv, FollowInv
  <2>3. CASE conn[x] # "open"
    <3>1. out'[x] = <<>> /\ \A d \in Devices : view'[x][d] = None
      BY <1>3, <1>4, <2>1, <2>3 DEF IndInv, FreshInv
    <3>2. Device[ch] \in Devices
      BY IndiServeAssumption
    <3> QED BY <3>1, <3>2, SoundFresh
  <2> QED BY <2>2, <2>3
<1> QED BY <1>5, <1>6, <1>7, <1>8, <1>9

LEMMA SelectionKeeps ==
  ASSUME IndInv, NEW sel \in Selections, SetChildren(sel)
  PROVE  FreshInv' /\ TodoExposed' /\ SelectionIsFresh' /\ ReplayInv' /\ FollowInv'
<1>1. \A c \in Clients : conn'[c] # "open" /\ (conn'[c] \in {"none", "accepted"} => conn'[c] = conn[c])
  BY DEF SetChildren
<1>2. UNCHANGED <<snap, reader, policy, out, view, replay, raced, missed>>
  BY DEF SetChildren
<1>3. \A x \in Children : Announced(x)' = Announced(x)
  BY <1>2 DEF Announced
<1> QED BY <1>1, <1>2, <1>3 DEF IndInv, FreshInv, TodoExposed, SelectionIsFresh, ReplayInv, FollowInv, Follows

\* What a client reads changes what it believes now, not where it ends.
LEMMA DeliverKeeps ==
  ASSUME IndInv, NEW c \in Clients, Deliver(c)
  PROVE  FreshInv' /\ TodoExposed' /\ SelectionIsFresh' /\ ReplayInv' /\ FollowInv'
<1> DEFINE m == Head(out[c])
           d == Device[m.child]
<1>1. TypedInv /\ TypeOK /\ conn[c] = "open"
  BY DEF IndInv, TypedInv, Deliver
<1>2. /\ UNCHANGED <<exposed, snap, reader, conn, policy, replay, raced, missed>> /\ Exposed' = Exposed
      /\ \A x \in Children : Announced(x)' = Announced(x)
  BY DEF Deliver, Exposed, Announced
<1>3. \A x \in Clients \ {c} : out'[x] = out[x] /\ view'[x] = view[x]
  BY <1>1 DEF Deliver, TypeOK
<1>4. /\ out[c] \in Seq(Msgs) /\ out[c] # <<>> /\ out'[c] = Tail(out[c])
      /\ view[c] \in [Devices -> Vals]
  BY <1>1 DEF Deliver, TypeOK, Vals
<1>5. m \in Msgs /\ m = out[c][1] /\ 1 \in 1..Len(out[c])
  BY <1>4
<1>6. m.child \in Exposed /\ m.child \in Children /\ d \in Devices
  BY <1>1, <1>5, IndiServeAssumption DEF IndInv, SelectionIsFresh, Msgs
<1>7. view'[c] = [view[c] EXCEPT ![d] = IF m.kind = "set" /\ @ = None THEN None ELSE m.val]
  BY <1>1 DEF Deliver, TypeOK
<1>8. FreshInv' /\ TodoExposed' /\ ReplayInv'
  BY <1>1, <1>2, <1>3 DEF IndInv, FreshInv, TodoExposed, ReplayInv
<1> HIDE DEF m, d
<1>9. SelectionIsFresh'
  <2> SUFFICES ASSUME NEW x \in Clients, conn[x] = "open"
               PROVE  /\ \A i \in 1..Len(out'[x]) : out'[x][i].child \in Exposed
                      /\ \A e \in Devices : (\A ch \in Exposed : Device[ch] # e) => view'[x][e] = None
    BY <1>2 DEF SelectionIsFresh
  <2>1. /\ \A i \in 1..Len(out[x]) : out[x][i].child \in Exposed
        /\ \A e \in Devices : (\A ch \in Exposed : Device[ch] # e) => view[x][e] = None
    BY DEF IndInv, SelectionIsFresh
  <2>2. CASE x # c
    BY <1>3, <2>1, <2>2
  <2>3. CASE x = c
    <3>1. \A i \in 1..Len(out'[c]) : i + 1 \in 1..Len(out[c]) /\ out'[c][i] = out[c][i + 1]
      BY <1>4
    <3>2. \A e \in Devices : (\A ch \in Exposed : Device[ch] # e) => e # d
      BY <1>6 DEF d
    <3>3. \A e \in Devices : e # d => view'[c][e] = view[c][e]
      BY <1>4, <1>7
    <3> QED BY <2>1, <2>3, <3>1, <3>2, <3>3
  <2> QED BY <2>2, <2>3
<1>10. FollowInv'
  <2> SUFFICES ASSUME NEW x \in Clients, NEW ch \in Children, Follows(x, ch)' PROVE Sound(x, ch)'
    BY DEF FollowInv
  <2>1. Follows(x, ch) /\ Sound(x, ch)
    BY <1>2 DEF Follows, IndInv, FollowInv
  <2>2. CASE x # c
    BY <1>2, <1>3, <2>1, <2>2, SoundSame
  <2>3. CASE x = c
    <3>1. view'[c][Device[ch]] = Step(view[c][Device[ch]], m, ch) /\ view[c][Device[ch]] \in Vals
      <4>1. Device[ch] \in Devices
        BY IndiServeAssumption
      <4>2. CASE m.child = ch
        BY <1>4, <1>7, <4>1, <4>2 DEF Step, d
      <4>3. CASE m.child # ch
        <5>1. Device[ch] # d
          BY <1>6, <2>1, <4>3 DEF Follows, d
        <5> QED BY <1>4, <1>7, <4>1, <4>3, <5>1 DEF Step
      <4> QED BY <4>2, <4>3
    <3>2. \A V : Ends(view[c][Device[ch]], out[c], ch, V) => Ends(view'[c][Device[ch]], out'[c], ch, V)
      BY <1>4, <3>1, EndsTail DEF m
    <3> QED BY <1>2, <2>1, <2>3, <3>2, InTerms DEF Sound
  <2> QED BY <2>2, <2>3
<1> QED BY <1>8, <1>9, <1>10

\* Starting and ending a replay, and taking a child's snapshot, tell the client
\* nothing.
LEMMA ReplayKeeps ==
  ASSUME IndInv, NEW c \in Clients, GetProperties(c) \/ ReplaySnapshot(c) \/ ReplayDone(c)
  PROVE  FreshInv' /\ TodoExposed' /\ SelectionIsFresh' /\ ReplayInv' /\ FollowInv'
<1>1. TypedInv /\ TypeOK /\ conn[c] = "open"
  BY DEF IndInv, TypedInv, GetProperties, ReplaySnapshot, ReplayDone
<1>2. /\ UNCHANGED <<exposed, snap, reader, conn, policy, out, view, raced, missed>>
      /\ Exposed' = Exposed
      /\ \A x \in Children : Announced(x)' = Announced(x)
  BY DEF GetProperties, ReplaySnapshot, ReplayDone, Exposed, Announced
<1>3. \A x \in Clients \ {c} : replay'[x] = replay[x]
  BY <1>1 DEF GetProperties, ReplaySnapshot, ReplayDone, TypeOK
<1>4. exposed \in Seq(Children) /\ \A i \in 1..Len(exposed) : exposed[i] \in Exposed
  BY <1>1, IndiServeAssumption DEF TypeOK, Exposed, ToSet
<1>5. \/ replay'[c].pc = "child" /\ replay'[c].todo = exposed
      \/ /\ replay[c].pc = "child" /\ replay'[c].pc = "send" /\ replay'[c].todo = replay[c].todo
         /\ replay'[c].val = snap[Head(replay[c].todo)]
         /\ replay'[c].old = (reader[Head(replay[c].todo)].pc = "apply")
      \/ replay'[c].pc = "idle"
  <2>1. CASE GetProperties(c)
    BY <1>1, <2>1 DEF GetProperties, NoReplay, TypeOK
  <2>2. CASE ReplaySnapshot(c)
    BY <1>1, <2>2 DEF ReplaySnapshot, TypeOK
  <2>3. CASE ReplayDone(c)
    BY <1>1, <2>3 DEF ReplayDone, NoReplay, TypeOK
  <2> QED BY <2>1, <2>2, <2>3
<1>6. FreshInv'
  BY <1>1, <1>2, <1>3 DEF IndInv, FreshInv
<1>7. TodoExposed'
  <2> SUFFICES ASSUME NEW x \in Clients, conn[x] = "open", replay'[x].pc # "idle",
                      NEW i \in 1..Len(replay'[x].todo)
               PROVE  replay'[x].todo[i] \in Exposed
    BY <1>2 DEF TodoExposed
  <2>1. CASE x # c
    BY <1>3, <2>1 DEF IndInv, TodoExposed
  <2>2. CASE x = c
    BY <1>4, <1>5, <2>2 DEF IndInv, TodoExposed
  <2> QED BY <2>1, <2>2
<1>8. SelectionIsFresh'
  BY <1>2 DEF IndInv, SelectionIsFresh
<1>9. ReplayInv'
  <2> SUFFICES ASSUME NEW x \in Clients, NEW ch \in Children, replay'[x].pc = "send",
                      ~replay'[x].old, Head(replay'[x].todo) = ch, reader[ch].pc # "gone"
               PROVE  replay'[x].val = Announced(ch)
    BY <1>2 DEF ReplayInv
  <2>1. CASE x # c
    BY <1>3, <2>1 DEF IndInv, ReplayInv
  <2>2. CASE x = c
    BY <1>5, <2>2 DEF Announced
  <2> QED BY <2>1, <2>2
<1>10. FollowInv'
  <2> SUFFICES ASSUME NEW x \in Clients, NEW ch \in Children, Follows(x, ch)' PROVE Sound(x, ch)'
    BY DEF FollowInv
  <2>1. Sound(x, ch)
    BY <1>2 DEF Follows, IndInv, FollowInv
  <2> QED BY <1>2, <2>1, SoundSame
<1> QED BY <1>6, <1>7, <1>8, <1>9, <1>10

\* A snapshot that is sent is what the child last announced, or is marked as
\* outdated.
LEMMA ReplaySendKeeps ==
  ASSUME IndInv, NEW c \in Clients, ReplaySend(c)
  PROVE  FreshInv' /\ TodoExposed' /\ SelectionIsFresh' /\ ReplayInv' /\ FollowInv'
<1> DEFINE r == replay[c]
           ch == Head(r.todo)
           m == [kind |-> "def", child |-> ch, val |-> r.val]
           sends == r.val # None /\ Wants(c, m)
<1>1. TypedInv /\ TypeOK /\ conn[c] = "open" /\ r.pc = "send"
  BY DEF IndInv, TypedInv, ReplaySend
<1>2. r.todo \in Seq(Children) /\ r.todo # <<>> /\ r.val \in Values \cup {None}
  BY <1>1 DEF TypedInv, TypeOK
<1>3. ch \in Children /\ ch = r.todo[1] /\ 1 \in 1..Len(r.todo)
  BY <1>2
<1>4. ch \in Exposed
  BY <1>1, <1>3 DEF IndInv, TodoExposed
<1>5. m \in Msgs /\ m.child = ch /\ m.kind # "set" /\ m.val = r.val
  BY <1>2, <1>3 DEF Msgs
<1>6. /\ UNCHANGED <<exposed, snap, reader, policy, view>> /\ Exposed' = Exposed
      /\ \A x \in Children : Announced(x)' = Announced(x)
  BY DEF ReplaySend, Exposed, Announced
<1>7. Send(IF sends THEN {c} ELSE {}, m)
  BY DEF ReplaySend
<1>8. /\ \A x \in Clients \ {c} : out'[x] = out[x] /\ conn'[x] = conn[x]
      /\ ~sends => out'[c] = out[c] /\ conn'[c] = conn[c]
      /\ sends => \/ conn'[c] = "closed" /\ out'[c] = out[c]
                  \/ conn'[c] = conn[c] /\ out'[c] = Append(out[c], m)
  BY <1>1, <1>5, <1>7, SendEffect
<1>9. /\ \A x \in Clients \ {c} : raced'[x] = raced[x] /\ missed'[x] = missed[x]
                                  /\ replay'[x] = replay[x]
      /\ ~sends => raced' = raced /\ missed' = missed
      /\ sends => raced'[c] = IF r.old THEN raced[c] \cup {ch} ELSE raced[c] \ {ch}
      /\ sends => missed'[c] = missed[c] \ {ch}
      /\ replay'[c].pc = "child" /\ replay'[c].todo = Tail(r.todo)
  BY <1>1 DEF ReplaySend, NoReplay, TypeOK
<1> HIDE DEF sends, m, ch, r
<1>10. FreshInv'
  <2>1. \A x \in Clients : conn'[x] \in {"none", "accepted"} => x # c
    BY <1>1, <1>8
  <2> QED BY <1>6, <1>8, <1>9, <2>1 DEF IndInv, FreshInv
<1>11. TodoExposed'
  <2> SUFFICES ASSUME NEW x \in Clients, conn'[x] = "open", replay'[x].pc # "idle",
                      NEW i \in 1..Len(replay'[x].todo)
               PROVE  replay'[x].todo[i] \in Exposed
    BY <1>6 DEF TodoExposed
  <2>1. CASE x # c
    BY <1>8, <1>9, <2>1 DEF IndInv, TodoExposed
  <2>2. CASE x = c
    <3>1. i + 1 \in 1..Len(r.todo) /\ Tail(r.todo)[i] = r.todo[i + 1]
      <4>1. i \in 1..Len(Tail(r.todo))
        BY <1>9, <2>2
      <4> QED BY ONLY <1>2, <4>1
    <3>2. r.todo[i + 1] \in Exposed
      BY <1>1, <3>1 DEF IndInv, TodoExposed, r
    <3> QED BY <1>9, <2>2, <3>1, <3>2
  <2> QED BY <2>1, <2>2
<1>12. SelectionIsFresh'
  <2> SUFFICES ASSUME NEW x \in Clients, conn'[x] = "open"
               PROVE  /\ \A i \in 1..Len(out'[x]) : out'[x][i].child \in Exposed
                      /\ \A d \in Devices : (\A k \in Exposed : Device[k] # d) => view'[x][d] = None
    BY <1>6 DEF SelectionIsFresh
  <2>1. conn[x] = "open"
    BY <1>1, <1>8
  <2>2. /\ \A i \in 1..Len(out[x]) : out[x][i].child \in Exposed
        /\ \A d \in Devices : (\A k \in Exposed : Device[k] # d) => view[x][d] = None
    BY <2>1 DEF IndInv, SelectionIsFresh
  <2>3. out[x] \in Seq(Msgs) /\ (out'[x] = out[x] \/ out'[x] = Append(out[x], m))
    BY <1>1, <1>8 DEF TypeOK
  <2> QED BY <1>4, <1>5, <1>6, <2>2, <2>3
<1>13. ReplayInv'
  <2> SUFFICES ASSUME NEW x \in Clients, NEW k \in Children, replay'[x].pc = "send",
                      ~replay'[x].old, Head(replay'[x].todo) = k, reader[k].pc # "gone"
               PROVE  replay'[x].val = Announced(k)
    BY <1>6 DEF ReplayInv
  <2>1. replay'[x] = replay[x]
    BY <1>9
  <2> QED BY <2>1 DEF IndInv, ReplayInv
<1>14. FollowInv'
  <2> SUFFICES ASSUME NEW x \in Clients, NEW k \in Children, Follows(x, k)' PROVE Sound(x, k)'
    BY DEF FollowInv
  <2>1. Follows(x, k) /\ conn'[x] = "open"
    BY <1>1, <1>6, <1>8 DEF Follows
  <2>2. Sound(x, k) /\ reader[k].pc # "gone"
    BY <2>1 DEF IndInv, FollowInv, Follows
  <2>3. CASE x # c \/ ~sends
    BY <1>6, <1>8, <1>9, <2>2, <2>3, SoundSame
  <2>4. CASE x = c /\ sends
    <3>1. out'[c] = Append(out[c], m) /\ out[c] \in Seq(Msgs)
      BY <1>1, <1>8, <2>1, <2>4 DEF TypeOK
    <3>2. CASE k # ch
      <4>1. \A V : Ends(view[c][Device[k]], out[c], k, V) => Ends(view[c][Device[k]], out'[c], k, V)
        BY <1>5, <3>1, <3>2, EndsOther
      <4>2. (k \in raced'[c] <=> k \in raced[c]) /\ (k \in missed'[c] <=> k \in missed[c])
        BY <1>9, <2>4, <3>2
      <4> QED BY <1>6, <2>2, <2>4, <4>1, <4>2, InTerms DEF Sound
    <3>3. CASE k = ch /\ r.old
      <4>1. ch \in raced'[c]
        BY <1>9, <2>4, <3>3
      <4> QED BY <2>4, <3>3, <4>1 DEF Sound
    <3>4. CASE k = ch /\ ~r.old
      <4>1. m.val = Announced(k)
        BY <1>1, <1>3, <1>5, <2>2, <3>4 DEF IndInv, ReplayInv, r, ch
      <4>2. m.val # None
        BY <1>5, <2>4 DEF sends
      <4>3. Ends(view'[c][Device[k]], out'[c], k, {None, m.val})
        BY <1>5, <3>1, <3>4, EndsOwn
      <4>4. Announced(k)' = m.val
        BY <1>6, <4>1
      <4>5. Settles(c, k, {None, Announced(k)})'
        BY <4>3, <4>4, InTerms
      <4> QED BY <2>4, <4>2, <4>4, <4>5 DEF Sound
    <3> QED BY <3>2, <3>3, <3>4
  <2> QED BY <2>3, <2>4
<1> QED BY <1>10, <1>11, <1>12, <1>13, <1>14

(***************************************************************************)
(* The specification.                                                       *)
(***************************************************************************)
LEMMA InitIndInv == Init => IndInv
<1> SUFFICES ASSUME Init PROVE IndInv
  OBVIOUS
<1>1. TypeOK
  BY IndiServeAssumption DEF Init, TypeOK, Del, Msgs, NoReplay
<1>2. ReaderInv /\ \A c \in Clients : conn[c] = "none" /\ replay[c].pc = "idle"
  BY DEF Init, ReaderInv, Del, NoReplay
<1>3. FreshInv
  BY <1>2 DEF FreshInv, Init
<1> QED BY <1>1, <1>2, <1>3
  DEF IndInv, TypedInv, TodoExposed, SelectionIsFresh, ReplayInv, FollowInv, Follows

LEMMA NextIndInv == IndInv /\ [Next]_vars => IndInv'
<1> SUFFICES ASSUME IndInv, [Next]_vars PROVE IndInv'
  OBVIOUS
<1>1. TypedInv'
  BY TypedStep DEF IndInv
<1> DEFINE Rest == FreshInv' /\ TodoExposed' /\ SelectionIsFresh' /\ ReplayInv' /\ FollowInv'
<1>2. ASSUME NEW ch \in Children, ReadLoop(ch) PROVE Rest
  BY <1>2, ReadLoopKeeps
<1>3. ASSUME NEW c \in Clients, Client(c) PROVE Rest
  BY <1>3, ConnectionKeeps, DeliverKeeps, ReplayKeeps, ReplaySendKeeps DEF Client
<1>4. ASSUME NEW sel \in Selections, SetChildren(sel) PROVE Rest
  BY <1>4, SelectionKeeps
<1>5. ASSUME UNCHANGED vars PROVE Rest
  <2>1. UNCHANGED <<exposed, snap, reader, conn, policy, out, view, replay, raced, missed>>
    BY <1>5 DEF vars
  <2>2. Exposed' = Exposed /\ \A x \in Children : Announced(x)' = Announced(x)
    BY <2>1 DEF Exposed, Announced
  <2>3. FreshInv' /\ TodoExposed' /\ SelectionIsFresh' /\ ReplayInv'
    BY <2>1, <2>2 DEF IndInv, FreshInv, TodoExposed, SelectionIsFresh, ReplayInv
  <2>4. FollowInv'
    <3> SUFFICES ASSUME NEW c \in Clients, NEW x \in Children, Follows(c, x)' PROVE Sound(c, x)'
      BY DEF FollowInv
    <3>1. Sound(c, x)
      BY <2>1, <2>2 DEF Follows, IndInv, FollowInv
    <3> QED BY <2>1, <2>2, <3>1, SoundSame
  <2> QED BY <2>3, <2>4
<1>6. Rest
  BY <1>2, <1>3, <1>4, <1>5 DEF Next
<1> QED BY <1>1, <1>6 DEF IndInv

\* The parts of the invariant hold together, whatever children, clients and
\* selections there are.
THEOREM IndiServeInductive == Spec => []IndInv
BY InitIndInv, NextIndInv, PTL DEF Spec

\* No queue is longer than its limit, and a replay and a read loop carry what they
\* say they carry.
THEOREM IndiServeTyped == Spec => []TypeOK
<1>1. IndInv => TypeOK
  BY DEF IndInv, TypedInv
<1> QED BY <1>1, IndiServeInductive, PTL

\* A connected client that was sent no outdated snapshot, and whose policy filtered
\* nothing out, ends up with the value the driver last sent.
THEOREM FollowsTheDriver == Spec => []ClientFollowsChild
<1>1. IndInv => ClientFollowsChild
  BY DEF IndInv, FollowInv, Sound, ClientFollowsChild
<1> QED BY <1>1, IndiServeInductive, PTL

\* Such a client keeps nothing of a device that its driver deleted or took with it
\* when it died, whatever its policy.
THEOREM ForgetsTheDead == Spec => []ClientForgetsDead
<1>1. IndInv => ClientForgetsDead
  BY DEF IndInv, FollowInv, Sound, ClientForgetsDead
<1> QED BY <1>1, IndiServeInductive, PTL

\* SetChildren leaves no connected client with a device, or a queued element, of a
\* child that is not selected.
THEOREM SelectionHolds == Spec => []SelectionIsFresh
<1>1. IndInv => SelectionIsFresh
  BY DEF IndInv
<1> QED BY <1>1, IndiServeInductive, PTL

(***************************************************************************)
(* Settles speaks of all readings of a queue.  There always is one: every   *)
(* rest of the queue can be read from every value, which is kept when a     *)
(* message is appended and when one is taken.                               *)
(***************************************************************************)
RestReading(b, v, s, k, ch) ==
  /\ b \in [k..Len(s) -> Vals] /\ b[k] = v
  /\ \A i \in (k + 1)..Len(s) : b[i] = Step(b[i - 1], s[i], ch)

Readable(s, ch) == \A k \in 0..Len(s), v \in Vals : \E b : RestReading(b, v, s, k, ch)

ReadableInv == \A c \in Clients, ch \in Children : Readable(out[c], ch)

LEMMA StepTyped ==
  ASSUME NEW v \in Vals, NEW m \in Msgs, NEW ch PROVE Step(v, m, ch) \in Vals
BY DEF Step, Vals, Msgs

\* A reading that starts at the end of the queue has nothing to read.
LEMMA RestEmpty ==
  ASSUME NEW n \in Nat, NEW s, Len(s) = n, NEW v \in Vals, NEW ch
  PROVE  \E b : RestReading(b, v, s, n, ch)
<1> DEFINE b == [i \in n..n |-> v]
<1>1. b \in [n..n -> Vals] /\ b[n] = v
  OBVIOUS
<1>2. RestReading(b, v, s, n, ch)
  BY <1>1 DEF RestReading
<1> QED BY <1>2

LEMMA ReadableAppend ==
  ASSUME NEW s \in Seq(Msgs), NEW m \in Msgs, NEW ch, Readable(s, ch)
  PROVE  Readable(Append(s, m), ch)
<1> DEFINE t == Append(s, m)
           n == Len(s)
<1>1. n \in Nat /\ Len(t) = n + 1 /\ t[n + 1] = m /\ \A i \in 1..n : t[i] = s[i]
  OBVIOUS
<1> SUFFICES ASSUME NEW k \in 0..(n + 1), NEW v \in Vals
             PROVE  \E b : RestReading(b, v, t, k, ch)
  BY <1>1 DEF Readable
<1>2. CASE k = n + 1
  <2>1. n + 1 \in Nat
    BY <1>1
  <2> HIDE DEF t, n
  <2> QED BY <1>1, <1>2, <2>1, RestEmpty
<1>3. CASE k # n + 1
  <2>1. k \in 0..n
    BY <1>1, <1>3
  <2>2. PICK a : RestReading(a, v, s, k, ch)
    BY <2>1 DEF Readable
  <2>3. a \in [k..n -> Vals] /\ a[k] = v /\ \A i \in (k + 1)..n : a[i] = Step(a[i - 1], s[i], ch)
    BY <2>2 DEF RestReading
  <2> DEFINE b == [i \in k..(n + 1) |-> IF i = n + 1 THEN Step(a[n], m, ch) ELSE a[i]]
  <2> HIDE DEF t, n
  <2>4. Step(a[n], m, ch) \in Vals
    BY <1>1, <2>1, <2>3, StepTyped
  <2>5. b \in [k..(n + 1) -> Vals] /\ b[k] = v
    BY <1>1, <2>1, <2>3, <2>4
  <2>6. ASSUME NEW i \in (k + 1)..(n + 1) PROVE b[i] = Step(b[i - 1], t[i], ch)
    <3>1. i - 1 \in k..n /\ i - 1 \in k..(n + 1) /\ i \in k..(n + 1) /\ i - 1 # n + 1
      BY <1>1, <2>1
    <3>2. CASE i = n + 1
      <4>1. i - 1 = n
        BY <1>1, <3>2
      <4> QED BY <1>1, <3>1, <3>2, <4>1
    <3>3. CASE i # n + 1
      <4>1. i \in (k + 1)..n /\ i \in 1..n
        BY <1>1, <2>1, <3>3
      <4> QED BY <1>1, <2>3, <3>1, <3>3, <4>1
    <3> QED BY <3>2, <3>3
  <2>7. RestReading(b, v, t, k, ch)
    BY <1>1, <2>5, <2>6 DEF RestReading
  <2> QED BY <2>7
<1> QED BY <1>2, <1>3

LEMMA ReadableTail ==
  ASSUME NEW s \in Seq(Msgs), s # <<>>, NEW ch, Readable(s, ch)
  PROVE  Readable(Tail(s), ch)
<1> DEFINE t == Tail(s)
           n == Len(t)
<1>1. n \in Nat /\ Len(s) = n + 1 /\ \A i \in 1..n : t[i] = s[i + 1]
  OBVIOUS
<1> SUFFICES ASSUME NEW k \in 0..n, NEW v \in Vals
             PROVE  \E b : RestReading(b, v, t, k, ch)
  BY DEF Readable
<1>2. k + 1 \in 0..Len(s)
  BY <1>1
<1>3. PICK a : RestReading(a, v, s, k + 1, ch)
  BY <1>2 DEF Readable
<1>4. /\ a \in [(k + 1)..(n + 1) -> Vals] /\ a[k + 1] = v
      /\ \A i \in ((k + 1) + 1)..(n + 1) : a[i] = Step(a[i - 1], s[i], ch)
  BY <1>1, <1>3 DEF RestReading
<1> DEFINE b == [i \in k..n |-> a[i + 1]]
<1> HIDE DEF t, n
<1>5. b \in [k..n -> Vals] /\ b[k] = v
  BY <1>1, <1>4
<1>6. ASSUME NEW i \in (k + 1)..n PROVE b[i] = Step(b[i - 1], t[i], ch)
  <2>1. /\ i \in k..n /\ i - 1 \in k..n /\ i \in 1..n /\ i + 1 \in ((k + 1) + 1)..(n + 1)
        /\ (i + 1) - 1 = i /\ (i - 1) + 1 = i
    BY <1>1
  <2>2. b[i] = a[i + 1] /\ b[i - 1] = a[i]
    BY <2>1
  <2>3. a[i + 1] = Step(a[i], s[i + 1], ch)
    BY <1>4, <2>1
  <2> QED BY <1>1, <2>1, <2>2, <2>3
<1>7. RestReading(b, v, t, k, ch)
  BY <1>5, <1>6 DEF RestReading, n
<1> QED BY <1>7

\* What a step may do to a queue.
LEMMA QueueStep ==
  ASSUME TypedInv, [Next]_vars, NEW c \in Clients
  PROVE  \/ out'[c] = out[c]
         \/ out'[c] = <<>>
         \/ out[c] # <<>> /\ out'[c] = Tail(out[c])
         \/ \E m \in Msgs : out'[c] = Append(out[c], m)
<1>0. TypeOK /\ \A x \in Clients : replay[x].pc = "send" => replay[x].todo # <<>>
  BY DEF TypedInv
<1>1. ASSUME NEW S, NEW m \in Msgs, Send(S, m)
      PROVE  out'[c] = out[c] \/ out'[c] = Append(out[c], m)
  BY <1>1 DEF Send
<1>2. ASSUME NEW ch \in Children, ReadLoop(ch)
      PROVE  out'[c] = out[c] \/ \E m \in Msgs : out'[c] = Append(out[c], m)
  <2>1. CASE Receive(ch) \/ Apply(ch) \/ Dies(ch)
    BY <2>1 DEF Receive, Apply, Dies
  <2>2. CASE PublishElement(ch) \/ AnnounceGone(ch)
    <3>1. reader[ch].el \in Msgs
      BY <1>0 DEF TypeOK
    <3>2. \E T : Send(T, reader[ch].el)
      BY <2>2 DEF PublishElement, AnnounceGone, Publish
    <3> QED BY <1>1, <3>1, <3>2
  <2> QED BY <1>2, <2>1, <2>2 DEF ReadLoop
<1>3. ASSUME NEW x \in Clients, ReplaySend(x)
      PROVE  out'[c] = out[c] \/ \E m \in Msgs : out'[c] = Append(out[c], m)
  <2> DEFINE m == [kind |-> "def", child |-> Head(replay[x].todo), val |-> replay[x].val]
  <2>1. replay[x].todo \in Seq(Children) /\ replay[x].todo # <<>> /\ replay[x].val \in Values \cup {None}
    BY <1>0, <1>3 DEF ReplaySend, TypeOK
  <2>2. m \in Msgs
    BY <2>1 DEF Msgs
  <2>3. \E T : Send(T, m)
    BY <1>3 DEF ReplaySend
  <2> HIDE DEF m
  <2> QED BY <1>1, <2>2, <2>3
<1>4. ASSUME NEW x \in Clients, Deliver(x) \/ Forget(x)
      PROVE  \/ out'[c] = out[c] \/ out'[c] = <<>>
             \/ out[c] # <<>> /\ out'[c] = Tail(out[c])
  BY <1>0, <1>4 DEF Deliver, Forget, Fresh, TypeOK
<1>5. ASSUME NEW x \in Clients,
             \/ Accept(x) \/ Register(x) \/ Leave(x) \/ GetProperties(x) \/ ReplaySnapshot(x)
             \/ ReplayDone(x) \/ \E p \in {"never", "also", "only"} : SetPolicy(x, p)
      PROVE  out'[c] = out[c]
  BY <1>5 DEF Accept, Register, Leave, GetProperties, ReplaySnapshot, ReplayDone, SetPolicy
<1>6. ASSUME NEW sel \in Selections, SetChildren(sel) PROVE out'[c] = out[c]
  BY <1>6 DEF SetChildren
<1>7. ASSUME UNCHANGED vars PROVE out'[c] = out[c]
  BY <1>7 DEF vars
<1>8. ASSUME NEW x \in Clients, Client(x)
      PROVE  \/ out'[c] = out[c] \/ out'[c] = <<>>
             \/ out[c] # <<>> /\ out'[c] = Tail(out[c])
             \/ \E m \in Msgs : out'[c] = Append(out[c], m)
  BY <1>3, <1>4, <1>5, <1>8 DEF Client
<1> QED BY <1>2, <1>6, <1>7, <1>8 DEF Next

\* The readings that ClientFollowsChild and ClientForgetsDead speak of exist: what
\* they say of all of them is said of at least one.
THEOREM ReadingsExist == Spec => [](\A c \in Clients, ch \in Children : Readings(c, ch) # {})
<1>0. \A ch : Readable(<<>>, ch)
  BY RestEmpty DEF Readable
<1>1. Init => ReadableInv
  BY <1>0 DEF Init, ReadableInv
<1>2. TypedInv /\ ReadableInv /\ [Next]_vars => ReadableInv'
  <2> SUFFICES ASSUME TypedInv, ReadableInv, [Next]_vars, NEW c \in Clients, NEW ch \in Children
               PROVE  Readable(out'[c], ch)
    BY DEF ReadableInv
  <2>1. out[c] \in Seq(Msgs) /\ Readable(out[c], ch)
    BY DEF TypedInv, TypeOK, ReadableInv
  <2>2. \A m \in Msgs : Readable(Append(out[c], m), ch)
    BY <2>1, ReadableAppend
  <2>3. out[c] # <<>> => Readable(Tail(out[c]), ch)
    BY <2>1, ReadableTail
  <2> QED BY <1>0, <2>1, <2>2, <2>3, QueueStep
<1>3. TypedInv /\ ReadableInv => \A c \in Clients, ch \in Children : Readings(c, ch) # {}
  <2> SUFFICES ASSUME TypedInv, ReadableInv, NEW c \in Clients, NEW ch \in Children
               PROVE  Readings(c, ch) # {}
    OBVIOUS
  <2>1. Len(out[c]) \in Nat /\ view[c][Device[ch]] \in Vals /\ Readable(out[c], ch)
    BY IndiServeAssumption DEF TypedInv, TypeOK, ReadableInv, Vals
  <2>2. PICK b : RestReading(b, view[c][Device[ch]], out[c], 0, ch)
    BY <2>1 DEF Readable
  <2>3. b \in Readings(c, ch)
    BY <2>2 DEF RestReading, Readings, Step, Vals
  <2> QED BY <2>3
<1>4. IndInv => TypedInv
  BY DEF IndInv
<1> QED BY <1>1, <1>2, <1>3, <1>4, IndiServeInductive, PTL DEF Spec
=============================================================================
