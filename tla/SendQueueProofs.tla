-------------------------- MODULE SendQueueProofs --------------------------
(***************************************************************************)
(* Proofs about SendQueue for any number of senders, sizes and limits.      *)
(*                                                                          *)
(* A sum of message sizes is the cardinality of the set of their bytes, so  *)
(* that the theorems on finite sets replace induction over the queue.       *)
(***************************************************************************)
EXTENDS SendQueue, FiniteSetTheorems, TLAPS

(***************************************************************************)
(* Sums of sizes.                                                           *)
(***************************************************************************)
\* Finitely many messages have finitely many bytes.
LEMMA BytesFinite ==
  ASSUME NEW S, IsFiniteSet(S), NEW f \in [S -> Nat]
  PROVE  IsFiniteSet(BytesOf(f)) /\ Bytes(f) \in Nat
<1> DEFINE piece == [i \in S |-> {i} \X (1..f[i])]
           T == {{i} \X (1..f[i]) : i \in S}
<1>1. piece \in Surjection(S, T)
  BY DEF Surjection
<1>2. IsFiniteSet(T)
  BY <1>1, FS_Surjection
<1>3. ASSUME NEW U \in T PROVE IsFiniteSet(U)
  <2>1. PICK i \in S : U = {i} \X (1..f[i])
    OBVIOUS
  <2>2. IsFiniteSet({i})
    BY FS_Singleton
  <2>3. f[i] \in Int /\ 1 \in Int
    OBVIOUS
  <2>4. IsFiniteSet(1..f[i])
    BY <2>3, FS_Interval
  <2> QED BY <2>1, <2>2, <2>4, FS_Product
<1>4. IsFiniteSet(UNION T)
  BY <1>2, <1>3, FS_UNION
<1>5. BytesOf(f) = UNION T
  BY DEF BytesOf
<1> QED BY <1>4, <1>5, FS_CardinalityType DEF Bytes

\* g is f with one more message, at x.
OneMore(f, g, x) ==
  /\ IsFiniteSet(DOMAIN f) /\ f \in [DOMAIN f -> Nat] /\ g \in [DOMAIN g -> Nat]
  /\ x \notin DOMAIN f /\ DOMAIN g = DOMAIN f \cup {x}
  /\ \A i \in DOMAIN f : g[i] = f[i]

\* One more message adds its size.
LEMMA BytesAdd ==
  ASSUME NEW f, NEW g, NEW x, OneMore(f, g, x)
  PROVE  /\ Bytes(g) = Bytes(f) + g[x]
         /\ Cardinality(DOMAIN g) = Cardinality(DOMAIN f) + 1
<1> DEFINE S == DOMAIN f
           X == {x} \X (1..g[x])
<1>0. /\ IsFiniteSet(S) /\ f \in [S -> Nat] /\ g \in [S \cup {x} -> Nat] /\ x \notin S
      /\ DOMAIN g = S \cup {x} /\ \A i \in S : g[i] = f[i]
  BY DEF OneMore
<1> HIDE DEF S
<1>1. BytesOf(g) = BytesOf(f) \cup X
  <2>1. BytesOf(g) = UNION {{i} \X (1..g[i]) : i \in S \cup {x}}
    BY <1>0 DEF BytesOf
  <2>2. BytesOf(f) = UNION {{i} \X (1..f[i]) : i \in S}
    BY <1>0 DEF BytesOf
  <2> QED BY <1>0, <2>1, <2>2
<1>2. BytesOf(f) \cap X = {}
  BY <1>0 DEF BytesOf
<1>3. IsFiniteSet(X) /\ Cardinality(X) = g[x]
  <2>1. g[x] \in Nat
    BY <1>0
  <2>2. IsFiniteSet(1..g[x]) /\ Cardinality(1..g[x]) = g[x]
    BY <2>1, FS_Interval
  <2>3. IsFiniteSet({x}) /\ Cardinality({x}) = 1
    BY FS_Singleton
  <2>4. IsFiniteSet(X) /\ Cardinality(X) = Cardinality({x}) * Cardinality(1..g[x])
    BY <2>2, <2>3, FS_Product
  <2> QED BY <2>1, <2>2, <2>3, <2>4
<1>4. IsFiniteSet(BytesOf(f)) /\ Cardinality(BytesOf(f)) \in Nat
  BY <1>0, BytesFinite DEF Bytes
<1>5. Cardinality(BytesOf(f) \cup X)
        = Cardinality(BytesOf(f)) + Cardinality(X) - Cardinality(BytesOf(f) \cap X)
  BY <1>3, <1>4, FS_Union
<1>6. Cardinality(BytesOf(f) \cap X) = 0
  BY <1>2, FS_EmptySet
<1>7. g[x] \in Nat
  BY <1>0
<1>8. Bytes(g) = Bytes(f) + g[x]
  BY <1>1, <1>3, <1>4, <1>5, <1>6, <1>7 DEF Bytes
<1>9. Cardinality(S \cup {x}) = Cardinality(S) + 1
  BY ONLY <1>0, FS_AddElement
<1> QED BY <1>0, <1>8, <1>9 DEF S

\* The places of the messages do not matter.
LEMMA BytesMove ==
  ASSUME NEW S, IsFiniteSet(S), NEW T, NEW f \in [S -> Nat], NEW g \in [T -> Nat],
         NEW h \in Bijection(S, T), \A i \in S : g[h[i]] = f[i]
  PROVE  Bytes(g) = Bytes(f)
<1> DEFINE F == [p \in BytesOf(f) |-> <<h[p[1]], p[2]>>]
<1>1. h \in [S -> T] /\ (\A i, j \in S : h[i] = h[j] => i = j) /\ (\A t \in T : \E i \in S : h[i] = t)
  BY DEF Bijection, Injection, Surjection, IsInjective
<1>2. \A p : p \in BytesOf(f) <=> \E i \in S : \E k \in 1..f[i] : p = <<i, k>>
  BY DEF BytesOf
<1>3. \A p : p \in BytesOf(g) <=> \E i \in T : \E k \in 1..g[i] : p = <<i, k>>
  BY DEF BytesOf
<1>4. F \in [BytesOf(f) -> BytesOf(g)]
  BY <1>1, <1>2, <1>3
<1>5. ASSUME NEW p \in BytesOf(f), NEW q \in BytesOf(f), F[p] = F[q] PROVE p = q
  BY <1>1, <1>2, <1>5
<1>6. ASSUME NEW q \in BytesOf(g) PROVE \E p \in BytesOf(f) : F[p] = q
  <2>1. PICK t \in T : \E k \in 1..g[t] : q = <<t, k>>
    BY <1>3
  <2>0. PICK k \in 1..g[t] : q = <<t, k>>
    BY <2>1
  <2>2. PICK i \in S : h[i] = t
    BY <1>1
  <2>3. <<i, k>> \in BytesOf(f)
    BY <1>2, <2>0, <2>2
  <2> QED BY <2>0, <2>2, <2>3
<1>7. F \in Bijection(BytesOf(f), BytesOf(g))
  BY <1>4, <1>5, <1>6 DEF Bijection, Injection, Surjection, IsInjective
<1>8. ExistsBijection(BytesOf(f), BytesOf(g))
  BY <1>7 DEF ExistsBijection
<1> QED BY <1>8, BytesFinite, FS_Bijection DEF Bytes

\* Fewer messages have no more bytes; messages that are not empty have some.
LEMMA BytesSubset ==
  ASSUME NEW S, IsFiniteSet(S), NEW T \in SUBSET S, NEW f \in [S -> Nat], NEW g \in [T -> Nat],
         \A i \in T : g[i] = f[i]
  PROVE  Bytes(g) <= Bytes(f)
<1>1. BytesOf(g) \subseteq BytesOf(f)
  BY DEF BytesOf
<1> QED BY <1>1, BytesFinite, FS_Subset DEF Bytes

LEMMA BytesZero ==
  ASSUME NEW S, IsFiniteSet(S), NEW f \in [S -> Nat \ {0}]
  PROVE  Bytes(f) = 0 <=> S = {}
<1>0. f \in [S -> Nat]
  OBVIOUS
<1>1. IsFiniteSet(BytesOf(f))
  BY <1>0, BytesFinite
<1>2. Bytes(f) = 0 <=> BytesOf(f) = {}
  BY <1>1, FS_EmptySet DEF Bytes
<1>3. ASSUME NEW i \in S PROVE <<i, 1>> \in BytesOf(f)
  BY DEF BytesOf
<1>4. S = {} => BytesOf(f) = {}
  BY DEF BytesOf
<1> QED BY <1>2, <1>3, <1>4

(***************************************************************************)
(* The senders.                                                             *)
(***************************************************************************)
Pcs == {"idle", "put", "undo", "drop"}
At(q, P)   == {s \in Senders : q[s].pc \in P}
Held(q, P) == [s \in At(q, P) |-> q[s].n]
States == [Senders -> [pc : Pcs, n : Sizes \cup {0}]]

\* Only finitely many senders are anywhere, and their messages have sizes.
LEMMA HeldType ==
  ASSUME NEW q \in States, NEW P
  PROVE  /\ IsFiniteSet(At(q, P)) /\ Cardinality(At(q, P)) \in Nat
         /\ Held(q, P) \in [At(q, P) -> Nat]
         /\ Bytes(Held(q, P)) \in Nat
<1>1. At(q, P) \in SUBSET Senders
  BY DEF At
<1>2. IsFiniteSet(At(q, P))
  BY <1>1, SendQueueAssumption, FS_Subset
<1>0. Sizes \cup {0} \subseteq Nat
  BY SendQueueAssumption
<1>3. Held(q, P) \in [At(q, P) -> Nat]
  BY <1>0 DEF Held, States, At
<1> QED BY <1>2, <1>3, BytesFinite, FS_CardinalityType

\* Sender s goes to p with n bytes.
Moves(q, r, s, p, n) ==
  q \in States /\ r \in States /\ r = [q EXCEPT ![s] = [pc |-> p, n |-> n]]

GoesIn(q, r, s, p, n, P)  == Moves(q, r, s, p, n) /\ q[s].pc \notin P /\ p \in P
GoesOut(q, r, s, p, n, P) == Moves(q, r, s, p, n) /\ q[s].pc \in P /\ p \notin P
Keeps(q, r, s, p, n, P) ==
  /\ Moves(q, r, s, p, n)
  /\ \/ q[s].pc \notin P /\ p \notin P
     \/ q[s].pc \in P /\ p \in P /\ n = q[s].n

\* A sender that comes to P with a message of n bytes adds them.
LEMMA Enters ==
  ASSUME NEW q, NEW r, NEW s \in Senders, NEW p, NEW n, NEW P, GoesIn(q, r, s, p, n, P)
  PROVE  /\ Bytes(Held(r, P)) = Bytes(Held(q, P)) + n
         /\ Cardinality(At(r, P)) = Cardinality(At(q, P)) + 1
<1>1. At(r, P) = At(q, P) \cup {s} /\ s \notin At(q, P)
  BY DEF At, States, Moves, GoesIn
<1>2. \A t \in At(q, P) : Held(r, P)[t] = Held(q, P)[t]
  BY <1>1 DEF Held, States, At, Moves, GoesIn
<1>3. Held(r, P)[s] = n
  BY <1>1 DEF Held, States, Moves, GoesIn
<1>4. IsFiniteSet(At(q, P)) /\ Held(q, P) \in [At(q, P) -> Nat]
      /\ Held(r, P) \in [At(r, P) -> Nat]
  BY HeldType DEF Moves, GoesIn
<1>5. OneMore(Held(q, P), Held(r, P), s)
  BY <1>1, <1>2, <1>4 DEF OneMore
<1>6. DOMAIN Held(q, P) = At(q, P) /\ DOMAIN Held(r, P) = At(r, P)
  BY DEF Held
<1> QED BY <1>3, <1>5, <1>6, BytesAdd

\* One that leaves P takes its message along.
LEMMA Leaves ==
  ASSUME NEW q, NEW r, NEW s \in Senders, NEW p, NEW n, NEW P, GoesOut(q, r, s, p, n, P)
  PROVE  /\ Bytes(Held(q, P)) = Bytes(Held(r, P)) + q[s].n
         /\ Cardinality(At(q, P)) = Cardinality(At(r, P)) + 1
         /\ s \in At(q, P) /\ At(r, P) = At(q, P) \ {s}
<1>1. At(q, P) = At(r, P) \cup {s} /\ s \notin At(r, P)
  BY DEF At, States, Moves, GoesOut
<1>2. \A t \in At(r, P) : Held(r, P)[t] = Held(q, P)[t]
  BY <1>1 DEF Held, States, At, Moves, GoesOut
<1>3. Held(q, P)[s] = q[s].n
  BY <1>1 DEF Held, States, Moves, GoesOut
<1>4. IsFiniteSet(At(r, P)) /\ Held(r, P) \in [At(r, P) -> Nat]
      /\ Held(q, P) \in [At(q, P) -> Nat]
  BY HeldType DEF Moves, GoesOut
<1>5. OneMore(Held(r, P), Held(q, P), s)
  BY <1>1, <1>2, <1>4 DEF OneMore
<1>6. DOMAIN Held(q, P) = At(q, P) /\ DOMAIN Held(r, P) = At(r, P)
  BY DEF Held
<1>7. s \in At(q, P) /\ At(r, P) = At(q, P) \ {s}
  BY ONLY <1>1
<1>8. /\ Bytes(Held(q, P)) = Bytes(Held(r, P)) + Held(q, P)[s]
      /\ Cardinality(DOMAIN Held(q, P)) = Cardinality(DOMAIN Held(r, P)) + 1
  BY <1>5, BytesAdd
<1> QED BY <1>3, <1>6, <1>7, <1>8

\* One that stays inside P with its message, or outside, changes nothing.
LEMMA Stays ==
  ASSUME NEW q, NEW r, NEW s \in Senders, NEW p, NEW n, NEW P, Keeps(q, r, s, p, n, P)
  PROVE  Held(r, P) = Held(q, P) /\ At(r, P) = At(q, P)
<1>1. At(r, P) = At(q, P)
  BY DEF At, States, Moves, Keeps
<1>2. \A t \in At(q, P) : r[t].n = q[t].n
  BY <1>1 DEF At, States, Moves, Keeps
<1> QED BY <1>1, <1>2 DEF Held

(***************************************************************************)
(* The queue.                                                               *)
(***************************************************************************)
\* The messages of a channel o and of a writer w, and the places they are at.
Places(o, w) == (IF w.pc = "write" THEN 0 ELSE 1)..Len(o)
Queue(o, w)  == [i \in Places(o, w) |-> IF i = 0 THEN w.n ELSE o[i]]
Writers == {w \in [pc : {"wait", "write", "drop", "exit"}, n : Sizes \cup {0}] :
              w.pc = "write" => w.n \in Sizes}

\* Finitely many places, each with a message of some size.
LEMMA QueueType ==
  ASSUME NEW o \in Seq(Sizes), NEW w \in Writers
  PROVE  /\ IsFiniteSet(Places(o, w)) /\ Cardinality(Places(o, w)) \in Nat
         /\ Queue(o, w) \in [Places(o, w) -> Nat \ {0}]
         /\ Queue(o, w) \in [Places(o, w) -> Nat]
         /\ Bytes(Queue(o, w)) \in Nat
<1>1. Len(o) \in Nat /\ \A i \in 1..Len(o) : o[i] \in Sizes
  OBVIOUS
<1>2. Queue(o, w) \in [Places(o, w) -> Sizes]
  BY <1>1 DEF Queue, Places, Writers
<1>3. Queue(o, w) \in [Places(o, w) -> Nat \ {0}] /\ Queue(o, w) \in [Places(o, w) -> Nat]
  BY <1>2, SendQueueAssumption
<1>4. (IF w.pc = "write" THEN 0 ELSE 1) \in Int /\ Len(o) \in Int
  BY <1>1
<1>5. IsFiniteSet(Places(o, w))
  BY <1>4, FS_Interval DEF Places
<1>6. Cardinality(Places(o, w)) \in Nat
  BY <1>5, FS_CardinalityType
<1>7. Bytes(Queue(o, w)) \in Nat
  BY ONLY <1>3, <1>5, BytesFinite
<1> QED BY <1>3, <1>5, <1>6, <1>7

\* A message put into the channel goes to a place of its own.
LEMMA QueuePut ==
  ASSUME NEW o \in Seq(Sizes), NEW w \in Writers, NEW n \in Sizes
  PROVE  /\ Bytes(Queue(Append(o, n), w)) = Bytes(Queue(o, w)) + n
         /\ Cardinality(Places(Append(o, n), w)) = Cardinality(Places(o, w)) + 1
<1> DEFINE a == Append(o, n)
           x == Len(o) + 1
<1>1. a \in Seq(Sizes) /\ Len(a) = x /\ a[x] = n /\ \A i \in 1..Len(o) : a[i] = o[i]
  OBVIOUS
<1>2. Len(o) \in Nat
  OBVIOUS
<1>3. Places(a, w) = Places(o, w) \cup {x} /\ x \notin Places(o, w)
  BY <1>1, <1>2 DEF Places
<1>4. \A i \in Places(o, w) : Queue(a, w)[i] = Queue(o, w)[i]
  BY <1>1, <1>2, <1>3 DEF Queue, Places
<1>5. Queue(a, w)[x] = n
  BY <1>1, <1>2, <1>3 DEF Queue
<1>6. /\ IsFiniteSet(Places(o, w))
      /\ Queue(o, w) \in [Places(o, w) -> Nat] /\ Queue(a, w) \in [Places(a, w) -> Nat]
  BY <1>1, QueueType
<1> HIDE DEF a, x
<1>7. OneMore(Queue(o, w), Queue(a, w), x)
  BY <1>3, <1>4, <1>6 DEF OneMore
<1>8. DOMAIN Queue(o, w) = Places(o, w) /\ DOMAIN Queue(a, w) = Places(a, w)
  BY DEF Queue
<1> QED BY <1>5, <1>7, <1>8, BytesAdd DEF a

\* A message taken by the writer only moves, and the others move up.
LEMMA QueueTake ==
  ASSUME NEW o \in Seq(Sizes), o # <<>>, NEW w \in Writers, w.pc # "write",
         NEW v \in Writers, v.pc = "write", v.n = Head(o)
  PROVE  /\ Bytes(Queue(Tail(o), v)) = Bytes(Queue(o, w))
         /\ Cardinality(Places(Tail(o), v)) = Cardinality(Places(o, w))
<1> DEFINE t == Tail(o)
           h == [i \in Places(o, w) |-> i - 1]
<1>1. t \in Seq(Sizes) /\ Len(t) = Len(o) - 1 /\ \A i \in 1..Len(t) : t[i] = o[i + 1]
  OBVIOUS
<1>2. Len(o) \in Nat \ {0} /\ Head(o) = o[1]
  OBVIOUS
<1>3. Places(o, w) = 1..Len(o) /\ Places(t, v) = 0..(Len(o) - 1)
  BY <1>1, <1>2 DEF Places
<1>4. h \in Bijection(Places(o, w), Places(t, v))
  <2>1. h \in [Places(o, w) -> Places(t, v)]
    BY <1>2, <1>3
  <2>2. \A i, j \in Places(o, w) : h[i] = h[j] => i = j
    BY <1>2, <1>3
  <2>3. ASSUME NEW k \in Places(t, v) PROVE \E i \in Places(o, w) : h[i] = k
    <3>1. k + 1 \in Places(o, w) /\ h[k + 1] = k
      BY <1>2, <1>3
    <3> QED BY <3>1
  <2> QED BY <2>1, <2>2, <2>3 DEF Bijection, Injection, Surjection, IsInjective
<1>5. \A i \in Places(o, w) : Queue(t, v)[h[i]] = Queue(o, w)[i]
  BY <1>1, <1>2, <1>3 DEF Queue
<1>6. /\ IsFiniteSet(Places(o, w))
      /\ Queue(o, w) \in [Places(o, w) -> Nat] /\ Queue(t, v) \in [Places(t, v) -> Nat]
  BY <1>1, QueueType
<1> HIDE DEF t, h
<1>7. Bytes(Queue(t, v)) = Bytes(Queue(o, w))
  BY ONLY <1>4, <1>5, <1>6, BytesMove
<1>8. ExistsBijection(Places(o, w), Places(t, v))
  BY <1>4 DEF ExistsBijection
<1>9. Cardinality(Places(t, v)) = Cardinality(Places(o, w))
  BY ONLY <1>6, <1>8, FS_Bijection
<1> QED BY <1>7, <1>9 DEF t

\* A message that has been written is gone.
LEMMA QueueWrote ==
  ASSUME NEW o \in Seq(Sizes), NEW w \in Writers, w.pc = "write",
         NEW v \in Writers, v.pc # "write"
  PROVE  /\ Bytes(Queue(o, w)) = Bytes(Queue(o, v)) + w.n
         /\ Cardinality(Places(o, w)) = Cardinality(Places(o, v)) + 1
<1>1. Len(o) \in Nat
  OBVIOUS
<1>2. Places(o, w) = Places(o, v) \cup {0} /\ 0 \notin Places(o, v)
  BY <1>1 DEF Places
<1>3. \A i \in Places(o, v) : Queue(o, w)[i] = Queue(o, v)[i]
  BY <1>1, <1>2 DEF Queue
<1>4. Queue(o, w)[0] = w.n
  BY <1>2 DEF Queue
<1>5. /\ IsFiniteSet(Places(o, v))
      /\ Queue(o, v) \in [Places(o, v) -> Nat] /\ Queue(o, w) \in [Places(o, w) -> Nat]
  BY QueueType
<1>6. OneMore(Queue(o, v), Queue(o, w), 0)
  BY <1>2, <1>3, <1>5 DEF OneMore
<1>7. DOMAIN Queue(o, v) = Places(o, v) /\ DOMAIN Queue(o, w) = Places(o, w)
  BY DEF Queue
<1> QED BY <1>4, <1>6, <1>7, BytesAdd

\* A writer that writes nothing before and after leaves the queue as it was.
LEMMA QueueStays ==
  ASSUME NEW o \in Seq(Sizes), NEW w, NEW v, w.pc # "write", v.pc # "write"
  PROVE  Queue(o, w) = Queue(o, v) /\ Places(o, w) = Places(o, v)
<1>1. Places(o, w) = Places(o, v)
  BY DEF Places
<1>2. \A i \in Places(o, w) : i # 0
  BY DEF Places
<1> QED BY <1>1, <1>2 DEF Queue

\* No messages, no bytes.
LEMMA NoBytes ==
  ASSUME NEW S, IsFiniteSet(S), Cardinality(S) = 0, NEW f \in [S -> Nat]
  PROVE  Bytes(f) = 0
<1>1. S = {}
  BY FS_EmptySet
<1>2. f \in [S -> Nat \ {0}]
  BY <1>1
<1> QED BY <1>1, <1>2, BytesZero

(***************************************************************************)
(* The inductive invariant.                                                 *)
(***************************************************************************)
\* A message that is written has a size, and so has one that is decided on.
Carries ==
  /\ writer.pc = "write" => writer.n \in Sizes
  /\ \A s \in Senders : snd[s].pc \in {"put", "undo"} => snd[s].n \in Sizes

\* What is in the queue and what has been let in but is not there yet fit the
\* budget together, or are a single message.
Admitted ==
  \/ Bytes(Queued) + Bytes(Sending({"put"})) <= QueueBytes
  \/ Cardinality(DOMAIN Queued) + Cardinality(DOMAIN Sending({"put"})) = 1

IndInv == TypeOK /\ Carries /\ PendingExact /\ Admitted /\ GapMeansDrop

\* Senders that are let in, and senders whose message is counted.
LetIn   == {"put"}
Counted == {"put", "undo"}

\* The same, of a channel, a writer, senders and a counter.
Typed(o, w, q, p) ==
  /\ o \in Seq(Sizes) /\ w \in Writers /\ q \in States /\ p \in Nat
  /\ \A s \in Senders : q[s].pc \in Counted => q[s].n \in Sizes
Exact(o, w, q, p) == p = Bytes(Queue(o, w)) + Bytes(Held(q, Counted))
Fits(o, w, q) ==
  \/ Bytes(Queue(o, w)) + Bytes(Held(q, LetIn)) <= QueueBytes
  \/ Cardinality(Places(o, w)) + Cardinality(At(q, LetIn)) = 1

LEMMA InTerms ==
  /\ Queued = Queue(out, writer) /\ DOMAIN Queued = Places(out, writer)
  /\ \A P : Sending(P) = Held(snd, P) /\ DOMAIN Sending(P) = At(snd, P)
  /\ (TypeOK /\ Carries => Typed(out, writer, snd, pending))
  /\ (PendingExact <=> Exact(out, writer, snd, pending))
  /\ (Admitted <=> Fits(out, writer, snd))
<1>1. Queued = Queue(out, writer) /\ DOMAIN Queued = Places(out, writer)
  BY DEF Queued, Queue, Places
<1>2. \A P : Sending(P) = Held(snd, P) /\ DOMAIN Sending(P) = At(snd, P)
  BY DEF Sending, Held, At
<1>3. TypeOK /\ Carries => Typed(out, writer, snd, pending)
  BY DEF TypeOK, Carries, Typed, Writers, States, Pcs, Counted
<1>4. PendingExact <=> Exact(out, writer, snd, pending)
  BY <1>1, <1>2 DEF PendingExact, Exact, Counted
<1>5. Admitted <=> Fits(out, writer, snd)
  BY <1>1, <1>2 DEF Admitted, Fits, LetIn
<1> QED BY <1>1, <1>2, <1>3, <1>4, <1>5

LEMMA InTermsNext ==
  /\ (PendingExact' <=> Exact(out', writer', snd', pending'))
  /\ (Admitted' <=> Fits(out', writer', snd'))
<1>1. Queued' = Queue(out', writer') /\ (DOMAIN Queued)' = Places(out', writer')
  BY DEF Queued, Queue, Places
<1>2. \A P : Sending(P)' = Held(snd', P) /\ (DOMAIN Sending(P))' = At(snd', P)
  BY DEF Sending, Held, At
<1>4. PendingExact' <=> Exact(out', writer', snd', pending')
  BY <1>1, <1>2 DEF PendingExact, Exact, Counted
<1>5. Admitted' <=> Fits(out', writer', snd')
  BY <1>1, <1>2 DEF Admitted, Fits, LetIn
<1> QED BY <1>4, <1>5

\* The numbers of a typed state.
LEMMA Numbers ==
  ASSUME NEW o, NEW w, NEW q, NEW p, Typed(o, w, q, p)
  PROVE  /\ p \in Nat /\ QueueBytes \in Nat
         /\ Bytes(Queue(o, w)) \in Nat /\ Cardinality(Places(o, w)) \in Nat
         /\ Bytes(Held(q, LetIn)) \in Nat /\ Cardinality(At(q, LetIn)) \in Nat
         /\ Bytes(Held(q, Counted)) \in Nat
         /\ Bytes(Held(q, LetIn)) <= Bytes(Held(q, Counted))
         /\ Cardinality(Places(o, w)) = 0 => Bytes(Queue(o, w)) = 0
         /\ Cardinality(At(q, LetIn)) = 0 => Bytes(Held(q, LetIn)) = 0
         /\ Bytes(Queue(o, w)) = 0 => Cardinality(Places(o, w)) = 0
         /\ Bytes(Held(q, Counted)) = 0 => Cardinality(At(q, LetIn)) = 0
<1>1. p \in Nat /\ o \in Seq(Sizes) /\ w \in Writers /\ q \in States
  BY DEF Typed
<1>2. /\ IsFiniteSet(Places(o, w)) /\ Queue(o, w) \in [Places(o, w) -> Nat]
      /\ Queue(o, w) \in [Places(o, w) -> Nat \ {0}]
      /\ Bytes(Queue(o, w)) \in Nat /\ Cardinality(Places(o, w)) \in Nat
  BY <1>1, QueueType
<1>3. \A P : /\ IsFiniteSet(At(q, P)) /\ Held(q, P) \in [At(q, P) -> Nat]
             /\ Bytes(Held(q, P)) \in Nat /\ Cardinality(At(q, P)) \in Nat
  BY <1>1, HeldType
<1>4. At(q, LetIn) \in SUBSET At(q, Counted)
  BY DEF At, LetIn, Counted
<1>5. \A s \in At(q, LetIn) : Held(q, LetIn)[s] = Held(q, Counted)[s]
  BY <1>4 DEF Held
<1>6. Bytes(Held(q, LetIn)) <= Bytes(Held(q, Counted))
  BY ONLY <1>3, <1>4, <1>5, BytesSubset
<1>7. Held(q, Counted) \in [At(q, Counted) -> Nat \ {0}]
  BY SendQueueAssumption DEF Typed, Held, At
<1>8. Cardinality(Places(o, w)) = 0 => Bytes(Queue(o, w)) = 0
  BY ONLY <1>2, NoBytes
<1>9. Cardinality(At(q, LetIn)) = 0 => Bytes(Held(q, LetIn)) = 0
  BY ONLY <1>3, NoBytes
<1>10. Bytes(Queue(o, w)) = 0 => Places(o, w) = {}
  BY ONLY <1>2, BytesZero
<1>11. Bytes(Held(q, Counted)) = 0 => At(q, Counted) = {}
  BY ONLY <1>3, <1>7, BytesZero
<1>12. Cardinality({}) = 0
  BY FS_EmptySet
<1>13. At(q, Counted) = {} => At(q, LetIn) = {}
  BY <1>4
<1>14. QueueBytes \in Nat
  BY SendQueueAssumption
<1> QED BY <1>1, <1>2, <1>3, <1>6, <1>8, <1>9, <1>10, <1>11, <1>12, <1>13, <1>14

\* What the invariant gives to every step, in those terms.
LEMMA Given ==
  ASSUME IndInv
  PROVE  /\ Typed(out, writer, snd, pending)
         /\ Exact(out, writer, snd, pending) /\ Fits(out, writer, snd)
BY InTerms DEF IndInv

\* And what a step has to show.
LEMMA Shown ==
  ASSUME TypeOK', Carries', GapMeansDrop',
         Exact(out', writer', snd', pending'), Fits(out', writer', snd')
  PROVE  IndInv'
BY InTermsNext DEF IndInv

(***************************************************************************)
(* The steps.                                                               *)
(***************************************************************************)
LEMMA AddStep ==
  ASSUME IndInv, NEW s \in Senders, NEW n \in Sizes, Add(s, n)
  PROVE  IndInv'
<1> DEFINE p == IF OverBudget(pending + n, n) THEN "undo" ELSE "put"
<1>0. Typed(out, writer, snd, pending) /\ Exact(out, writer, snd, pending) /\ Fits(out, writer, snd)
  BY Given
<1>1. n \in Nat /\ pending \in Nat
  BY SendQueueAssumption DEF IndInv, TypeOK
<1>2. /\ snd' = [snd EXCEPT ![s] = [pc |-> p, n |-> n]] /\ snd[s].pc = "idle"
      /\ snd[s].pc \notin Counted /\ p \in Counted
      /\ pending' = pending + n /\ UNCHANGED <<out, done, writer, refused>>
  BY DEF Add, SetSender, Counted
<1>3. TypeOK' /\ Carries'
  BY <1>1, <1>2 DEF IndInv, TypeOK, Carries
<1>4. Moves(snd, snd', s, p, n)
  BY <1>2, <1>3 DEF IndInv, TypeOK, States, Pcs, Moves
<1>5. Bytes(Held(snd', Counted)) = Bytes(Held(snd, Counted)) + n
  BY <1>2, <1>4, Enters DEF GoesIn
<1>6. CASE p = "undo"
  <2>0. snd[s].pc \notin LetIn /\ p \notin LetIn
    BY <1>2, <1>6 DEF LetIn
  <2>1. Held(snd', LetIn) = Held(snd, LetIn) /\ At(snd', LetIn) = At(snd, LetIn)
    BY <1>4, <2>0, Stays DEF Keeps
  <2>2. Fits(out', writer', snd')
    BY <1>0, <1>2, <2>1 DEF Fits
  <2>3. Exact(out', writer', snd', pending')
    BY <1>0, <1>1, <1>2, <1>5, Numbers DEF Exact
  <2>4. GapMeansDrop'
    BY <1>2, <1>6 DEF IndInv, GapMeansDrop, TypeOK
  <2> QED BY <1>3, <2>2, <2>3, <2>4, Shown
<1>7. CASE p = "put"
  <2>0. snd[s].pc \notin LetIn /\ p \in LetIn
    BY <1>2, <1>7 DEF LetIn
  <2>1. /\ Bytes(Held(snd', LetIn)) = Bytes(Held(snd, LetIn)) + n
        /\ Cardinality(At(snd', LetIn)) = Cardinality(At(snd, LetIn)) + 1
    BY <1>4, <2>0, Enters DEF GoesIn
  <2>2. pending + n <= QueueBytes \/ pending = 0
    BY <1>1, <1>7, SendQueueAssumption DEF OverBudget
  <2>3. Fits(out', writer', snd')
    BY <1>0, <1>1, <1>2, <2>1, <2>2, Numbers DEF Fits, Exact
  <2>4. Exact(out', writer', snd', pending')
    BY <1>0, <1>1, <1>2, <1>5, Numbers DEF Exact
  <2>5. GapMeansDrop'
    BY <1>2, <1>7 DEF IndInv, GapMeansDrop, TypeOK
  <2> QED BY <1>3, <2>3, <2>4, <2>5, Shown
<1> QED BY <1>6, <1>7

LEMMA PutStep ==
  ASSUME IndInv, NEW s \in Senders, Put(s)
  PROVE  IndInv'
<1> DEFINE n == snd[s].n
<1>0. Typed(out, writer, snd, pending) /\ Exact(out, writer, snd, pending) /\ Fits(out, writer, snd)
  BY Given
<1>1. snd[s].pc = "put" /\ n \in Sizes /\ n \in Nat /\ UNCHANGED <<pending, done, writer, refused>>
  BY SendQueueAssumption DEF Put, IndInv, Carries
<1>2. out \in Seq(Sizes) /\ writer \in Writers /\ snd \in States
  BY <1>0 DEF Typed
<1>3. CASE Len(out) < QueueMessages /\ out' = Append(out, n) /\ SetSender(s, "idle", 0)
  <2>0. /\ snd' = [snd EXCEPT ![s] = [pc |-> "idle", n |-> 0]]
        /\ snd[s].pc \in LetIn /\ "idle" \notin LetIn /\ snd[s].pc \in Counted /\ "idle" \notin Counted
    BY <1>1, <1>3 DEF SetSender, LetIn, Counted
  <2>1. Len(out') <= QueueMessages /\ out' \in Seq(Sizes)
    BY <1>1, <1>2, <1>3, SendQueueAssumption
  <2>2. TypeOK' /\ Carries'
    BY <1>1, <2>0, <2>1 DEF IndInv, TypeOK, Carries
  <2>3. Moves(snd, snd', s, "idle", 0)
    BY <1>2, <2>0, <2>2 DEF TypeOK, States, Pcs, Moves
  <2>4. /\ Bytes(Queue(out', writer')) = Bytes(Queue(out, writer)) + n
        /\ Cardinality(Places(out', writer')) = Cardinality(Places(out, writer)) + 1
    BY <1>1, <1>2, <1>3, QueuePut
  <2>a. \A P \in {LetIn, Counted} : GoesOut(snd, snd', s, "idle", 0, P)
    BY <2>0, <2>3 DEF GoesOut
  <2>5. /\ Bytes(Held(snd, LetIn)) = Bytes(Held(snd', LetIn)) + n
        /\ Cardinality(At(snd, LetIn)) = Cardinality(At(snd', LetIn)) + 1
    BY <2>a, Leaves
  <2>6. Bytes(Held(snd, Counted)) = Bytes(Held(snd', Counted)) + n
    BY <2>a, Leaves
  <2>7. Typed(out', writer', snd', pending')
    BY <1>0, <1>1, <2>1, <2>2, <2>3 DEF Typed, Carries, Moves, Counted
  <2>8. Fits(out', writer', snd')
    BY <1>0, <1>1, <2>4, <2>5, <2>7, Numbers DEF Fits
  <2>9. Exact(out', writer', snd', pending')
    BY <1>0, <1>1, <2>4, <2>6, <2>7, Numbers DEF Exact
  <2>10. GapMeansDrop'
    BY <1>1, <2>0 DEF IndInv, GapMeansDrop, TypeOK
  <2> QED BY <2>2, <2>8, <2>9, <2>10, Shown
<1>4. CASE SetSender(s, "undo", n) /\ UNCHANGED out
  <2>0. /\ snd' = [snd EXCEPT ![s] = [pc |-> "undo", n |-> n]] /\ out' = out
        /\ snd[s].pc \in LetIn /\ "undo" \notin LetIn /\ snd[s].pc \in Counted /\ "undo" \in Counted
    BY <1>1, <1>4 DEF SetSender, LetIn, Counted
  <2>2. TypeOK' /\ Carries'
    BY <1>1, <2>0 DEF IndInv, TypeOK, Carries
  <2>3. Moves(snd, snd', s, "undo", n)
    BY <1>2, <2>0, <2>2 DEF TypeOK, States, Pcs, Moves
  <2>a. GoesOut(snd, snd', s, "undo", n, LetIn) /\ Keeps(snd, snd', s, "undo", n, Counted)
    BY <2>0, <2>3 DEF GoesOut, Keeps
  <2>5. /\ Bytes(Held(snd, LetIn)) = Bytes(Held(snd', LetIn)) + n
        /\ Cardinality(At(snd, LetIn)) = Cardinality(At(snd', LetIn)) + 1
    BY <2>a, Leaves
  <2>6. Held(snd', Counted) = Held(snd, Counted)
    BY <2>a, Stays
  <2>7. Typed(out', writer', snd', pending')
    BY <1>0, <1>1, <2>0, <2>2, <2>3 DEF Typed, Carries, Moves, Counted
  <2>8. Fits(out', writer', snd')
    BY <1>0, <1>1, <2>0, <2>5, <2>7, Numbers DEF Fits
  <2>9. Exact(out', writer', snd', pending')
    BY <1>0, <1>1, <2>0, <2>6 DEF Exact
  <2>10. GapMeansDrop'
    BY <1>1, <2>0 DEF IndInv, GapMeansDrop, TypeOK
  <2> QED BY <2>2, <2>8, <2>9, <2>10, Shown
<1> QED BY <1>3, <1>4 DEF Put

LEMMA UndoStep ==
  ASSUME IndInv, NEW s \in Senders, Undo(s)
  PROVE  IndInv'
<1> DEFINE n == snd[s].n
<1>0. Typed(out, writer, snd, pending) /\ Exact(out, writer, snd, pending) /\ Fits(out, writer, snd)
  BY Given
<1>1. snd[s].pc = "undo" /\ n \in Nat /\ pending' = pending - n /\ UNCHANGED <<out, done, writer>>
  BY SendQueueAssumption DEF Undo, IndInv, Carries
<1>2. snd' = [snd EXCEPT ![s] = [pc |-> "drop", n |-> 0]]
  BY DEF Undo, SetSender
<1>3. Moves(snd, snd', s, "drop", 0)
  BY <1>2 DEF IndInv, TypeOK, States, Pcs, Moves
<1>a. /\ snd[s].pc \in Counted /\ "drop" \notin Counted
      /\ snd[s].pc \notin LetIn /\ "drop" \notin LetIn
  BY <1>1 DEF Counted, LetIn
<1>b. GoesOut(snd, snd', s, "drop", 0, Counted) /\ Keeps(snd, snd', s, "drop", 0, LetIn)
  BY <1>3, <1>a DEF GoesOut, Keeps
<1>4. Bytes(Held(snd, Counted)) = Bytes(Held(snd', Counted)) + n
  BY <1>b, Leaves
<1>5. Held(snd', LetIn) = Held(snd, LetIn) /\ At(snd', LetIn) = At(snd, LetIn)
  BY <1>b, Stays
<1>6. Bytes(Held(snd', Counted)) \in Nat
  BY <1>3, HeldType DEF Moves
<1>7. Exact(out', writer', snd', pending') /\ pending' \in Nat
  BY <1>0, <1>1, <1>4, <1>6, Numbers DEF Exact
<1>8. Fits(out', writer', snd')
  BY <1>0, <1>1, <1>5 DEF Fits
<1>9. TypeOK' /\ Carries'
  BY <1>1, <1>2, <1>7 DEF Undo, IndInv, TypeOK, Carries
<1>10. GapMeansDrop'
  BY <1>2 DEF IndInv, GapMeansDrop, TypeOK
<1> QED BY <1>7, <1>8, <1>9, <1>10, Shown

LEMMA DropStep ==
  ASSUME IndInv, NEW s \in Senders, Drop(s)
  PROVE  IndInv'
<1>0. Typed(out, writer, snd, pending) /\ Exact(out, writer, snd, pending) /\ Fits(out, writer, snd)
  BY Given
<1>1. /\ snd[s].pc = "drop" /\ done' = TRUE /\ UNCHANGED <<out, pending, writer, refused>>
      /\ snd' = [snd EXCEPT ![s] = [pc |-> "idle", n |-> 0]]
  BY DEF Drop, SetSender
<1>2. TypeOK' /\ Carries'
  BY <1>1 DEF IndInv, TypeOK, Carries
<1>3. Moves(snd, snd', s, "idle", 0)
  BY <1>1, <1>2 DEF IndInv, TypeOK, States, Pcs, Moves
<1>a. /\ snd[s].pc \notin Counted /\ "idle" \notin Counted
      /\ snd[s].pc \notin LetIn /\ "idle" \notin LetIn
  BY <1>1 DEF Counted, LetIn
<1>4. \A P \in {LetIn, Counted} : Held(snd', P) = Held(snd, P) /\ At(snd', P) = At(snd, P)
  BY <1>3, <1>a, Stays DEF Keeps
<1>5. Exact(out', writer', snd', pending') /\ Fits(out', writer', snd')
  BY <1>0, <1>1, <1>4 DEF Exact, Fits
<1>6. GapMeansDrop'
  BY <1>1 DEF GapMeansDrop
<1> QED BY <1>2, <1>5, <1>6, Shown

LEMMA TakeStep ==
  ASSUME IndInv, Take
  PROVE  IndInv'
<1>0. Typed(out, writer, snd, pending) /\ Exact(out, writer, snd, pending) /\ Fits(out, writer, snd)
  BY Given
<1>1. /\ writer.pc = "wait" /\ out # <<>> /\ writer' = [pc |-> "write", n |-> Head(out)]
      /\ out' = Tail(out) /\ UNCHANGED <<pending, done, snd, refused>>
  BY DEF Take
<1>2. /\ out \in Seq(Sizes) /\ Head(out) \in Sizes /\ out' \in Seq(Sizes)
      /\ Len(out') <= QueueMessages
  BY <1>1, SendQueueAssumption DEF IndInv, TypeOK
<1>3. TypeOK' /\ Carries'
  BY <1>1, <1>2 DEF IndInv, TypeOK, Carries
<1>4. writer \in Writers /\ writer' \in Writers
  BY <1>0, <1>1, <1>2 DEF Typed, Writers
<1>5. /\ Bytes(Queue(out', writer')) = Bytes(Queue(out, writer))
      /\ Cardinality(Places(out', writer')) = Cardinality(Places(out, writer))
  BY <1>1, <1>2, <1>4, QueueTake
<1>6. Exact(out', writer', snd', pending') /\ Fits(out', writer', snd')
  BY <1>0, <1>1, <1>5 DEF Exact, Fits
<1>7. GapMeansDrop'
  BY <1>1 DEF IndInv, GapMeansDrop
<1> QED BY <1>3, <1>6, <1>7, Shown

LEMMA WroteStep ==
  ASSUME IndInv, Wrote
  PROVE  IndInv'
<1>0. Typed(out, writer, snd, pending) /\ Exact(out, writer, snd, pending) /\ Fits(out, writer, snd)
  BY Given
<1>1. /\ writer.pc = "write" /\ writer.n \in Nat
      /\ pending' = pending - writer.n /\ UNCHANGED <<out, done, snd, refused>>
  BY SendQueueAssumption DEF Wrote, IndInv, Carries
<1>2. writer' \in Writers /\ writer'.pc # "write"
  BY DEF Wrote, Writers
<1>3. writer \in Writers /\ out \in Seq(Sizes) /\ snd \in States
  BY <1>0 DEF Typed
<1>4. /\ Bytes(Queue(out, writer)) = Bytes(Queue(out, writer')) + writer.n
      /\ Cardinality(Places(out, writer)) = Cardinality(Places(out, writer')) + 1
  BY <1>1, <1>2, <1>3, QueueWrote
<1>5. Bytes(Queue(out, writer')) \in Nat
  BY <1>2, <1>3, QueueType
<1>6. Exact(out', writer', snd', pending') /\ pending' \in Nat
  BY <1>0, <1>1, <1>4, <1>5, Numbers DEF Exact
<1>7. Typed(out', writer', snd', pending')
  BY <1>0, <1>1, <1>2, <1>6 DEF Typed
<1>8. Fits(out', writer', snd')
  BY <1>0, <1>1, <1>4, <1>7, Numbers DEF Fits
<1>9. TypeOK' /\ Carries'
  BY <1>1, <1>2, <1>6 DEF IndInv, TypeOK, Carries, Writers
<1>10. GapMeansDrop'
  BY <1>1 DEF IndInv, GapMeansDrop
<1> QED BY <1>6, <1>8, <1>9, <1>10, Shown

\* The writer that ends, and a client that is closed, leave the queue alone.
LEMMA EndStep ==
  ASSUME IndInv, WriterDrops \/ WriterExit \/ Close
  PROVE  IndInv'
<1>0. Typed(out, writer, snd, pending) /\ Exact(out, writer, snd, pending) /\ Fits(out, writer, snd)
  BY Given
<1>1. /\ UNCHANGED <<out, pending, snd, refused>> /\ (done => done') /\ done' \in BOOLEAN
      /\ \/ writer' = writer
         \/ writer' = [pc |-> "exit", n |-> 0] /\ writer.pc \in {"drop", "wait"}
  BY DEF WriterDrops, WriterExit, Close, IndInv, TypeOK
<1>2. TypeOK' /\ Carries'
  BY <1>1 DEF IndInv, TypeOK, Carries
<1>3. Queue(out', writer') = Queue(out, writer) /\ Places(out', writer') = Places(out, writer)
  <2>1. CASE writer' = writer
    BY <1>1, <2>1
  <2>2. CASE writer.pc # "write" /\ writer'.pc # "write"
    BY <1>0, <1>1, <2>2, QueueStays DEF Typed
  <2> QED BY <1>1, <2>1, <2>2
<1>4. Exact(out', writer', snd', pending') /\ Fits(out', writer', snd')
  BY <1>0, <1>1, <1>3 DEF Exact, Fits
<1>5. GapMeansDrop'
  BY <1>1 DEF IndInv, GapMeansDrop
<1> QED BY <1>2, <1>4, <1>5, Shown

(***************************************************************************)
(* The theorems.                                                            *)
(***************************************************************************)
LEMMA InitIndInv == Init => IndInv
<1> SUFFICES ASSUME Init PROVE IndInv
  OBVIOUS
<1>0. out \in Seq(Sizes) /\ Len(out) = 0 /\ 0 <= QueueMessages
  BY SendQueueAssumption DEF Init
<1>1. TypeOK /\ Carries
  <2>1. snd \in [Senders -> [pc : {"idle", "put", "undo", "drop"}, n : Sizes \cup {0}]]
    BY DEF Init, Quiet
  <2>2. TypeOK
    BY <1>0, <2>1 DEF Init, TypeOK
  <2>3. Carries
    BY DEF Init, Carries, Quiet
  <2> QED BY <2>2, <2>3
<1>2. Typed(out, writer, snd, pending)
  BY <1>1, InTerms
<1>3. Places(out, writer) = {}
  BY DEF Init, Places
<1>4. \A P \in {LetIn, Counted} : At(snd, P) = {}
  BY DEF Init, Quiet, At, LetIn, Counted
<1>5. Cardinality({}) = 0
  BY FS_EmptySet
<1>6. /\ IsFiniteSet(At(snd, Counted)) /\ Held(snd, Counted) \in [At(snd, Counted) -> Nat]
  BY <1>2, HeldType DEF Typed
<1>7. Cardinality(At(snd, Counted)) = 0
  BY <1>4, <1>5
<1>8. Bytes(Held(snd, Counted)) = 0
  BY ONLY <1>6, <1>7, NoBytes
<1>9. Bytes(Queue(out, writer)) = 0 /\ Bytes(Held(snd, LetIn)) = 0
  BY <1>2, <1>3, <1>4, <1>5, Numbers
<1>10. Exact(out, writer, snd, pending)
  BY <1>8, <1>9 DEF Exact, Init
<1>11. Fits(out, writer, snd)
  BY <1>9, SendQueueAssumption DEF Fits
<1>12. GapMeansDrop
  BY DEF GapMeansDrop, Init
<1> QED BY <1>1, <1>10, <1>11, <1>12, InTerms DEF IndInv

LEMMA NextIndInv == IndInv /\ [Next]_vars => IndInv'
<1> SUFFICES ASSUME IndInv, [Next]_vars PROVE IndInv'
  OBVIOUS
<1>1. CASE \E s \in Senders : Enqueue(s) \/ \E n \in Sizes : Add(s, n)
  BY <1>1, AddStep, PutStep, UndoStep, DropStep DEF Enqueue
<1>2. CASE WriteLoop \/ Close
  BY <1>2, TakeStep, WroteStep, EndStep DEF WriteLoop
<1>3. CASE UNCHANGED vars
  <2>1. TypeOK' /\ Carries' /\ GapMeansDrop'
    BY <1>3 DEF vars, IndInv, TypeOK, Carries, GapMeansDrop
  <2>2. Exact(out', writer', snd', pending') /\ Fits(out', writer', snd')
    BY <1>3, Given DEF vars
  <2> QED BY <2>1, <2>2, Shown
<1> QED BY <1>1, <1>2, <1>3 DEF Next

\* The invariant holds in every reachable state.
THEOREM SendQueueInductive == Spec => []IndInv
BY InitIndInv, NextIndInv, PTL DEF Spec

\* The state keeps its types; in particular pending never goes below zero.
THEOREM SendQueueTyped == Spec => []TypeOK
<1>1. IndInv => TypeOK
  BY DEF IndInv
<1> QED BY <1>1, SendQueueInductive, PTL

\* enqueue and writeLoop neither leak budget nor free it twice: pending is at all
\* times the bytes queued, being written or being decided on, for any number of
\* senders and any sizes.
THEOREM PendingIsExact == Spec => []PendingExact
<1>1. IndInv => PendingExact
  BY DEF IndInv
<1> QED BY <1>1, SendQueueInductive, PTL

\* A client's queue holds no more than queueBytes, or one oversized message,
\* however many senders race between the counter and the channel.
THEOREM MemoryIsBounded == Spec => []MemoryBounded
<1>1. ASSUME IndInv PROVE MemoryBounded
  <2>1. Typed(out, writer, snd, pending) /\ Fits(out, writer, snd)
    BY <1>1, Given
  <2>2. \/ Bytes(Queue(out, writer)) <= QueueBytes
        \/ Cardinality(Places(out, writer)) = 1
    BY <2>1, Numbers DEF Fits
  <2> QED BY <2>2, InTerms DEF MemoryBounded
<1> QED BY <1>1, SendQueueInductive, PTL

\* A message that enqueue refused closes its client: no client goes on reading a
\* stream with a hole in it.
THEOREM RefusalCloses == Spec => []GapMeansDrop
<1>1. IndInv => GapMeansDrop
  BY DEF IndInv
<1> QED BY <1>1, SendQueueInductive, PTL
=============================================================================
