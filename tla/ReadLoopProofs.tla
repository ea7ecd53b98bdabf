--------------------------- MODULE ReadLoopProofs ---------------------------
(***************************************************************************)
(* Proofs about the two sides of a driver's read loop: what it takes in     *)
(* (Incoming) and the callers that it wakes (Waiters), for any number of    *)
(* items, descriptors, callers, keys and channels.                          *)
(***************************************************************************)
EXTENDS Incoming, Waiters, FiniteSetTheorems, TLAPS

(***************************************************************************)
(* The waiters.                                                             *)
(***************************************************************************)
\* A caller holds a channel exactly while it is in its select.
HoldsInSelect ==
  \A w \in Callers : (wt[w].ch # NoChan) <=> At(w, "select")

\* The three safety properties support each other.
WaitersInd == TypeOK /\ HoldsInSelect /\ RegisteredEmpty /\ NoOrphan /\ ChannelIsPrivate

\* The initial state satisfies WaitersInd.
LEMMA WaitersStart == WaitersInit => WaitersInd
<1> SUFFICES ASSUME WaitersInit PROVE WaitersInd
  OBVIOUS
<1> USE DEF WaitersInit
<1>1. TypeOK
  BY DEF TypeOK
<1>2. HoldsInSelect /\ NoOrphan /\ ChannelIsPrivate
  BY WaitersAssumption DEF HoldsInSelect, NoOrphan, ChannelIsPrivate, At
<1>3. RegisteredEmpty
  BY DEF RegisteredEmpty, Registered
<1> QED BY <1>1, <1>2, <1>3 DEF WaitersInd

\* What Move does: only caller w changes.
LEMMA MoveEffect ==
  ASSUME TypeOK, NEW w \in Callers,
         NEW at \in {"check", "register", "select", "done"}, NEW c \in Chans \cup {NoChan},
         Move(w, at, c)
  PROVE  /\ wt' \in [Callers -> [pc : {"idle", "check", "register", "select", "done"},
                                 mode : {"none", "settle", "update"},
                                 key : Keys, ch : Chans \cup {NoChan}]]
         /\ wt'[w].pc = at /\ wt'[w].ch = c /\ wt'[w].key = wt[w].key
         /\ \A v \in Callers \ {w} : wt'[v] = wt[v]
BY DEF TypeOK, Move

\* A caller that gives up its channel disturbs nobody.
LEMMA LetGo ==
  ASSUME WaitersInd, NEW w \in Callers, NEW at \in {"check", "register", "done"},
         Move(w, at, NoChan), UNCHANGED <<vec, valid, reader, reg, buf, fresh>>
  PROVE  WaitersInd'
<1> USE DEF WaitersInd
<1>1. /\ wt'[w].pc = at /\ wt'[w].ch = NoChan /\ wt'[w].key = wt[w].key
      /\ \A v \in Callers \ {w} : wt'[v] = wt[v]
  BY MoveEffect
<1>2. TypeOK'
  BY MoveEffect DEF TypeOK
<1>3. HoldsInSelect' /\ NoOrphan'
  BY <1>1 DEF HoldsInSelect, NoOrphan, At
<1>4. RegisteredEmpty'
  BY DEF RegisteredEmpty, Registered
<1>5. ChannelIsPrivate'
  BY <1>1, WaitersAssumption DEF ChannelIsPrivate, TypeOK
<1> QED BY <1>2, <1>3, <1>4, <1>5

\* Every step of the read loop and of a caller preserves WaitersInd.
LEMMA WaitersStep == WaitersInd /\ [WaitersNext]_waitersVars => WaitersInd'
<1> SUFFICES ASSUME WaitersInd, [WaitersNext]_waitersVars PROVE WaitersInd'
  OBVIOUS
<1> USE DEF WaitersInd
<1> DEFINE Quiet == UNCHANGED <<reg, buf, wt>>
<1>1. ASSUME Quiet PROVE HoldsInSelect' /\ RegisteredEmpty' /\ NoOrphan' /\ ChannelIsPrivate'
  BY <1>1 DEF HoldsInSelect, RegisteredEmpty, Registered, NoOrphan, ChannelIsPrivate, At
<1>2. ASSUME NEW k \in Keys, NEW v \in {"busy", "settled"}, ApplyUpdate(k, v) PROVE WaitersInd'
  BY <1>1, <1>2 DEF ApplyUpdate, TypeOK
<1>3. ASSUME NEW k \in Keys, ApplyDel(k) PROVE WaitersInd'
  BY <1>1, <1>3 DEF ApplyDel, TypeOK
<1>4. CASE ApplyDelDevice
  BY <1>1, <1>4 DEF ApplyDelDevice, TypeOK
<1>5. CASE Invalidate \/ Reset
  <2>1. reader' \in [pc : {"run", "notify", "fail", "down"}, key : Keys]
    BY <1>5 DEF Invalidate, Reset, TypeOK
  <2>2. vec' \in [Keys -> {"undef", "busy", "settled"}]
    BY <1>5 DEF Invalidate, Reset, TypeOK
  <2>3. valid' \in BOOLEAN
    BY <1>5, Zenon DEF Invalidate, Reset
  <2> QED BY <1>1, <1>5, <2>1, <2>2, <2>3 DEF Invalidate, Reset, TypeOK
<1>6. CASE Notify
  <2> DEFINE k == reader.key
  <2>1. TypeOK'
    BY <1>6 DEF Notify, SendAll, TypeOK
  <2>2. HoldsInSelect'
    BY <1>6 DEF Notify, HoldsInSelect, At
  <2>3. \A c \in Chans : buf'[c] = IF c \in reg[k] THEN "nil" ELSE buf[c]
    BY <1>6 DEF Notify, SendAll
  <2>4. k \in Keys /\ \A j \in Keys : reg'[j] = IF j = k THEN {} ELSE reg[j]
    BY <1>6 DEF Notify, TypeOK
  <2>5. RegisteredEmpty'
    <3> SUFFICES ASSUME NEW j \in Keys, NEW c \in reg'[j] PROVE buf'[c] = "empty"
      BY DEF RegisteredEmpty, Registered
    <3>1. j # k /\ c \in reg[j] /\ c \in Chans
      BY <2>4 DEF TypeOK
    <3> QED BY <2>3, <2>4, <3>1 DEF RegisteredEmpty, Registered, ChannelIsPrivate
  <2>6. NoOrphan'
    BY <1>6, <2>3, <2>4, WaitersAssumption DEF Notify, NoOrphan, At, HoldsInSelect, TypeOK, ChannelIsPrivate
  <2>7. ChannelIsPrivate'
    BY <1>6, <2>4 DEF Notify, ChannelIsPrivate
  <2> QED BY <2>1, <2>2, <2>5, <2>6, <2>7
<1>7. CASE FailAll
  <2>1. TypeOK'
    BY <1>7 DEF FailAll, SendAll, TypeOK
  <2>2. HoldsInSelect'
    BY <1>7 DEF FailAll, HoldsInSelect, At
  <2>3. RegisteredEmpty' /\ ChannelIsPrivate'
    BY <1>7 DEF FailAll, RegisteredEmpty, Registered, ChannelIsPrivate
  <2>4. NoOrphan'
    <3> SUFFICES ASSUME NEW w \in Callers, At(w, "select") PROVE buf'[wt[w].ch] # "empty"
      BY <1>7 DEF FailAll, NoOrphan, At
    <3>1. wt[w].ch \in Chans /\ wt[w].key \in Keys
      BY DEF HoldsInSelect, TypeOK
    <3>2. buf'[wt[w].ch] = IF wt[w].ch \in Registered THEN "err" ELSE buf[wt[w].ch]
      BY <1>7, <3>1 DEF FailAll, SendAll
    <3> QED BY <3>1, <3>2 DEF NoOrphan, Registered
  <2> QED BY <2>1, <2>2, <2>3, <2>4
<1>8. ASSUME NEW w \in Callers, NEW k \in Keys, NEW m \in {"settle", "update"},
             NEW z \in BOOLEAN, Call(w, k, m, z)
      PROVE WaitersInd'
  <2>1. /\ wt'[w].pc = "check" /\ wt'[w].ch = NoChan
        /\ \A v \in Callers \ {w} : wt'[v] = wt[v]
    BY <1>8 DEF Call, TypeOK
  <2>2. TypeOK'
    BY <1>8 DEF Call, TypeOK
  <2>3. HoldsInSelect' /\ NoOrphan'
    BY <1>8, <2>1 DEF Call, HoldsInSelect, NoOrphan, At
  <2>4. RegisteredEmpty'
    BY <1>8 DEF Call, RegisteredEmpty, Registered
  <2>5. ChannelIsPrivate'
    BY <1>8, <2>1, WaitersAssumption DEF Call, ChannelIsPrivate, TypeOK
  <2> QED BY <2>2, <2>3, <2>4, <2>5
<1>9. ASSUME NEW w \in Callers, Check(w) PROVE WaitersInd'
  BY <1>9, LetGo DEF Check
<1>10. ASSUME NEW w \in Callers, Register(w) PROVE WaitersInd'
  <2>1. PICK c \in Chans \ (Registered \cup Held) :
          /\ reg' = [reg EXCEPT ![wt[w].key] = @ \cup {c}]
          /\ buf' = [buf EXCEPT ![c] = "empty"]
          /\ Move(w, "select", c)
    BY <1>10 DEF Register
  <2>2. /\ wt'[w].pc = "select" /\ wt'[w].ch = c /\ wt'[w].key = wt[w].key
        /\ \A v \in Callers \ {w} : wt'[v] = wt[v]
    BY <2>1, MoveEffect
  <2>3. TypeOK'
    BY <1>10, <2>1, MoveEffect DEF Register, TypeOK
  <2>4. \A v \in Callers : wt[v].ch # c
    BY <2>1, WaitersAssumption DEF Held
  <2>5. \A k \in Keys : c \notin reg[k]
    BY <2>1 DEF Registered
  <2>6. wt[w].key \in Keys /\ \A k \in Keys : reg'[k] = IF k = wt[w].key THEN reg[k] \cup {c} ELSE reg[k]
    BY <2>1 DEF TypeOK
  <2>7. \A b \in Chans : buf'[b] = IF b = c THEN "empty" ELSE buf[b]
    BY <2>1 DEF TypeOK
  <2>8. HoldsInSelect'
    BY <2>1, <2>2, WaitersAssumption DEF HoldsInSelect, At
  <2>9. RegisteredEmpty'
    <3> SUFFICES ASSUME NEW k \in Keys, NEW b \in reg'[k] PROVE buf'[b] = "empty"
      BY DEF RegisteredEmpty, Registered
    <3>1. CASE b = c
      BY <2>7, <3>1
    <3>2. CASE b # c
      <4>1. b \in reg[k]
        BY <2>6, <3>2
      <4>2. b \in Chans
        BY <4>1 DEF TypeOK
      <4>3. buf[b] = "empty"
        BY <4>1 DEF RegisteredEmpty, Registered
      <4> QED BY <2>7, <3>2, <4>2, <4>3
    <3> QED BY <3>1, <3>2
  <2>10. NoOrphan'
    <3> SUFFICES ASSUME NEW v \in Callers, wt'[v].pc = "select", buf'[wt'[v].ch] = "empty"
                 PROVE  wt'[v].ch \in reg'[wt'[v].key]
      BY DEF NoOrphan, At
    <3>1. CASE v = w
      BY <2>2, <2>6, <3>1
    <3>2. CASE v # w
      <4>1. wt'[v] = wt[v]
        BY <2>2, <3>2
      <4>2. wt[v].ch \in Chans /\ wt[v].ch # c /\ wt[v].key \in Keys
        BY <2>4, <4>1 DEF HoldsInSelect, At, TypeOK
      <4>3. buf[wt[v].ch] = "empty"
        BY <2>7, <4>1, <4>2
      <4>4. wt[v].ch \in reg[wt[v].key]
        BY <4>1, <4>3 DEF NoOrphan, At
      <4> QED BY <2>6, <4>1, <4>2, <4>4
    <3> QED BY <3>1, <3>2
  <2>11. ChannelIsPrivate'
    <3>1. \A u, v \in Callers : u # v /\ wt'[u].ch = wt'[v].ch => wt'[v].ch = NoChan
      BY <2>2, <2>4 DEF ChannelIsPrivate
    <3>2. ASSUME NEW k \in Keys, NEW v \in Callers, wt'[v].ch \in reg'[k]
          PROVE  k = wt'[v].key
      <4>1. CASE v = w
        BY <2>2, <2>5, <2>6, <3>2, <4>1
      <4>2. CASE v # w
        <5>1. wt'[v] = wt[v] /\ wt[v].ch # c
          BY <2>2, <2>4, <4>2
        <5>2. wt[v].ch \in reg[k]
          BY <2>6, <3>2, <5>1
        <5> QED BY <5>1, <5>2 DEF ChannelIsPrivate
      <4> QED BY <4>1, <4>2
    <3>3. ASSUME NEW j \in Keys, NEW k \in Keys, j # k, NEW b \in reg'[j], b \in reg'[k]
          PROVE  FALSE
      <4>1. CASE b = c
        BY <2>5, <2>6, <3>3, <4>1
      <4>2. CASE b # c
        <5>1. b \in reg[j] /\ b \in reg[k]
          BY <2>6, <3>3, <4>2
        <5> QED BY <3>3, <5>1 DEF ChannelIsPrivate
      <4> QED BY <4>1, <4>2
    <3> QED BY <3>1, <3>2, <3>3 DEF ChannelIsPrivate
  <2> QED BY <2>3, <2>8, <2>9, <2>10, <2>11
<1>11. ASSUME NEW w \in Callers, Wake(w) PROVE WaitersInd'
  BY <1>11, LetGo DEF Wake
<1>12. ASSUME NEW w \in Callers, Timeout(w) PROVE WaitersInd'
  BY <1>12, LetGo DEF Timeout
<1>13. ASSUME NEW w \in Callers, Return(w) PROVE WaitersInd'
  <2>1. /\ wt'[w].pc = "idle" /\ wt'[w].ch = NoChan /\ wt'[w].key = wt[w].key
        /\ \A v \in Callers \ {w} : wt'[v] = wt[v]
    BY <1>13 DEF Return, TypeOK
  <2>2. TypeOK'
    BY <1>13 DEF Return, TypeOK
  <2>3. HoldsInSelect' /\ NoOrphan'
    BY <1>13, <2>1 DEF Return, HoldsInSelect, NoOrphan, At
  <2>4. RegisteredEmpty'
    BY <1>13 DEF Return, RegisteredEmpty, Registered
  <2>5. ChannelIsPrivate'
    BY <1>13, <2>1, WaitersAssumption DEF Return, ChannelIsPrivate, TypeOK
  <2> QED BY <2>2, <2>3, <2>4, <2>5
<1>14. CASE UNCHANGED waitersVars
  BY <1>1, <1>14 DEF waitersVars, TypeOK
<1> QED
  BY <1>2, <1>3, <1>4, <1>5, <1>6, <1>7, <1>8, <1>9, <1>10, <1>11, <1>12, <1>13, <1>14
  DEF WaitersNext, ReadLoop, Steps

\* The type invariant.
THEOREM WaitersTyped == WaitersSpec => []TypeOK
<1>1. WaitersInd => TypeOK
  BY DEF WaitersInd
<1> QED BY WaitersStart, WaitersStep, <1>1, PTL DEF WaitersSpec

\* notify and failAll never block on a channel, however many callers there are.
THEOREM NotifyNeverBlocks == WaitersSpec => []RegisteredEmpty
<1>1. WaitersInd => RegisteredEmpty
  BY DEF WaitersInd
<1> QED BY WaitersStart, WaitersStep, <1>1, PTL DEF WaitersSpec

\* No caller is left blocked on a channel nobody will send on, and channels are
\* not shared between callers or keys.
THEOREM WakeupsReachTheirCaller == WaitersSpec => [](NoOrphan /\ ChannelIsPrivate)
<1>1. WaitersInd => NoOrphan /\ ChannelIsPrivate
  BY DEF WaitersInd
<1> QED BY WaitersStart, WaitersStep, <1>1, PTL DEF WaitersSpec

(***************************************************************************)
(* What the read loop takes in: places, nesting and counts.                 *)
(***************************************************************************)
Places == Nat \X Nat
Member == [att : BOOLEAN, data : BOOLEAN]
Item   == [n : Nat, toks : Seq(Tokens), fds : Seq(Places)]

\* One place, or one descriptor, comes before another.
Before(x, y) == x[1] < y[1] \/ (x[1] = y[1] /\ x[2] < y[2])

\* The place in q that follows token i of item n, or its start when i is 0.
After(q, n, i) == IF n <= Len(q) /\ i >= Len(q[n].toks) THEN <<n + 1, 1>> ELSE <<n, i + 1>>
EndPlace(q) == <<Len(q) + 1, 1>>

\* R is the rest of the stream q from the place x on: every token once, in order.
Chain(q, R, x) ==
  /\ \A j \in 1..Len(R) : R[j][1] \in 1..Len(q) /\ R[j][2] \in 1..Len(q[R[j][1]].toks)
  /\ \A j \in 1..Len(R) : ~Before(R[j], x)
  /\ \A j, k \in 1..Len(R) : j < k => Before(R[j], R[k])
  /\ \A j \in 1..(Len(R) - 1) : R[j + 1] = After(q, R[j][1], R[j][2])
  /\ R = << >> => x = EndPlace(q)
  /\ R # << >> => R[1] = x /\ After(q, R[Len(R)][1], R[Len(R)][2]) = EndPlace(q)

\* The attached members among the first i tokens of s, and among those collected.
Seen(s, i) == {j \in Members(s) : j <= i /\ s[j].att}
AttachedOf(m) == {j \in DOMAIN m : m[j].att}

\* Depth counts finite sets.
LEMMA DepthType ==
  ASSUME NEW s, NEW i \in Nat
  PROVE  /\ Depth(s, i) \in Int
         /\ IsFiniteSet({j \in 1..(i - 1) : s[j].t = "open"})
         /\ IsFiniteSet({j \in 1..(i - 1) : s[j].t = "close"})
<1> DEFINE O == {j \in 1..(i - 1) : s[j].t = "open"}
           C == {j \in 1..(i - 1) : s[j].t = "close"}
<1>1. IsFiniteSet(1..(i - 1))
  BY FS_Interval
<1>2. O \in SUBSET (1..(i - 1)) /\ C \in SUBSET (1..(i - 1))
  OBVIOUS
<1>3. IsFiniteSet(O) /\ IsFiniteSet(C)
  BY <1>1, <1>2, FS_Subset
<1>4. Cardinality(O) \in Nat /\ Cardinality(C) \in Nat
  BY <1>3, FS_CardinalityType
<1> QED BY <1>3, <1>4 DEF Depth

\* Nothing is open before the first token.
LEMMA DepthFirst == \A s : Depth(s, 1) = 0
<1> TAKE s
<1>1. {j \in 1..(1 - 1) : s[j].t = "open"} = {} /\ {j \in 1..(1 - 1) : s[j].t = "close"} = {}
  OBVIOUS
<1> QED BY <1>1, FS_EmptySet DEF Depth

\* A start tag goes down, a close tag up, and nothing else moves.
LEMMA DepthNext ==
  ASSUME NEW s, NEW i \in Nat \ {0}
  PROVE  Depth(s, i + 1) = IF s[i].t = "open" THEN Depth(s, i) + 1
                           ELSE IF s[i].t = "close" THEN Depth(s, i) - 1 ELSE Depth(s, i)
<1> DEFINE O(k) == {j \in 1..k : s[j].t = "open"}
           C(k) == {j \in 1..k : s[j].t = "close"}
<1>1. (i + 1) - 1 = i /\ i - 1 \in Nat
  OBVIOUS
<1>2. 1..i = (1..(i - 1)) \cup {i} /\ i \notin 1..(i - 1)
  OBVIOUS
<1>3. IsFiniteSet(O(i - 1)) /\ IsFiniteSet(C(i - 1))
  BY DepthType
<1>4. Cardinality(O(i - 1)) \in Nat /\ Cardinality(C(i - 1)) \in Nat
  BY <1>3, FS_CardinalityType
<1>5. O(i) = IF s[i].t = "open" THEN O(i - 1) \cup {i} ELSE O(i - 1)
  BY <1>2
<1>6. C(i) = IF s[i].t = "close" THEN C(i - 1) \cup {i} ELSE C(i - 1)
  BY <1>2
<1>7. i \notin O(i - 1) /\ i \notin C(i - 1)
  BY <1>2
<1>8. Cardinality(O(i)) = IF s[i].t = "open" THEN Cardinality(O(i - 1)) + 1 ELSE Cardinality(O(i - 1))
  BY <1>3, <1>5, <1>7, FS_AddElement
<1>9. Cardinality(C(i)) = IF s[i].t = "close" THEN Cardinality(C(i - 1)) + 1 ELSE Cardinality(C(i - 1))
  BY <1>3, <1>6, <1>7, FS_AddElement
<1>10. Depth(s, i) = Cardinality(O(i - 1)) - Cardinality(C(i - 1))
  BY DEF Depth
<1>11. Depth(s, i + 1) = Cardinality(O(i)) - Cardinality(C(i))
  BY <1>1 DEF Depth
<1> HIDE DEF O, C
<1> QED BY <1>4, <1>8, <1>9, <1>10, <1>11

\* The depth in a prefix is that in the whole.
LEMMA DepthPrefix ==
  ASSUME NEW s \in Seq(Tokens), NEW k \in 1..Len(s), NEW i \in 1..(k + 1)
  PROVE  Depth(SubSeq(s, 1, k), i) = Depth(s, i)
<1> DEFINE r == SubSeq(s, 1, k)
<1>1. \A j \in 1..(i - 1) : r[j] = s[j]
  OBVIOUS
<1> HIDE DEF r
<1>2. {j \in 1..(i - 1) : r[j].t = "open"} = {j \in 1..(i - 1) : s[j].t = "open"}
  BY <1>1
<1>3. {j \in 1..(i - 1) : r[j].t = "close"} = {j \in 1..(i - 1) : s[j].t = "close"}
  BY <1>1
<1>4. Depth(r, i) = Depth(s, i)
  BY <1>2, <1>3 DEF Depth
<1> QED BY <1>4 DEF r

\* What a token adds to the attached members that have been seen.
LEMMA SeenNext ==
  ASSUME NEW s \in Seq(Tokens), NEW i \in Nat, i < Len(s)
  PROVE  /\ Cardinality(Seen(s, i)) \in Nat
         /\ i + 1 \in Members(s) /\ s[i + 1].att
              => Cardinality(Seen(s, i + 1)) = Cardinality(Seen(s, i)) + 1
         /\ ~(i + 1 \in Members(s) /\ s[i + 1].att) => Seen(s, i + 1) = Seen(s, i)
<1>1. Members(s) \subseteq Nat /\ Seen(s, i) \in SUBSET (1..i)
  BY DEF Members, Seen
<1>2. IsFiniteSet(Seen(s, i))
  <2>1. IsFiniteSet(1..i)
    BY FS_Interval
  <2> QED BY <1>1, <2>1, FS_Subset
<1>3. Cardinality(Seen(s, i)) \in Nat
  BY <1>2, FS_CardinalityType
<1>4. i + 1 \notin Seen(s, i)
  BY DEF Seen
<1>5. i + 1 \in Members(s) /\ s[i + 1].att => Seen(s, i + 1) = Seen(s, i) \cup {i + 1}
  BY <1>1 DEF Seen
<1>6. ~(i + 1 \in Members(s) /\ s[i + 1].att) => Seen(s, i + 1) = Seen(s, i)
  BY <1>1 DEF Seen
<1>7. Cardinality(Seen(s, i) \cup {i + 1}) = Cardinality(Seen(s, i)) + 1
  BY <1>2, <1>4, FS_AddElement
<1> QED BY <1>3, <1>5, <1>6, <1>7

\* A collected member counts when it is attached.
LEMMA AttachedAppend ==
  ASSUME NEW m \in Seq(Member), NEW x \in Member
  PROVE  /\ IsFiniteSet(AttachedOf(m)) /\ Cardinality(AttachedOf(m)) \in Nat
         /\ x.att => Cardinality(AttachedOf(Append(m, x))) = Cardinality(AttachedOf(m)) + 1
         /\ ~x.att => AttachedOf(Append(m, x)) = AttachedOf(m)
<1> DEFINE a == Append(m, x)
           n == Len(m) + 1
<1>1. DOMAIN m = 1..Len(m) /\ Len(m) \in Nat /\ DOMAIN a = 1..n
  OBVIOUS
<1>2. (\A j \in 1..Len(m) : a[j] = m[j]) /\ a[n] = x
  OBVIOUS
<1> HIDE DEF a
<1>3. AttachedOf(m) \in SUBSET (1..Len(m))
  BY <1>1 DEF AttachedOf
<1>4. IsFiniteSet(AttachedOf(m))
  <2>1. IsFiniteSet(1..Len(m))
    BY <1>1, FS_Interval
  <2> QED BY <1>3, <2>1, FS_Subset
<1>5. x.att => AttachedOf(a) = AttachedOf(m) \cup {n}
  BY <1>1, <1>2 DEF AttachedOf
<1>6. ~x.att => AttachedOf(a) = AttachedOf(m)
  BY <1>1, <1>2 DEF AttachedOf
<1>7. n \notin AttachedOf(m)
  BY <1>1, <1>3
<1>8. Cardinality(AttachedOf(m) \cup {n}) = Cardinality(AttachedOf(m)) + 1
  BY <1>4, <1>7, FS_AddElement
<1>9. Cardinality(AttachedOf(m)) \in Nat
  BY <1>4, FS_CardinalityType
<1> QED BY <1>4, <1>5, <1>6, <1>8, <1>9 DEF a

\* The members after the first.
LEMMA AttachedTail ==
  ASSUME NEW m \in Seq(Member), m # << >>
  PROVE  /\ Cardinality(AttachedOf(m)) \in Nat
         /\ Cardinality(AttachedOf(Tail(m))) \in Nat
         /\ Cardinality(AttachedOf(m)) = IF Head(m).att THEN Cardinality(AttachedOf(Tail(m))) + 1
                                         ELSE Cardinality(AttachedOf(Tail(m)))
<1> DEFINE r == Tail(m)
           S == AttachedOf(m) \ {1}
           T == AttachedOf(r)
           f == [j \in S |-> j - 1]
<1>1. /\ DOMAIN m = 1..Len(m) /\ Len(m) \in Nat \ {0} /\ DOMAIN r = 1..(Len(m) - 1)
      /\ r \in Seq(Member) /\ Head(m) = m[1] /\ 1 \in DOMAIN m
  OBVIOUS
<1>2. \A j \in 1..(Len(m) - 1) : r[j] = m[j + 1]
  OBVIOUS
<1> HIDE DEF r
<1>3. /\ IsFiniteSet(AttachedOf(m)) /\ Cardinality(AttachedOf(m)) \in Nat
      /\ IsFiniteSet(T) /\ Cardinality(T) \in Nat
  <2>1. AttachedOf(m) \in SUBSET (1..Len(m)) /\ T \in SUBSET (1..(Len(m) - 1))
    BY <1>1 DEF AttachedOf
  <2>2. IsFiniteSet(1..Len(m)) /\ IsFiniteSet(1..(Len(m) - 1))
    BY <1>1, FS_Interval
  <2>3. IsFiniteSet(AttachedOf(m)) /\ IsFiniteSet(T)
    BY <2>1, <2>2, FS_Subset
  <2> QED BY <2>3, FS_CardinalityType
<1>4. \A j \in S : j \in 2..Len(m) /\ m[j].att
  BY <1>1 DEF AttachedOf
<1>5. \A j \in S : j - 1 \in T
  <2> SUFFICES ASSUME NEW j \in S PROVE j - 1 \in T
    OBVIOUS
  <2>1. j - 1 \in 1..(Len(m) - 1) /\ (j - 1) + 1 = j
    BY <1>1, <1>4
  <2>2. r[j - 1] = m[j]
    BY <1>2, <2>1
  <2> QED BY <1>1, <1>4, <2>1, <2>2 DEF AttachedOf
<1>6. \A k \in T : k + 1 \in S /\ (k + 1) - 1 = k
  <2> SUFFICES ASSUME NEW k \in T PROVE k + 1 \in S /\ (k + 1) - 1 = k
    OBVIOUS
  <2>1. k \in 1..(Len(m) - 1) /\ r[k].att
    BY <1>1 DEF AttachedOf
  <2>2. r[k] = m[k + 1] /\ k + 1 \in 1..Len(m) /\ k + 1 # 1
    BY <1>1, <1>2, <2>1
  <2> QED BY <1>1, <2>1, <2>2 DEF AttachedOf
<1>7. f \in Bijection(S, T)
  <2>1. f \in [S -> T]
    BY <1>5
  <2>2. \A j, k \in S : f[j] = f[k] => j = k
    BY <1>4
  <2>3. \A k \in T : \E j \in S : f[j] = k
    BY <1>6
  <2> QED BY <2>1, <2>2, <2>3 DEF Bijection, Injection, Surjection, IsInjective
<1>8. Cardinality(T) = Cardinality(S)
  <2>1. IsFiniteSet(S)
    BY <1>3, FS_RemoveElement
  <2>2. ExistsBijection(S, T)
    BY <1>7 DEF ExistsBijection
  <2> QED BY <2>1, <2>2, FS_Bijection
<1>9. Cardinality(S) = IF 1 \in AttachedOf(m) THEN Cardinality(AttachedOf(m)) - 1
                       ELSE Cardinality(AttachedOf(m))
  BY <1>3, FS_RemoveElement
<1>10. 1 \in AttachedOf(m) <=> Head(m).att
  BY <1>1 DEF AttachedOf
<1> HIDE DEF S, T
<1> QED BY <1>3, <1>8, <1>9, <1>10 DEF r, T

(***************************************************************************)
(* The rest of the stream.                                                  *)
(***************************************************************************)
\* The parts of a concatenation.
LEMMA Concat ==
  ASSUME NEW S, NEW a \in Seq(S), NEW b \in Seq(S)
  PROVE  /\ a \o b \in Seq(S) /\ Len(a \o b) = Len(a) + Len(b)
         /\ \A i \in 1..Len(a) : (a \o b)[i] = a[i]
         /\ \A i \in 1..Len(b) : (a \o b)[Len(a) + i] = b[i]
OBVIOUS

LEMMA ConcatThree ==
  ASSUME NEW S, NEW a \in Seq(S), NEW b \in Seq(S), NEW c \in Seq(S)
  PROVE  (a \o b) \o c = a \o (b \o c)
OBVIOUS

\* A place follows its token and nothing is between them.
LEMMA AfterIsNext ==
  ASSUME NEW q \in Seq(Item), NEW x \in Places, NEW y \in Places,
         x[1] \in 1..Len(q), y[1] \in 1..Len(q), y[2] \in 1..Len(q[y[1]].toks), Before(x, y)
  PROVE  ~Before(y, After(q, x[1], x[2]))
<1>1. /\ x[1] \in Nat /\ x[2] \in Nat /\ y[1] \in Nat /\ y[2] \in Nat
      /\ Len(q) \in Nat /\ Len(q[x[1]].toks) \in Nat
  <2>1. q[x[1]] \in Item
    OBVIOUS
  <2>2. q[x[1]].toks \in Seq(Tokens)
    BY <2>1 DEF Item
  <2> QED BY <2>2 DEF Places
<1>2. CASE x[2] >= Len(q[x[1]].toks)
  <2>1. After(q, x[1], x[2]) = <<x[1] + 1, 1>>
    BY <1>1, <1>2 DEF After
  <2>2. y[1] # x[1]
    BY <1>1, <1>2 DEF Before
  <2> QED BY <1>1, <2>1, <2>2 DEF Before
<1>3. CASE ~(x[2] >= Len(q[x[1]].toks))
  <2>1. After(q, x[1], x[2]) = <<x[1], x[2] + 1>>
    BY <1>1, <1>3 DEF After
  <2> QED BY <1>1, <2>1 DEF Before
<1> QED BY <1>2, <1>3

\* One token is taken from the rest.
LEMMA ChainTail ==
  ASSUME NEW q \in Seq(Item), NEW R \in Seq(Places), R # << >>, NEW x, Chain(q, R, x)
  PROVE  Chain(q, Tail(R), After(q, R[1][1], R[1][2]))
<1> DEFINE T == Tail(R)
<1> DEFINE y == After(q, R[1][1], R[1][2])
<1>1. /\ T \in Seq(Places) /\ Len(R) \in Nat \ {0} /\ Len(T) = Len(R) - 1
      /\ \A j \in 1..Len(T) : T[j] = R[j + 1]
  OBVIOUS
<1> HIDE DEF T
<1>2. \A j \in 1..Len(T) : j + 1 \in 1..Len(R) /\ T[j] \in Places
  BY <1>1
<1>3. \A j \in 1..Len(T) : T[j][1] \in 1..Len(q) /\ T[j][2] \in 1..Len(q[T[j][1]].toks)
  BY <1>1, <1>2 DEF Chain
<1>4. \A j \in 1..Len(T) : ~Before(T[j], y)
  <2> SUFFICES ASSUME NEW j \in 1..Len(T) PROVE ~Before(T[j], y)
    OBVIOUS
  <2>1. Before(R[1], T[j])
    BY <1>1, <1>2 DEF Chain
  <2>2. R[1] \in Places /\ R[1][1] \in 1..Len(q)
    BY <1>1 DEF Chain
  <2> QED BY <1>2, <1>3, <2>1, <2>2, AfterIsNext
<1>5. ASSUME NEW j \in 1..Len(T), NEW k \in 1..Len(T), j < k PROVE Before(T[j], T[k])
  <2>1. j + 1 \in 1..Len(R) /\ k + 1 \in 1..Len(R) /\ j + 1 < k + 1
    BY <1>1, <1>5
  <2>2. T[j] = R[j + 1] /\ T[k] = R[k + 1]
    BY <1>1
  <2> QED BY <2>1, <2>2 DEF Chain
<1>6. ASSUME NEW j \in 1..(Len(T) - 1) PROVE T[j + 1] = After(q, T[j][1], T[j][2])
  <2>1. j \in 1..Len(T) /\ j + 1 \in 1..Len(T) /\ j + 1 \in 1..(Len(R) - 1)
    BY <1>1
  <2>2. T[j] = R[j + 1] /\ T[j + 1] = R[(j + 1) + 1]
    BY <1>1, <2>1
  <2> QED BY <2>1, <2>2 DEF Chain
<1>7. ASSUME T = << >> PROVE y = EndPlace(q)
  <2>1. Len(R) = 1
    BY <1>1, <1>7
  <2> QED BY <2>1 DEF Chain
<1>8. ASSUME T # << >> PROVE T[1] = y /\ After(q, T[Len(T)][1], T[Len(T)][2]) = EndPlace(q)
  <2>1. Len(T) \in Nat \ {0}
    BY <1>1, <1>8
  <2>2. 1 \in 1..(Len(R) - 1) /\ T[1] = R[1 + 1] /\ T[Len(T)] = R[Len(R)]
    BY <1>1, <2>1
  <2> QED BY <2>2 DEF Chain
<1>9. Chain(q, T, y)
  BY <1>3, <1>4, <1>5, <1>6, <1>7, <1>8 DEF Chain
<1> QED BY <1>9 DEF T

\* An item is written behind the rest.
LEMMA ChainWrite ==
  ASSUME NEW q \in Seq(Item), NEW e \in Item, e.toks # << >>,
         \A n \in 1..Len(q) : q[n].toks # << >>,
         NEW R \in Seq(Places), NEW x \in Places, Chain(q, R, x)
  PROVE  Chain(Append(q, e), R \o [j \in 1..Len(e.toks) |-> <<Len(q) + 1, j>>], x)
<1> DEFINE N == Len(q) + 1
           l == Len(e.toks)
           W == [j \in 1..l |-> <<N, j>>]
           a == Append(q, e)
           S == R \o W
           r == Len(R)
<1>1. l \in Nat \ {0} /\ N \in Nat \ {0} /\ r \in Nat /\ Len(q) \in Nat
  BY DEF Item
<1>2. W \in Seq(Places) /\ Len(W) = l /\ \A j \in 1..l : W[j] = <<N, j>>
  BY <1>1 DEF Places
<1>3. a \in Seq(Item) /\ Len(a) = N /\ a[N] = e /\ \A n \in 1..Len(q) : a[n] = q[n]
  BY DEF Item
<1> HIDE DEF W, a
<1>4. S \in Seq(Places) /\ Len(S) = r + l
  <2>1. W \in Seq(Places) /\ Len(W) = l
    BY <1>2
  <2>2. S \in Seq(Places) /\ Len(S) = Len(R) + Len(W)
    BY <2>1, Concat, Zenon
  <2> QED BY <2>1, <2>2
<1>5. \A j \in 1..r : S[j] = R[j] /\ S[j] \in Places
  BY <1>1, <1>2
<1>6. ASSUME NEW j \in (r + 1)..(r + l) PROVE S[j] = <<N, j - r>> /\ j - r \in 1..l
  <2>1. j \in 1..(Len(R) + Len(W)) /\ ~(j <= Len(R)) /\ j - Len(R) \in 1..l
    BY <1>1, <1>2, <1>6
  <2>2. S[j] = W[j - Len(R)]
    BY <1>2, <2>1
  <2> QED BY <1>2, <2>1, <2>2
<1> HIDE DEF S
<1>7. \A j \in 1..Len(S) : j \in 1..r \/ j \in (r + 1)..(r + l)
  BY <1>1, <1>4
<1>8. \A j \in 1..r : R[j] \in Places /\ R[j][1] \in 1..Len(q) /\ R[j][2] \in 1..Len(q[R[j][1]].toks)
  BY <1>1 DEF Chain
<1>9. ASSUME NEW j \in 1..Len(S)
      PROVE  S[j][1] \in 1..Len(a) /\ S[j][2] \in 1..Len(a[S[j][1]].toks)
  <2>1. CASE j \in 1..r
    <3>1. S[j] = R[j] /\ R[j][1] \in 1..Len(q) /\ R[j][2] \in 1..Len(q[R[j][1]].toks)
      BY <1>5, <1>8, <2>1
    <3>2. a[R[j][1]] = q[R[j][1]] /\ R[j][1] \in 1..Len(a)
      BY <1>1, <1>3, <3>1
    <3> QED BY <3>1, <3>2
  <2>2. CASE j \in (r + 1)..(r + l)
    <3>1. S[j][1] = N /\ S[j][2] = j - r /\ j - r \in 1..l
      BY <1>6, <2>2
    <3> QED BY <1>1, <1>3, <3>1
  <2> QED BY <1>7, <2>1, <2>2
<1>10. x[1] <= N /\ (x[1] = N => x[2] = 1)
  <2>1. CASE R = << >>
    BY <1>1, <2>1 DEF Chain, EndPlace
  <2>2. CASE R # << >>
    BY <1>1, <1>8, <2>2 DEF Chain
  <2> QED BY <2>1, <2>2
<1>11. \A j \in 1..Len(S) : ~Before(S[j], x)
  <2> SUFFICES ASSUME NEW j \in 1..Len(S) PROVE ~Before(S[j], x)
    OBVIOUS
  <2>1. CASE j \in 1..r
    BY <1>5, <2>1 DEF Chain
  <2>2. CASE j \in (r + 1)..(r + l)
    <3>1. S[j][1] = N /\ S[j][2] = j - r /\ j - r \in 1..l
      BY <1>6, <2>2
    <3>2. x[1] \in Nat /\ x[2] \in Nat
      BY DEF Places
    <3>3. S[j][2] \in Nat /\ S[j][2] >= 1
      BY <1>1, <3>1
    <3> QED BY <1>1, <1>10, <3>1, <3>2, <3>3 DEF Before
  <2> QED BY <1>7, <2>1, <2>2
<1>12. ASSUME NEW j \in 1..Len(S), NEW k \in 1..Len(S), j < k PROVE Before(S[j], S[k])
  <2>1. CASE k \in 1..r
    <3>1. j \in 1..r
      BY <1>1, <1>12, <2>1
    <3> QED BY <1>5, <1>12, <2>1, <3>1 DEF Chain
  <2>2. CASE j \in 1..r /\ k \in (r + 1)..(r + l)
    <3>1. S[k][1] = N
      BY <1>6, <2>2
    <3>2. S[j][1] \in 1..Len(q)
      BY <1>5, <1>8, <2>2
    <3> QED BY <1>1, <3>1, <3>2 DEF Before
  <2>3. CASE j \in (r + 1)..(r + l) /\ k \in (r + 1)..(r + l)
    <3>1. S[j][1] = N /\ S[j][2] = j - r /\ S[k][1] = N /\ S[k][2] = k - r
      BY <1>6, <2>3
    <3>2. j - r < k - r
      BY <1>1, <1>12
    <3> QED BY <3>1, <3>2 DEF Before
  <2> QED BY <1>1, <1>7, <1>12, <2>1, <2>2, <2>3
<1>13. \A n \in 1..Len(q) : \A i \in Nat : After(a, n, i) = After(q, n, i)
  BY <1>1, <1>3 DEF After
<1>14. r > 0 => After(q, R[r][1], R[r][2]) = <<N, 1>>
  BY <1>1 DEF Chain, EndPlace
<1>15. \A i \in 1..l : After(a, N, i) = IF i = l THEN <<N + 1, 1>> ELSE <<N, i + 1>>
  BY <1>1, <1>3 DEF After
<1>16. ASSUME NEW j \in 1..(Len(S) - 1) PROVE S[j + 1] = After(a, S[j][1], S[j][2])
  <2>1. j \in 1..Len(S) /\ j + 1 \in 1..Len(S)
    BY <1>1, <1>4
  <2>2. CASE j + 1 \in 1..r
    <3>1. j \in 1..r /\ j \in 1..(r - 1)
      BY <1>1, <2>1, <2>2
    <3>2. R[j + 1] = After(q, R[j][1], R[j][2])
      BY <3>1 DEF Chain
    <3>3. R[j][1] \in 1..Len(q) /\ R[j][2] \in Nat
      BY <1>8, <3>1 DEF Places
    <3> QED BY <1>5, <1>13, <2>2, <3>1, <3>2, <3>3
  <2>3. CASE j = r
    <3>1. r > 0 /\ r \in 1..r /\ j + 1 \in (r + 1)..(r + l)
      BY <1>1, <2>1, <2>3
    <3>2. S[j + 1] = <<N, 1>>
      <4>1. (j + 1) - r = 1
        BY <1>1, <2>3
      <4> QED BY <1>6, <3>1, <4>1
    <3>3. R[r][1] \in 1..Len(q) /\ R[r][2] \in Nat
      BY <1>8, <3>1 DEF Places
    <3> QED BY <1>5, <1>13, <1>14, <2>3, <3>1, <3>2, <3>3
  <2>4. CASE j \in (r + 1)..(r + l)
    <3>1. j + 1 \in (r + 1)..(r + l) /\ (j + 1) - r = (j - r) + 1 /\ j - r \in 1..l /\ j - r # l
      BY <1>1, <1>4, <2>4
    <3>2. S[j] = <<N, j - r>> /\ S[j + 1] = <<N, (j - r) + 1>>
      BY <1>6, <2>4, <3>1
    <3>3. After(a, N, j - r) = <<N, (j - r) + 1>>
      BY <1>15, <3>1
    <3> QED BY <3>2, <3>3
  <2> QED BY <1>1, <1>7, <2>1, <2>2, <2>3, <2>4
<1>17. S # << >> /\ Len(S) \in (r + 1)..(r + l) /\ Len(S) - r = l
  BY <1>1, <1>4
<1>18. S[1] = x
  <2>1. CASE r = 0
    <3>1. 1 \in (r + 1)..(r + l) /\ 1 - r = 1
      BY <1>1, <2>1
    <3>2. S[1] = <<N, 1>>
      BY <1>6, <3>1
    <3>3. R = << >>
      BY <2>1
    <3> QED BY <3>2, <3>3 DEF Chain, EndPlace
  <2>2. CASE r # 0
    BY <1>1, <1>5, <2>2 DEF Chain
  <2> QED BY <2>1, <2>2
<1>19. After(a, S[Len(S)][1], S[Len(S)][2]) = EndPlace(a)
  <2>1. S[Len(S)] = <<N, l>>
    BY <1>6, <1>17
  <2>2. l \in 1..l
    BY <1>1
  <2>3. After(a, N, l) = <<N + 1, 1>>
    BY <1>15, <2>2
  <2>4. S[Len(S)][1] = N /\ S[Len(S)][2] = l
    BY <2>1
  <2> QED BY <1>3, <2>3, <2>4 DEF EndPlace
<1>20. Chain(a, S, x)
  BY <1>9, <1>11, <1>12, <1>16, <1>17, <1>18, <1>19 DEF Chain
<1> QED BY <1>20 DEF S, W, a

(***************************************************************************)
(* The parser and the nesting of tags.                                      *)
(***************************************************************************)
Modes  == {"top", "members", "text", "blob", "skip", "apply", "failed", "closed"}
Parser == [mode : Modes, tag : TagNames, mem : Seq(Member), depth : Nat,
           then : {"top", "members", "apply"}, claimed : Seq(Places), got : Seq(Places)]

\* The tags of an item are nested in its first.
Nested(s) == s # << >> /\ \A i \in 2..Len(s) : Depth(s, i) > 0

\* After i tokens of the item s the parser q is where the nesting of the tags
\* says, and it has collected the members of the element.
Reads(q, s, i) ==
  /\ q.mode = "top" => i = 0 /\ q.mem = << >>
  /\ q.mode # "top" => /\ i > 0 /\ q.tag = s[1].n
                       /\ q.mode # "apply" => s[1].t = "open"
  /\ q.mode = "members" => q.tag \in Vectors /\ Depth(s, i + 1) = 1
  /\ q.mode = "text" => \/ q.tag = "enableBLOB" /\ Depth(s, i + 1) = 1 /\ q.then = "apply"
                        \/ q.tag \in Vectors /\ Depth(s, i + 1) = 2 /\ q.then = "members"
  /\ q.mode = "blob" => q.tag \in Vectors /\ Depth(s, i + 1) = 2 /\ q.mem # << >>
  /\ q.mode = "skip" => /\ q.depth > 0
                        /\ \/ q.tag \notin Vectors /\ q.then # "members" /\ Depth(s, i + 1) = q.depth
                           \/ q.tag \in Vectors /\ q.then = "members" /\ Depth(s, i + 1) = q.depth + 1
  /\ q.mode = "apply" => i = Len(s)
  /\ q.mode \notin {"top", "apply"} =>
       Cardinality(AttachedOf(q.mem)) = Cardinality(Seen(s, i))
  /\ q.mode # "apply" => q.claimed = << >> /\ q.got = << >>

\* What the parser may have come to with token i: a failure, the end of an item
\* that claims nothing, the element with all its members, or a place inside it.
Reaches(q, s, i) ==
  /\ q \in Parser /\ q.mode # "closed"
  /\ q.mode = "top" => i = Len(s) /\ Claims(s) = 0
  /\ q.mode = "apply" => /\ q.claimed = << >> /\ q.got = << >>
                         /\ q.tag \in Delivered => Cardinality(AttachedOf(q.mem)) = Claims(s)
  /\ q.mode \notin {"failed", "top"} => Reads(q, s, i)

LEMMA Names ==
  /\ Vectors = {"defBLOBVector", "setBLOBVector", "newBLOBVector", "setTextVector"}
  /\ Delivered \subseteq Vectors /\ Vectors \subseteq Known /\ Skipped \subseteq Known
  /\ "enableBLOB" \notin Vectors /\ Skipped \cap Vectors = {} /\ "enableBLOB" \in Known
BY DEF Vectors, Child, Delivered, Known, Skipped

\* An element claims what was seen of it at its end.
LEMMA ClaimsSeen ==
  ASSUME NEW s \in Seq(Tokens)
  PROVE  /\ s[1].n \in Delivered => Claims(s) = Cardinality(Seen(s, Len(s)))
         /\ s[1].n \notin Delivered => Claims(s) = 0
         /\ s[1].n \notin Vectors => \A i : Seen(s, i) = {}
         /\ Seen(s, 1) = {}
<1>1. Seen(s, Len(s)) = {i \in Members(s) : s[i].att}
  BY DEF Seen, Members
<1>2. s[1].n \notin Vectors => \A i : Seen(s, i) = {}
  BY DEF Seen, Members
<1>3. Seen(s, 1) = {}
  BY DEF Seen, Members
<1> QED BY <1>1, <1>2, <1>3 DEF Claims

LEMMA Empties == << >> \in Seq(Member) /\ << >> \in Seq(Places)
OBVIOUS

\* Start and Fail.
LEMMA Constants ==
  /\ Start \in Parser /\ Start.mode = "top" /\ Start.mem = << >>
  /\ Start.claimed = << >> /\ Start.got = << >>
  /\ Fail \in Parser /\ Fail.mode = "failed"
<1>1. /\ Start \in Parser /\ Start.mode = "top" /\ Start.mem = << >>
      /\ Start.claimed = << >> /\ Start.got = << >>
  BY Empties DEF Start, Parser, Modes, TagNames
<1>2. Fail \in Parser /\ Fail.mode = "failed"
  BY <1>1 DEF Fail, Parser, Modes
<1> QED BY <1>1, <1>2

\* An item whose tags are closed has no more tokens.
LEMMA ClosedIsEnd ==
  ASSUME NEW s \in Seq(Tokens), Nested(s), NEW i \in 1..Len(s), Depth(s, i + 1) <= 0
  PROVE  i = Len(s)
<1> SUFFICES ASSUME i # Len(s) PROVE FALSE
  OBVIOUS
<1>1. i + 1 \in 2..Len(s) /\ i + 1 \in Nat
  OBVIOUS
<1>2. Depth(s, i + 1) \in Int
  BY <1>1, DepthType
<1> QED BY <1>1, <1>2 DEF Nested

\* An element begins to be skipped.
LEMMA SkipToFields ==
  ASSUME NEW x \in Parser, NEW h \in {"top", "members", "apply"}, NEW q, q = SkipTo(x, h)
  PROVE  /\ q \in Parser /\ q.mode = "skip" /\ q.depth = 1 /\ q.then = h /\ q.tag = x.tag
         /\ q.mem = x.mem /\ q.claimed = x.claimed /\ q.got = x.got
<1>1. q = [x EXCEPT !.mode = "skip", !.depth = 1, !.then = h]
  BY DEF SkipTo
<1>2. "skip" \in Modes /\ 1 \in Nat
  BY DEF Modes
<1> QED BY <1>1, <1>2 DEF Parser

\* next, on the first token of an item.
LEMMA NextReaches ==
  ASSUME NEW s \in Seq(Tokens), Nested(s)
  PROVE  Reaches(NextTag(s[1]), s, 1)
<1> DEFINE t == s[1]
           q == NextTag(t)
           b == [Start EXCEPT !.tag = t.n]
<1>1. t \in Tokens /\ 1 \in 1..Len(s) /\ Len(s) \in Nat
  BY DEF Nested
<1>2. t.t \in {"open", "empty", "close", "text", "pi"} /\ t.n \in TagNames
  BY <1>1 DEF Tokens
<1>3. /\ Depth(s, 2) = IF t.t = "open" THEN 1 ELSE IF t.t = "close" THEN -1 ELSE 0
  <2>1. Depth(s, 1 + 1) = IF t.t = "open" THEN Depth(s, 1) + 1
                          ELSE IF t.t = "close" THEN Depth(s, 1) - 1 ELSE Depth(s, 1)
    BY DepthNext
  <2>2. Depth(s, 1) = 0 /\ 1 + 1 = 2
    BY DepthFirst
  <2> QED BY <2>1, <2>2
<1>4. t.t # "open" => Len(s) = 1
  <2> SUFFICES ASSUME t.t # "open" PROVE Len(s) = 1
    OBVIOUS
  <2>1. Depth(s, 1 + 1) <= 0
    BY <1>3
  <2> QED BY <1>1, <2>1, ClosedIsEnd
<1>5. /\ b \in Parser /\ b.mode = "top" /\ b.tag = t.n /\ b.mem = << >> /\ b.depth = 0
      /\ b.then = "top" /\ b.claimed = << >> /\ b.got = << >>
  BY <1>2, Empties DEF Start, Parser, Modes
<1>6. AttachedOf(<< >>) = {} /\ Cardinality({}) = 0
  BY FS_EmptySet DEF AttachedOf
<1>7. Seen(s, 1) = {} /\ (Len(s) = 1 => Claims(s) = 0) /\ (t.n \notin Delivered => Claims(s) = 0)
  BY <1>6, ClaimsSeen
<1> HIDE DEF b
<1>8. CASE t.t = "close"
  BY <1>8, Constants DEF Reaches, NextTag
<1>9. CASE t.t \in {"text", "pi"} \/ (t.t = "empty" /\ t.n \notin Known)
  <2>1. q = Start
    BY <1>9 DEF NextTag
  <2> QED BY <1>4, <1>7, <1>9, <2>1, Constants DEF Reaches
<1>10. CASE t.t = "empty" /\ t.n \in Known
  <2>1. q = [b EXCEPT !.mode = "apply"]
    BY <1>10 DEF NextTag, b
  <2>2. /\ q \in Parser /\ q.mode = "apply" /\ q.tag = t.n /\ q.mem = << >>
        /\ q.claimed = << >> /\ q.got = << >>
    BY <1>5, <2>1 DEF Parser, Modes
  <2> HIDE DEF q
  <2>3. Reads(q, s, 1)
    BY <1>4, <1>10, <2>2 DEF Reads
  <2>4. Reaches(q, s, 1)
    BY <1>4, <1>6, <1>7, <1>10, <2>2, <2>3 DEF Reaches
  <2> QED BY <2>4 DEF q
<1>11. CASE t.t = "open" /\ t.n \in Vectors
  <2>1. q = [b EXCEPT !.mode = "members"]
    BY <1>11 DEF NextTag, b
  <2>2. /\ q \in Parser /\ q.mode = "members" /\ q.tag = t.n /\ q.mem = << >>
        /\ q.claimed = << >> /\ q.got = << >>
    BY <1>5, <2>1 DEF Parser, Modes
  <2> HIDE DEF q
  <2>3. Reads(q, s, 1)
    <3>1. Depth(s, 1 + 1) = 1 /\ q.tag \in Vectors /\ q.tag = s[1].n /\ s[1].t = "open"
      BY <1>3, <1>11, <2>2
    <3>2. Cardinality(AttachedOf(q.mem)) = Cardinality(Seen(s, 1))
      BY <1>6, <1>7, <2>2
    <3> QED BY <2>2, <3>1, <3>2 DEF Reads
  <2>4. Reaches(q, s, 1)
    BY <2>2, <2>3 DEF Reaches
  <2> QED BY <2>4 DEF q
<1>12. CASE t.t = "open" /\ t.n = "enableBLOB"
  <2>1. q = [b EXCEPT !.mode = "text", !.then = "apply"]
    BY <1>12, Names DEF NextTag, b
  <2>2. /\ q \in Parser /\ q.mode = "text" /\ q.tag = t.n /\ q.mem = << >> /\ q.then = "apply"
        /\ q.claimed = << >> /\ q.got = << >>
    BY <1>5, <2>1 DEF Parser, Modes
  <2> HIDE DEF q
  <2>3. Reads(q, s, 1)
    <3>1. Depth(s, 1 + 1) = 1 /\ q.tag = "enableBLOB" /\ q.tag = s[1].n /\ s[1].t = "open"
      BY <1>3, <1>12, <2>2
    <3>2. Cardinality(AttachedOf(q.mem)) = Cardinality(Seen(s, 1))
      BY <1>6, <1>7, <2>2
    <3> QED BY <2>2, <3>1, <3>2 DEF Reads
  <2>4. Reaches(q, s, 1)
    BY <2>2, <2>3 DEF Reaches
  <2> QED BY <2>4 DEF q
<1>13. CASE t.t = "open" /\ t.n \notin Vectors /\ t.n # "enableBLOB"
  <2> DEFINE h == IF t.n \in Skipped THEN "apply" ELSE "top"
  <2>1. q = SkipTo(b, h)
    BY <1>13 DEF NextTag, b
  <2>5. h \in {"apply", "top"}
    OBVIOUS
  <2> HIDE DEF h
  <2>2. /\ q \in Parser /\ q.mode = "skip" /\ q.tag = t.n /\ q.mem = << >> /\ q.then = h
        /\ q.depth = 1 /\ q.claimed = << >> /\ q.got = << >> /\ h # "members"
    BY <1>5, <2>1, <2>5, SkipToFields
  <2> HIDE DEF q
  <2>3. Reads(q, s, 1)
    <3>1. Depth(s, 1 + 1) = 1 /\ q.tag \notin Vectors /\ q.tag = s[1].n /\ s[1].t = "open"
      BY <1>3, <1>13, <2>2
    <3>2. Cardinality(AttachedOf(q.mem)) = Cardinality(Seen(s, 1))
      BY <1>6, <1>7, <2>2
    <3> QED BY <2>2, <3>1, <3>2 DEF Reads
  <2>4. Reaches(q, s, 1)
    BY <2>2, <2>3 DEF Reaches
  <2> QED BY <2>4 DEF q
<1> QED BY <1>2, <1>8, <1>9, <1>10, <1>11, <1>12, <1>13

\* The token after the first i of an item.
LEMMA TokenFacts ==
  ASSUME NEW s \in Seq(Tokens), Nested(s), NEW i \in Nat \ {0}, i < Len(s),
         NEW t, t = s[i + 1]
  PROVE  /\ t \in Tokens /\ i + 1 \in 1..Len(s) /\ Depth(s, i + 1) \in Int
         /\ t.t \in {"open", "empty", "close", "text", "pi"}
         /\ Depth(s, (i + 1) + 1) = IF t.t = "open" THEN Depth(s, i + 1) + 1
                                    ELSE IF t.t = "close" THEN Depth(s, i + 1) - 1
                                    ELSE Depth(s, i + 1)
         /\ i + 1 \in Members(s) <=> /\ t.t \in {"open", "empty"} /\ Depth(s, i + 1) = 1
                                     /\ s[1].n \in Vectors /\ t.n = Child[s[1].n]
<1>1. t \in Tokens /\ i + 1 \in 1..Len(s) /\ i + 1 \in 2..Len(s) /\ i + 1 \in Nat \ {0}
  OBVIOUS
<1>2. Depth(s, i + 1) \in Int
  BY <1>1, DepthType
<1>3. t.t \in {"open", "empty", "close", "text", "pi"}
  BY <1>1 DEF Tokens
<1>4. Depth(s, (i + 1) + 1) = IF t.t = "open" THEN Depth(s, i + 1) + 1
                              ELSE IF t.t = "close" THEN Depth(s, i + 1) - 1
                              ELSE Depth(s, i + 1)
  BY <1>1, DepthNext
<1>5. i + 1 \in Members(s) <=> /\ t.t \in {"open", "empty"} /\ Depth(s, i + 1) = 1
                               /\ s[1].n \in Vectors /\ t.n = Child[s[1].n]
  BY <1>1 DEF Members
<1> QED BY <1>1, <1>2, <1>3, <1>4, <1>5

\* A parser that only changes its function.
LEMMA GoFields ==
  ASSUME p \in Parser, NEW m \in Modes, NEW q, q = Go(m)
  PROVE  /\ q \in Parser /\ q.mode = m /\ q.depth = p.depth /\ q.then = p.then /\ q.tag = p.tag
         /\ q.mem = p.mem /\ q.claimed = p.claimed /\ q.got = p.got
BY DEF Parser, Go

\* A failure is always allowed.
LEMMA FailReaches == \A s, i : Reaches(Fail, s, i)
BY Constants DEF Reaches

\* The element is complete.
LEMMA ApplyReaches ==
  ASSUME NEW s \in Seq(Tokens), Nested(s), NEW i \in Nat \ {0}, i = Len(s), NEW q \in Parser,
         q.mode = "apply", q.claimed = << >>, q.got = << >>, q.tag = s[1].n,
         Cardinality(AttachedOf(q.mem)) = Cardinality(Seen(s, i))
  PROVE  Reaches(q, s, i)
<1>1. Reads(q, s, i)
  BY DEF Reads
<1>2. q.tag \in Delivered => Cardinality(AttachedOf(q.mem)) = Claims(s)
  BY ClaimsSeen
<1> QED BY <1>1, <1>2 DEF Reaches

\* members, on a token inside the element.
LEMMA MemberReaches ==
  ASSUME p \in Parser, p.mode = "members", NEW s \in Seq(Tokens), Nested(s),
         NEW i \in Nat, i < Len(s), Reads(p, s, i),
         NEW t, t = s[i + 1], NEW q, q = MemberTag(t)
  PROVE  Reaches(q, s, i + 1)
<1>1. /\ i \in Nat \ {0} /\ p.tag = s[1].n /\ s[1].t = "open" /\ p.tag \in Vectors
      /\ Depth(s, i + 1) = 1 /\ p.claimed = << >> /\ p.got = << >>
      /\ Cardinality(AttachedOf(p.mem)) = Cardinality(Seen(s, i))
  BY DEF Reads
<1>2. /\ t \in Tokens /\ i + 1 \in 1..Len(s)
      /\ t.t \in {"open", "empty", "close", "text", "pi"}
      /\ Depth(s, (i + 1) + 1) = IF t.t = "open" THEN 2 ELSE IF t.t = "close" THEN 0 ELSE 1
      /\ i + 1 \in Members(s) <=> t.t \in {"open", "empty"} /\ t.n = Child[p.tag]
  BY <1>1, TokenFacts
<1>3. /\ i + 1 \in Members(s) /\ t.att
           => Cardinality(Seen(s, i + 1)) = Cardinality(Seen(s, i)) + 1
      /\ ~(i + 1 \in Members(s) /\ t.att) => Seen(s, i + 1) = Seen(s, i)
  BY SeenNext
<1>4. CASE t.t \in {"text", "pi"} \/ (t.t = "close" /\ t.n # p.tag)
  BY <1>4, FailReaches DEF MemberTag
<1>5. CASE t.t = "close" /\ t.n = p.tag
  <2>1. q = Go("apply") /\ "apply" \in Modes
    BY <1>5 DEF MemberTag, Modes
  <2>2. /\ q \in Parser /\ q.mode = "apply" /\ q.tag = p.tag /\ q.mem = p.mem
        /\ q.claimed = << >> /\ q.got = << >>
    BY <1>1, <2>1, GoFields
  <2>3. i + 1 = Len(s)
    <3>1. Depth(s, (i + 1) + 1) <= 0
      BY <1>2, <1>5
    <3> QED BY <1>2, <3>1, ClosedIsEnd
  <2>4. Cardinality(AttachedOf(q.mem)) = Cardinality(Seen(s, i + 1))
    BY <1>1, <1>2, <1>3, <1>5, <2>2
  <2>5. i + 1 \in Nat \ {0} /\ q.tag = s[1].n
    BY <1>1, <2>2
  <2> QED BY <2>2, <2>3, <2>4, <2>5, ApplyReaches
<1>6. CASE t.t = "open" /\ t.n # Child[p.tag]
  <2>1. q = SkipTo(p, "members")
    BY <1>6 DEF MemberTag
  <2>2. /\ q \in Parser /\ q.mode = "skip" /\ q.depth = 1 /\ q.then = "members" /\ q.tag = p.tag
        /\ q.mem = p.mem /\ q.claimed = << >> /\ q.got = << >>
    BY <1>1, <2>1, SkipToFields
  <2>3. Cardinality(AttachedOf(q.mem)) = Cardinality(Seen(s, i + 1))
    BY <1>1, <1>2, <1>3, <1>6, <2>2
  <2>4. Depth(s, (i + 1) + 1) = q.depth + 1 /\ i + 1 > 0
    BY <1>2, <1>6, <2>2
  <2>5. Reads(q, s, i + 1)
    BY <1>1, <2>2, <2>3, <2>4 DEF Reads
  <2> QED BY <2>2, <2>5 DEF Reaches
<1>7. CASE t.t = "empty" /\ t.n # Child[p.tag]
  <2>1. q = p
    BY <1>7 DEF MemberTag
  <2>2. Cardinality(AttachedOf(q.mem)) = Cardinality(Seen(s, i + 1))
    BY <1>1, <1>2, <1>3, <1>7, <2>1
  <2>3. Depth(s, (i + 1) + 1) = 1 /\ i + 1 > 0
    BY <1>2, <1>7
  <2>4. Reads(q, s, i + 1)
    BY <1>1, <2>1, <2>2, <2>3 DEF Reads
  <2> QED BY <2>1, <2>4 DEF Reaches
<1>8. CASE t.t \in {"open", "empty"} /\ t.n = Child[p.tag] /\ Len(p.mem) >= MaxMembers
  BY <1>8, FailReaches DEF MemberTag
<1>9. CASE t.t \in {"open", "empty"} /\ t.n = Child[p.tag] /\ ~(Len(p.mem) >= MaxMembers)
  <2> DEFINE x == [att |-> t.att, data |-> FALSE]
             m == IF t.t = "empty" THEN "members" ELSE IF p.tag \in BlobVectors THEN "blob" ELSE "text"
             a == Append(p.mem, x)
  <2>1. q = [p EXCEPT !.mem = a, !.mode = m, !.then = "members"]
    BY <1>9 DEF MemberTag
  <2>2. x \in Member /\ x.att = t.att
    BY <1>2 DEF Tokens, Member
  <2>3. m \in Modes /\ m \in {"members", "blob", "text"} /\ (t.t = "empty" <=> m = "members")
    BY <1>9 DEF Modes
  <2>4. p.mem \in Seq(Member)
    BY DEF Parser
  <2> HIDE DEF x, m
  <2>5. a \in Seq(Member) /\ a # << >>
    <3>1. a \in Seq(Member) /\ Len(a) = Len(p.mem) + 1 /\ Len(p.mem) \in Nat
      BY <2>2, <2>4
    <3> QED BY <3>1
  <2>6. /\ x.att => Cardinality(AttachedOf(a)) = Cardinality(AttachedOf(p.mem)) + 1
        /\ ~x.att => AttachedOf(a) = AttachedOf(p.mem)
    BY <2>2, <2>4, AttachedAppend
  <2>7. Cardinality(AttachedOf(a)) = Cardinality(Seen(s, i + 1))
    BY <1>1, <1>2, <1>3, <1>9, <2>2, <2>6
  <2> HIDE DEF a
  <2>8. /\ q \in Parser /\ q.mode = m /\ q.then = "members" /\ q.tag = p.tag
        /\ q.mem = a /\ q.claimed = << >> /\ q.got = << >>
    BY <1>1, <2>1, <2>3, <2>5 DEF Parser
  <2>9. Depth(s, (i + 1) + 1) = (IF m = "members" THEN 1 ELSE 2) /\ i + 1 > 0
    BY <1>2, <1>9, <2>3
  <2>10. Reads(q, s, i + 1)
    BY <1>1, <2>3, <2>5, <2>7, <2>8, <2>9 DEF Reads
  <2> QED BY <2>3, <2>8, <2>10 DEF Reaches
<1> QED BY <1>2, <1>4, <1>5, <1>6, <1>7, <1>8, <1>9

\* textUntilClose, on a token inside a member or enableBLOB.
LEMMA TextReaches ==
  ASSUME p \in Parser, p.mode = "text", NEW s \in Seq(Tokens), Nested(s),
         NEW i \in Nat, i < Len(s), Reads(p, s, i),
         NEW t, t = s[i + 1], NEW q, q = TextTag(t)
  PROVE  Reaches(q, s, i + 1)
<1> DEFINE D == Depth(s, i + 1)
<1>1. /\ i \in Nat \ {0} /\ p.tag = s[1].n /\ s[1].t = "open"
      /\ p.claimed = << >> /\ p.got = << >>
      /\ \/ p.tag = "enableBLOB" /\ D = 1 /\ p.then = "apply"
         \/ p.tag \in Vectors /\ D = 2 /\ p.then = "members"
      /\ Cardinality(AttachedOf(p.mem)) = Cardinality(Seen(s, i))
  BY DEF Reads
<1>2. /\ t \in Tokens /\ i + 1 \in 1..Len(s) /\ i + 1 > 0
      /\ t.t \in {"open", "empty", "close", "text", "pi"}
      /\ Depth(s, (i + 1) + 1) = IF t.t = "open" THEN D + 1 ELSE IF t.t = "close" THEN D - 1 ELSE D
      /\ i + 1 \notin Members(s)
  <2>1. /\ t \in Tokens /\ i + 1 \in 1..Len(s)
        /\ t.t \in {"open", "empty", "close", "text", "pi"}
        /\ Depth(s, (i + 1) + 1) = IF t.t = "open" THEN D + 1 ELSE IF t.t = "close" THEN D - 1 ELSE D
        /\ i + 1 \in Members(s) => D = 1 /\ s[1].n \in Vectors
    BY <1>1, TokenFacts
  <2> QED BY <1>1, <2>1, Names
<1>3. Cardinality(AttachedOf(p.mem)) = Cardinality(Seen(s, i + 1))
  BY <1>1, <1>2, SeenNext
<1> HIDE DEF D
<1>4. CASE t.t = "text" /\ t.ok
  <2>1. q = p
    BY <1>4 DEF TextTag
  <2>2. Depth(s, (i + 1) + 1) = D
    BY <1>2, <1>4
  <2>3. Reads(q, s, i + 1)
    BY <1>1, <1>2, <1>3, <2>1, <2>2 DEF Reads
  <2> QED BY <2>1, <2>3 DEF Reaches
<1>5. CASE q = Go(p.then) /\ t.t = "close"
  <2>1. p.then \in Modes
    BY <1>1 DEF Modes
  <2>2. /\ q \in Parser /\ q.mode = p.then /\ q.tag = p.tag /\ q.mem = p.mem
        /\ q.claimed = << >> /\ q.got = << >>
    BY <1>1, <1>5, <2>1, GoFields
  <2>3. CASE p.tag = "enableBLOB" /\ D = 1 /\ p.then = "apply"
    <3>1. Depth(s, (i + 1) + 1) <= 0
      BY <1>2, <1>5, <2>3
    <3>2. i + 1 = Len(s)
      BY <1>2, <3>1, ClosedIsEnd
    <3>3. i + 1 \in Nat \ {0} /\ q.tag = s[1].n /\ q.mode = "apply"
          /\ Cardinality(AttachedOf(q.mem)) = Cardinality(Seen(s, i + 1))
      BY <1>1, <1>3, <2>2, <2>3
    <3> QED BY <2>2, <3>2, <3>3, ApplyReaches
  <2>4. CASE p.tag \in Vectors /\ D = 2 /\ p.then = "members"
    <3>1. Depth(s, (i + 1) + 1) = 1
      BY <1>2, <1>5, <2>4
    <3>2. Reads(q, s, i + 1)
      BY <1>1, <1>2, <1>3, <2>2, <2>4, <3>1 DEF Reads
    <3> QED BY <2>2, <2>4, <3>2 DEF Reaches
  <2> QED BY <1>1, <2>3, <2>4
<1>6. CASE q = Fail
  BY <1>6, FailReaches
<1> QED BY <1>4, <1>5, <1>6 DEF TextTag

\* blobContent, on a token inside a member.
LEMMA BlobReaches ==
  ASSUME p \in Parser, p.mode = "blob", want \in BOOLEAN, NEW s \in Seq(Tokens), Nested(s),
         NEW i \in Nat, i < Len(s), Reads(p, s, i),
         NEW t, t = s[i + 1], NEW q, q = BlobTag(t)
  PROVE  Reaches(q, s, i + 1)
<1>1. /\ i \in Nat \ {0} /\ p.tag = s[1].n /\ s[1].t = "open" /\ p.tag \in Vectors
      /\ p.claimed = << >> /\ p.got = << >> /\ Depth(s, i + 1) = 2 /\ p.mem # << >>
      /\ Cardinality(AttachedOf(p.mem)) = Cardinality(Seen(s, i))
  BY DEF Reads
<1>2. /\ t \in Tokens /\ i + 1 \in 1..Len(s) /\ i + 1 > 0
      /\ Depth(s, (i + 1) + 1) = IF t.t = "open" THEN 3 ELSE IF t.t = "close" THEN 1 ELSE 2
      /\ i + 1 \notin Members(s)
  <2>1. /\ t \in Tokens /\ i + 1 \in 1..Len(s)
        /\ Depth(s, (i + 1) + 1) = IF t.t = "open" THEN 3 ELSE IF t.t = "close" THEN 1 ELSE 2
        /\ i + 1 \in Members(s) => Depth(s, i + 1) = 1
    BY <1>1, TokenFacts
  <2> QED BY <1>1, <2>1
<1>3. Cardinality(AttachedOf(p.mem)) = Cardinality(Seen(s, i + 1))
  BY <1>1, <1>2, SeenNext
<1>4. CASE t.t = "text" /\ t.ok
  <2> DEFINE l == Len(p.mem)
             y == [p.mem[l] EXCEPT !.data = want]
             a == [p.mem EXCEPT ![l] = y]
  <2>1. q = [p EXCEPT !.mem = a]
    BY <1>4 DEF BlobTag
  <2>2. p.mem \in Seq(Member) /\ l \in 1..l /\ p.mem[l] \in Member
    BY <1>1 DEF Parser
  <2>3. y \in Member /\ y.att = p.mem[l].att
    BY <2>2 DEF Member
  <2> HIDE DEF y
  <2>4. /\ a \in Seq(Member) /\ a # << >> /\ DOMAIN a = DOMAIN p.mem
        /\ \A j \in DOMAIN p.mem : a[j] = IF j = l THEN y ELSE p.mem[j]
    BY <2>2, <2>3
  <2> HIDE DEF a
  <2>5. \A j \in DOMAIN p.mem : a[j].att = p.mem[j].att
    BY <2>3, <2>4
  <2>6. AttachedOf(a) = AttachedOf(p.mem)
    BY <2>4, <2>5 DEF AttachedOf
  <2>7. /\ q \in Parser /\ q.mode = "blob" /\ q.tag = p.tag /\ q.mem = a
        /\ q.claimed = << >> /\ q.got = << >>
    BY <1>1, <2>1, <2>4 DEF Parser
  <2>8. Cardinality(AttachedOf(q.mem)) = Cardinality(Seen(s, i + 1)) /\ Depth(s, (i + 1) + 1) = 2
    BY <1>2, <1>3, <1>4, <2>6, <2>7
  <2>9. Reads(q, s, i + 1)
    BY <1>1, <1>2, <2>4, <2>7, <2>8 DEF Reads
  <2> QED BY <2>7, <2>9 DEF Reaches
<1>5. CASE q = Go("members") /\ t.t = "close"
  <2>1. "members" \in Modes
    BY DEF Modes
  <2>2. /\ q \in Parser /\ q.mode = "members" /\ q.tag = p.tag /\ q.mem = p.mem
        /\ q.claimed = << >> /\ q.got = << >>
    BY <1>1, <1>5, <2>1, GoFields
  <2>3. Depth(s, (i + 1) + 1) = 1
    BY <1>2, <1>5
  <2>4. Reads(q, s, i + 1)
    BY <1>1, <1>2, <1>3, <2>2, <2>3 DEF Reads
  <2> QED BY <2>2, <2>4 DEF Reaches
<1>6. CASE q = Fail
  BY <1>6, FailReaches
<1> QED BY <1>4, <1>5, <1>6 DEF BlobTag

\* skipElement, on a token inside the element that is skipped.
LEMMA SkipReaches ==
  ASSUME p \in Parser, p.mode = "skip", NEW s \in Seq(Tokens), Nested(s),
         NEW i \in Nat, i < Len(s), Reads(p, s, i),
         NEW t, t = s[i + 1], NEW q, q = SkipTag(t)
  PROVE  Reaches(q, s, i + 1)
<1> DEFINE D == Depth(s, i + 1)
<1>1. /\ i \in Nat \ {0} /\ p.tag = s[1].n /\ s[1].t = "open"
      /\ p.claimed = << >> /\ p.got = << >> /\ p.depth > 0
      /\ \/ p.tag \notin Vectors /\ p.then # "members" /\ D = p.depth
         \/ p.tag \in Vectors /\ p.then = "members" /\ D = p.depth + 1
      /\ Cardinality(AttachedOf(p.mem)) = Cardinality(Seen(s, i))
  BY DEF Reads
<1>2. p.depth \in Nat \ {0} /\ p.then \in {"top", "members", "apply"}
  BY <1>1 DEF Parser
<1>3. /\ t \in Tokens /\ i + 1 \in 1..Len(s) /\ i + 1 > 0
      /\ t.t \in {"open", "empty", "close", "text", "pi"}
      /\ Depth(s, (i + 1) + 1) = IF t.t = "open" THEN D + 1 ELSE IF t.t = "close" THEN D - 1 ELSE D
      /\ i + 1 \notin Members(s)
  <2>1. /\ t \in Tokens /\ i + 1 \in 1..Len(s)
        /\ t.t \in {"open", "empty", "close", "text", "pi"}
        /\ Depth(s, (i + 1) + 1) = IF t.t = "open" THEN D + 1 ELSE IF t.t = "close" THEN D - 1 ELSE D
        /\ i + 1 \in Members(s) => D = 1 /\ s[1].n \in Vectors
    BY <1>1, TokenFacts
  <2> HIDE DEF D
  <2> QED BY <1>1, <1>2, <2>1
<1>4. Cardinality(AttachedOf(p.mem)) = Cardinality(Seen(s, i + 1))
  BY <1>1, <1>3, SeenNext
<1> HIDE DEF D
<1>5. CASE t.t = "close"
  <2> DEFINE m == IF p.depth = 1 THEN p.then ELSE "skip"
  <2> DEFINE d == p.depth - 1
  <2>1. q = [p EXCEPT !.mode = m, !.depth = d]
    BY <1>5 DEF SkipTag
  <2>2. m \in Modes /\ d \in Nat
    BY <1>2 DEF Modes
  <2> HIDE DEF d
  <2>3. /\ q \in Parser /\ q.mode = m /\ q.depth = d /\ q.then = p.then /\ q.tag = p.tag
        /\ q.mem = p.mem /\ q.claimed = << >> /\ q.got = << >>
    BY <1>1, <2>1, <2>2 DEF Parser
  <2>4. Depth(s, (i + 1) + 1) = D - 1
    BY <1>3, <1>5
  <2>5. CASE p.depth # 1
    <3>1. q.mode = "skip" /\ q.depth > 0
      BY <1>2, <2>3, <2>5 DEF d
    <3>2. \/ q.tag \notin Vectors /\ q.then # "members" /\ Depth(s, (i + 1) + 1) = q.depth
          \/ q.tag \in Vectors /\ q.then = "members" /\ Depth(s, (i + 1) + 1) = q.depth + 1
      BY <1>1, <1>2, <2>3, <2>4 DEF d
    <3>3. Reads(q, s, i + 1)
      BY <1>1, <1>3, <1>4, <2>3, <3>1, <3>2 DEF Reads
    <3> QED BY <2>3, <3>1, <3>3 DEF Reaches
  <2>6. CASE p.depth = 1 /\ p.tag \in Vectors /\ p.then = "members" /\ D = p.depth + 1
    <3>1. q.mode = "members" /\ Depth(s, (i + 1) + 1) = 1
      BY <2>3, <2>4, <2>6
    <3>2. Reads(q, s, i + 1)
      BY <1>1, <1>3, <1>4, <2>3, <2>6, <3>1 DEF Reads
    <3> QED BY <2>3, <3>1, <3>2 DEF Reaches
  <2>7. CASE p.depth = 1 /\ p.tag \notin Vectors /\ p.then # "members" /\ D = p.depth
    <3>1. Depth(s, (i + 1) + 1) <= 0
      BY <2>4, <2>7
    <3>2. i + 1 = Len(s)
      BY <1>3, <3>1, ClosedIsEnd
    <3>3. q.mode = p.then /\ q.mode \in {"top", "apply"}
      BY <1>2, <2>3, <2>7
    <3>4. CASE q.mode = "apply"
      <4>1. i + 1 \in Nat \ {0} /\ q.tag = s[1].n
            /\ Cardinality(AttachedOf(q.mem)) = Cardinality(Seen(s, i + 1))
        BY <1>1, <1>4, <2>3
      <4> QED BY <2>3, <3>2, <3>4, <4>1, ApplyReaches
    <3>5. CASE q.mode = "top"
      <4>1. Claims(s) = 0
        BY <1>1, <2>7, Names, ClaimsSeen
      <4> QED BY <2>3, <3>2, <3>5, <4>1 DEF Reaches
    <3> QED BY <3>3, <3>4, <3>5
  <2> QED BY <1>1, <2>5, <2>6, <2>7
<1>6. CASE t.t = "open"
  <2> DEFINE d == p.depth + 1
  <2>1. q = [p EXCEPT !.mode = "skip", !.depth = d]
    BY <1>6 DEF SkipTag, Parser
  <2>2. "skip" \in Modes /\ d \in Nat
    BY <1>2 DEF Modes
  <2> HIDE DEF d
  <2>3. /\ q \in Parser /\ q.mode = "skip" /\ q.depth = d /\ q.then = p.then /\ q.tag = p.tag
        /\ q.mem = p.mem /\ q.claimed = << >> /\ q.got = << >>
    BY <1>1, <2>1, <2>2 DEF Parser
  <2>4. Depth(s, (i + 1) + 1) = D + 1 /\ q.depth > 0
    BY <1>2, <1>3, <1>6, <2>3 DEF d
  <2>5. \/ q.tag \notin Vectors /\ q.then # "members" /\ Depth(s, (i + 1) + 1) = q.depth
        \/ q.tag \in Vectors /\ q.then = "members" /\ Depth(s, (i + 1) + 1) = q.depth + 1
    BY <1>1, <1>2, <2>3, <2>4 DEF d
  <2>6. Reads(q, s, i + 1)
    BY <1>1, <1>3, <1>4, <2>3, <2>4, <2>5 DEF Reads
  <2> QED BY <2>3, <2>6 DEF Reaches
<1>7. CASE q = Fail
  BY <1>7, FailReaches
<1>8. CASE q = p /\ t.t # "open" /\ t.t # "close"
  <2>1. Depth(s, (i + 1) + 1) = D
    BY <1>3, <1>8
  <2>2. Reads(q, s, i + 1)
    BY <1>1, <1>3, <1>4, <1>8, <2>1 DEF Reads
  <2> QED BY <1>8, <2>2 DEF Reaches
<1> QED BY <1>5, <1>6, <1>7, <1>8 DEF SkipTag

(***************************************************************************)
(* The invariant.                                                           *)
(***************************************************************************)
StreamTyped ==
  /\ menu \in DOMAIN Menus /\ want \in BOOLEAN /\ writing \in BOOLEAN
  /\ sent \in Seq(Item) /\ wire \in Seq(Places) /\ rbuf \in Seq(Places) /\ p \in Parser
  /\ fds \in Seq(Places) /\ done \in Nat /\ out \in [n : Nat, got : Seq(Places)]

\* Only the last item can be cut short, and nothing is written after it then.
Written(n) ==
  /\ Nested(sent[n].toks)
  /\ \A j \in 1..Len(sent[n].fds) : sent[n].fds[j] = <<n, j>>
  /\ n < Len(sent) \/ writing => Depth(sent[n].toks, Len(sent[n].toks) + 1) <= 0
SentInv == \A n \in 1..Len(sent) : Written(n)

\* Every descriptor that is held is queued, and nothing stays mapped.
HeldInv ==
  /\ held = ToSet(fds) /\ IsInjective(fds)
  /\ p.mode # "apply" => mapped = {}

\* The tokens of the current item, and those that are not parsed.
Now  == sent[done + 1].toks
Rest == rbuf \o wire

\* The parser has read i tokens of the current item.
InItem(i) ==
  /\ done <= Len(sent) /\ (done < Len(sent) => i <= Len(Now)) /\ (done = Len(sent) => i = 0)
  /\ Chain(sent, Rest, After(sent, done + 1, i))
  /\ p.mode # "top" => done < Len(sent)
  /\ Reads(p, Now, i)

\* The queue is in order, it holds what was sent, and it is ahead of the wire.
QueueInv ==
  /\ \A i \in DOMAIN fds : /\ fds[i][1] \in 1..Len(sent)
                           /\ fds[i][2] \in 1..Len(sent[fds[i][1]].fds)
  /\ \A i, k \in DOMAIN fds : i < k => Before(fds[i], fds[k])
  /\ \A i \in DOMAIN fds, j \in DOMAIN wire : wire[j][2] = 1 => fds[i][1] < wire[j][1]

\* Every item up to n is tidy.
TidyTo(n) == \A i \in 1..n : Tidy(sent[i])
Upto == IF p.mode = "apply" THEN done + 1 ELSE done

\* While the items are tidy no BLOB has taken a descriptor of another: those of
\* the items before are gone, and those of the others are all there.
Gone == \A i \in DOMAIN fds :
          fds[i][1] > done /\ (fds[i][1] = done + 1 => fds[i][2] > Len(p.claimed))
There(n, c) ==
  \/ n = done + 1 /\ c <= Len(p.claimed)
  \/ \E i \in DOMAIN fds : fds[i] = <<n, c>>
  \/ \E j \in DOMAIN wire : wire[j] = <<n, 1>>
OwnInv == TidyTo(Upto) =>
  Gone /\ \A n \in (done + 1)..Len(sent) : \A c \in 1..Len(sent[n].fds) : There(n, c)

\* The payloads ps are of item n, its descriptors in order and at most the c-th.
Payload(ps, n, c) ==
  \A j, k \in DOMAIN ps :
    /\ ps[j][1] = n /\ ps[j][2] <= c
    /\ j < k /\ 0 \notin {ps[j][2], ps[k][2]} => ps[j][2] < ps[k][2]

\* The element that is being handed on: what it claimed and what it will claim.
ApplyInv == p.mode = "apply" =>
  /\ p.tag \notin Delivered => p.claimed = << >>
  /\ TidyTo(done + 1) =>
       /\ p.tag \in Delivered => Len(p.claimed) + Cardinality(AttachedOf(p.mem)) = Claims(Now)
       /\ Payload(p.got, done + 1, Len(p.claimed))

OutInv == out.n <= Len(sent) /\ BlobIsItsOwn

ReadingInv == ~Over => (\E i \in Nat : InItem(i)) /\ QueueInv /\ OwnInv /\ ApplyInv

IncomingInd == StreamTyped /\ SentInv /\ HeldInv /\ OutInv /\ ReadingInv

\* The initial state.
LEMMA IncomingStart == Init => IncomingInd
<1> SUFFICES ASSUME Init PROVE IncomingInd
  OBVIOUS
<1>1. StreamTyped
  <2>1. << >> \in Seq(Item) /\ Start \in Parser /\ NoEl \in [n : Nat, got : Seq(Places)]
    BY Constants, Empties DEF NoEl
  <2> QED BY <2>1, Empties DEF Init, StreamTyped
<1>2. SentInv
  BY DEF Init, SentInv
<1>3. HeldInv
  BY DEF Init, HeldInv, ToSet, IsInjective
<1>4. OutInv
  BY DEF Init, OutInv, BlobIsItsOwn, NoEl
<1>5. InItem(0)
  <2>1. Rest = << >> /\ Len(sent) = 0 /\ done = 0 /\ p = Start
    BY DEF Init, Rest
  <2>2. After(sent, done + 1, 0) = EndPlace(sent)
    BY <2>1 DEF After, EndPlace
  <2>3. Chain(sent, Rest, After(sent, done + 1, 0))
    BY <2>1, <2>2 DEF Chain
  <2>4. Reads(p, Now, 0)
    BY <2>1, Constants DEF Reads
  <2> QED BY <2>1, <2>3, <2>4, Constants DEF InItem
<1>6. QueueInv /\ OwnInv /\ ApplyInv
  BY Constants DEF Init, QueueInv, OwnInv, ApplyInv, Gone
<1> QED BY <1>1, <1>2, <1>3, <1>4, <1>5, <1>6 DEF IncomingInd, ReadingInv

(***************************************************************************)
(* The driver.                                                              *)
(***************************************************************************)
\* An item, or the beginning of one, is written.
LEMMA WriteStep ==
  ASSUME IncomingInd, writing, NEW it \in Menus[menu].items, NEW k \in 1..Len(it), NEW m \in Nat,
         Write(it, k, m), UNCHANGED <<menu, want, readerVars>>,
         writing' \in BOOLEAN, writing' => k = Len(it)
  PROVE  IncomingInd'
<1> DEFINE N == Len(sent) + 1
           ds == [j \in 1..m |-> <<N, j>>]
           r == SubSeq(it, 1, k)
           e == [n |-> N, toks |-> r, fds |-> ds]
           w == [j \in 1..k |-> <<N, j>>]
<1> USE DEF IncomingInd
<1>1. /\ sent \in Seq(Item) /\ Len(sent) \in Nat /\ N \in Nat \ {0} /\ done \in Nat
      /\ wire \in Seq(Places) /\ rbuf \in Seq(Places) /\ fds \in Seq(Places) /\ p \in Parser
  BY DEF StreamTyped
<1>2. it \in Seq(Tokens) /\ Nested(it) /\ Depth(it, Len(it) + 1) <= 0
  BY IncomingAssumption DEF StreamTyped, Nested
<1>3. r \in Seq(Tokens) /\ Len(r) = k /\ k \in Nat \ {0}
  BY <1>2
<1>4. ds \in Seq(Places) /\ Len(ds) = m /\ \A j \in 1..m : ds[j] = <<N, j>>
  BY <1>1 DEF Places
<1>5. w \in Seq(Places) /\ Len(w) = k /\ \A j \in 1..k : w[j] = <<N, j>>
  BY <1>1, <1>3 DEF Places
<1>6. sent' = Append(sent, e) /\ wire' = wire \o w
  BY DEF Write
<1>7. /\ menu' = menu /\ want' = want /\ rbuf' = rbuf /\ p' = p /\ fds' = fds /\ held' = held
      /\ mapped' = mapped /\ done' = done /\ out' = out
  BY DEF readerVars
<1> HIDE DEF ds, r, w
<1>8. e \in Item /\ e.toks = r /\ e.fds = ds
  BY <1>1, <1>3, <1>4 DEF Item
<1> HIDE DEF e
<1>9. /\ sent' \in Seq(Item) /\ Len(sent') = N /\ sent'[N] = e
      /\ \A n \in 1..Len(sent) : sent'[n] = sent[n]
  BY <1>1, <1>6, <1>8
<1>10. /\ wire' \in Seq(Places) /\ Len(wire') = Len(wire) + k
       /\ \A j \in 1..Len(wire) : wire'[j] = wire[j]
       /\ \A j \in 1..k : wire'[Len(wire) + j] = <<N, j>>
  <2>1. wire \in Seq(Places) /\ w \in Seq(Places) /\ Len(w) = k
    BY <1>1, <1>5
  <2>2. /\ wire \o w \in Seq(Places) /\ Len(wire \o w) = Len(wire) + Len(w)
        /\ \A j \in 1..Len(wire) : (wire \o w)[j] = wire[j]
        /\ \A j \in 1..Len(w) : (wire \o w)[Len(wire) + j] = w[j]
    BY <2>1
  <2> QED BY <1>5, <1>6, <2>1, <2>2
<1>11. StreamTyped'
  BY <1>1, <1>7, <1>9, <1>10 DEF StreamTyped
<1>12. Nested(r) /\ \A i \in 1..(k + 1) : Depth(r, i) = Depth(it, i)
  <2>1. \A i \in 1..(k + 1) : Depth(r, i) = Depth(it, i)
    BY <1>2, DepthPrefix DEF r
  <2>2. \A i \in 2..Len(r) : i \in 2..Len(it) /\ i \in 1..(k + 1)
    BY <1>2, <1>3
  <2>3. r # << >>
    BY <1>3
  <2> QED BY <1>2, <2>1, <2>2, <2>3 DEF Nested
<1>13. SentInv'
  <2> SUFFICES ASSUME NEW n \in 1..Len(sent') PROVE Written(n)'
    BY DEF SentInv
  <2>1. CASE n = N
    <3>1. sent'[n].toks = r /\ sent'[n].fds = ds
      BY <1>8, <1>9, <2>1
    <3>2. \A j \in 1..Len(ds) : ds[j] = <<n, j>>
      BY <1>4, <2>1
    <3>3. writing' => Depth(r, Len(r) + 1) <= 0
      <4> SUFFICES ASSUME writing' PROVE Depth(r, Len(r) + 1) <= 0
        OBVIOUS
      <4>1. k = Len(it) /\ k + 1 \in 1..(k + 1)
        BY <1>3
      <4> QED BY <1>2, <1>3, <1>12, <4>1
    <3>4. ~(n < Len(sent'))
      BY <1>1, <1>9, <2>1
    <3> QED BY <1>12, <3>1, <3>2, <3>3, <3>4 DEF Written
  <2>2. CASE n # N
    <3>1. n \in 1..Len(sent) /\ sent'[n] = sent[n]
      BY <1>1, <1>9, <2>2
    <3>2. Written(n)
      BY <3>1 DEF SentInv
    <3> QED BY <3>1, <3>2 DEF Written
  <2> QED BY <2>1, <2>2
<1>14. HeldInv'
  BY <1>7 DEF HeldInv
<1>15. OutInv'
  <2>1. out.n \in Nat /\ out.n <= Len(sent)
    BY DEF StreamTyped, OutInv
  <2>2. \A i \in 1..out.n : sent'[i] = sent[i]
    BY <1>1, <1>9, <2>1
  <2>3. BlobIsItsOwn'
    BY <1>7, <2>1, <2>2 DEF OutInv, BlobIsItsOwn, Tidy
  <2>4. out'.n <= Len(sent')
    BY <1>1, <1>7, <1>9, <2>1
  <2> QED BY <2>3, <2>4 DEF OutInv
<1>16. ASSUME ~Over' PROVE (\E i \in Nat : InItem(i)') /\ QueueInv' /\ OwnInv' /\ ApplyInv'
  <2>1. PICK i \in Nat : InItem(i)
    BY <1>7, <1>16 DEF ReadingInv, Over
  <2>2. QueueInv /\ OwnInv /\ ApplyInv
    BY <1>7, <1>16 DEF ReadingInv, Over
  <2>3. /\ done <= Len(sent) /\ (done < Len(sent) => i <= Len(Now)) /\ (done = Len(sent) => i = 0)
        /\ Chain(sent, Rest, After(sent, done + 1, i))
        /\ (p.mode # "top" => done < Len(sent)) /\ Reads(p, Now, i)
    BY <2>1 DEF InItem
  <2>4. done < Len(sent) => Now' = Now
    <3> SUFFICES ASSUME done < Len(sent) PROVE Now' = Now
      OBVIOUS
    <3>1. done + 1 \in 1..Len(sent)
      BY <1>1
    <3>2. sent'[done + 1] = sent[done + 1] /\ done' = done
      BY <1>7, <1>9, <3>1
    <3> QED BY <3>2 DEF Now
  <2>5. After(sent', done' + 1, i) = After(sent, done + 1, i)
    <3>1. CASE done < Len(sent)
      <4>1. done + 1 \in 1..Len(sent) /\ sent'[done + 1] = sent[done + 1] /\ done + 1 <= Len(sent')
        BY <1>1, <1>9, <3>1
      <4> QED BY <1>7, <4>1 DEF After
    <3>2. CASE done = Len(sent)
      <4>1. i = 0 /\ done + 1 = N /\ sent'[N].toks = r /\ Len(r) = k
        BY <1>3, <1>8, <1>9, <2>3, <3>2
      <4>2. After(sent, done + 1, i) = <<N, 1>>
        BY <1>1, <4>1 DEF After
      <4>3. After(sent', done' + 1, i) = <<N, 1>>
        BY <1>1, <1>3, <1>7, <1>9, <4>1 DEF After
      <4> QED BY <4>2, <4>3
    <3> QED BY <1>1, <2>3, <3>1, <3>2
  <2>6. Chain(sent', Rest', After(sent, done + 1, i))
    <3> DEFINE x == After(sent, done + 1, i)
    <3>1. x \in Places
      BY <1>1 DEF After, Places
    <3>2. Rest \in Seq(Places)
      BY <1>1, Concat, Zenon DEF Rest
    <3>3. \A n \in 1..Len(sent) : sent[n].toks # << >>
      BY DEF SentInv, Written, Nested
    <3>4. e.toks # << >> /\ Len(e.toks) = k
      BY <1>3, <1>8
    <3> HIDE DEF x
    <3>5. Chain(Append(sent, e), Rest \o [j \in 1..Len(e.toks) |-> <<Len(sent) + 1, j>>], x)
      BY <1>1, <1>8, <2>3, <3>1, <3>2, <3>3, <3>4, ChainWrite DEF x
    <3>6. Rest' = Rest \o w
      <4>1. rbuf \in Seq(Places) /\ wire \in Seq(Places) /\ w \in Seq(Places)
        BY <1>1, <1>5
      <4>2. (rbuf \o wire) \o w = rbuf \o (wire \o w)
        BY <4>1, ConcatThree
      <4> QED BY <1>6, <1>7, <4>2 DEF Rest
    <3>7. w = [j \in 1..Len(e.toks) |-> <<Len(sent) + 1, j>>]
      BY <3>4 DEF w
    <3> QED BY <1>6, <3>5, <3>6, <3>7 DEF x
  <2>7. Reads(p', Now', i)
    <3>1. CASE done < Len(sent)
      BY <1>7, <2>3, <2>4, <3>1
    <3>2. CASE ~(done < Len(sent))
      BY <1>7, <2>3, <3>2 DEF Reads
    <3> QED BY <3>1, <3>2
  <2>8. InItem(i)'
    <3>1. done' <= Len(sent') /\ (done' < Len(sent') => i <= Len(Now'))
          /\ (done' = Len(sent') => i = 0) /\ (p'.mode # "top" => done' < Len(sent'))
      <4>1. CASE done < Len(sent)
        BY <1>1, <1>7, <1>9, <2>3, <2>4, <4>1
      <4>2. CASE done = Len(sent)
        <5>1. i = 0 /\ Now' = r /\ done < Len(sent')
          BY <1>1, <1>7, <1>8, <1>9, <2>3, <4>2 DEF Now
        <5> QED BY <1>1, <1>3, <1>7, <1>9, <5>1
      <4> QED BY <1>1, <2>3, <4>1, <4>2
    <3> QED BY <2>5, <2>6, <2>7, <3>1 DEF InItem
  <2>9. QueueInv'
    <3>1. \A j \in DOMAIN fds' : fds'[j][1] \in 1..Len(sent') /\ fds'[j][2] \in 1..Len(sent'[fds'[j][1]].fds)
      <4> SUFFICES ASSUME NEW j \in DOMAIN fds
                   PROVE  fds[j][1] \in 1..Len(sent') /\ fds[j][2] \in 1..Len(sent'[fds[j][1]].fds)
        BY <1>7
      <4>1. fds[j][1] \in 1..Len(sent) /\ fds[j][2] \in 1..Len(sent[fds[j][1]].fds)
        BY <2>2 DEF QueueInv
      <4>2. sent'[fds[j][1]] = sent[fds[j][1]]
        BY <1>9, <4>1
      <4>3. fds[j][1] \in 1..Len(sent')
        BY <1>1, <1>9, <4>1
      <4> QED BY <4>1, <4>2, <4>3
    <3>2. ASSUME NEW j \in DOMAIN fds', NEW l \in DOMAIN wire', wire'[l][2] = 1
          PROVE  fds'[j][1] < wire'[l][1]
      <4>1. CASE l \in 1..Len(wire)
        <5>1. wire'[l] = wire[l] /\ l \in DOMAIN wire
          BY <1>1, <1>10, <4>1
        <5> QED BY <1>7, <2>2, <3>2, <5>1 DEF QueueInv
      <4>2. CASE l \notin 1..Len(wire)
        <5>1. l \in 1..(Len(wire) + k) /\ Len(wire) \in Nat
          BY <1>1, <1>10
        <5>2. l - Len(wire) \in 1..k /\ Len(wire) + (l - Len(wire)) = l
          BY <1>3, <4>2, <5>1
        <5>3. wire'[l][1] = N
          BY <1>10, <5>2
        <5>4. fds'[j][1] \in 1..Len(sent)
          BY <1>7, <2>2 DEF QueueInv
        <5> QED BY <1>1, <5>3, <5>4
      <4> QED BY <4>1, <4>2
    <3> QED BY <1>7, <2>2, <3>1, <3>2 DEF QueueInv
  <2>10. Upto' = Upto /\ Upto \in Nat /\ Upto <= Len(sent)
    BY <1>1, <1>7, <2>3 DEF Upto
  <2>11. OwnInv'
    <3> SUFFICES ASSUME TidyTo(Upto)'
                 PROVE  Gone' /\ \A n \in (done' + 1)..Len(sent') : \A c \in 1..Len(sent'[n].fds) : There(n, c)'
      BY DEF OwnInv
    <3>1. TidyTo(Upto)
      <4>1. \A j \in 1..Upto : sent'[j] = sent[j]
        BY <1>1, <1>9, <2>10
      <4> QED BY <2>10, <4>1 DEF TidyTo, Tidy
    <3>2. Gone /\ \A n \in (done + 1)..Len(sent) : \A c \in 1..Len(sent[n].fds) : There(n, c)
      BY <2>2, <3>1 DEF OwnInv
    <3>3. Gone'
      BY <1>7, <3>2 DEF Gone
    <3>4. ASSUME NEW n \in (done' + 1)..Len(sent'), NEW c \in 1..Len(sent'[n].fds) PROVE There(n, c)'
      <4>1. CASE n = N
        <5>1. Len(wire) + 1 \in DOMAIN wire' /\ wire'[Len(wire) + 1] = <<n, 1>>
          <6>1. Len(wire) \in Nat /\ 1 \in 1..k
            BY <1>1, <1>3
          <6> QED BY <1>3, <1>10, <4>1, <6>1
        <5> QED BY <5>1 DEF There
      <4>2. CASE n # N
        <5>1. n \in (done + 1)..Len(sent) /\ n \in 1..Len(sent) /\ sent'[n] = sent[n]
          BY <1>1, <1>7, <1>9, <3>4, <4>2
        <5>2. There(n, c)
          BY <3>2, <3>4, <5>1
        <5>3. \A j \in DOMAIN wire : j \in DOMAIN wire' /\ wire'[j] = wire[j]
          <6>1. /\ DOMAIN wire = 1..Len(wire) /\ DOMAIN wire' = 1..Len(wire')
                /\ Len(wire) \in Nat
            BY <1>1, <1>10
          <6>2. \A j \in 1..Len(wire) : j \in 1..Len(wire')
            BY <1>3, <1>10, <6>1
          <6> QED BY <1>10, <6>1, <6>2
        <5> QED BY <1>7, <5>2, <5>3 DEF There
      <4> QED BY <4>1, <4>2
    <3> QED BY <3>3, <3>4
  <2>12. ApplyInv'
    <3> SUFFICES ASSUME p.mode = "apply" PROVE ApplyInv'
      BY <1>7 DEF ApplyInv
    <3>1. done < Len(sent) /\ Now' = Now
      BY <2>3, <2>4
    <3>2. TidyTo(done + 1)' => TidyTo(done + 1)
      <4>1. \A j \in 1..(done + 1) : sent'[j] = sent[j]
        BY <1>1, <1>9, <3>1
      <4> QED BY <1>7, <4>1 DEF TidyTo, Tidy
    <3> QED BY <1>7, <2>2, <3>1, <3>2 DEF ApplyInv
  <2> QED BY <2>8, <2>9, <2>11, <2>12
<1> QED BY <1>11, <1>13, <1>14, <1>15, <1>16 DEF ReadingInv
LEMMA SendStep == IncomingInd /\ Send => IncomingInd'
<1> SUFFICES ASSUME IncomingInd, Send PROVE IncomingInd'
  OBVIOUS
<1>1. PICK it \in Menus[menu].items :
        \/ \E m \in {Attachments(it), Attachments(it) - 1} \cap Nat :
             Write(it, Len(it), m) /\ UNCHANGED writing
        \/ \E k \in 1..(Len(it) - 1) : Write(it, k, Attachments(it)) /\ writing' = FALSE
  BY DEF Send
<1>2. writing /\ UNCHANGED <<menu, want, readerVars>>
  BY DEF Send
<1>3. it \in Seq(Tokens) /\ it # << >> /\ menu \in DOMAIN Menus
  BY IncomingAssumption DEF IncomingInd, StreamTyped
<1>4. Len(it) \in Nat /\ Len(it) \in 1..Len(it)
  BY <1>3
<1>5. Attachments(it) \in Nat
  <2> DEFINE A == {j \in DOMAIN it : it[j].att}
  <2>1. DOMAIN it = 1..Len(it)
    BY <1>3
  <2>2. IsFiniteSet(1..Len(it))
    BY <1>4, FS_Interval
  <2>3. A \subseteq 1..Len(it)
    BY <2>1
  <2> HIDE DEF A
  <2>4. IsFiniteSet(A)
    BY <2>2, <2>3, FS_Subset
  <2>5. Cardinality(A) \in Nat
    BY <2>4, FS_CardinalityType
  <2> QED BY <2>5 DEF Attachments, A
<1>6. CASE \E m \in {Attachments(it), Attachments(it) - 1} \cap Nat :
             Write(it, Len(it), m) /\ UNCHANGED writing
  <2>1. PICK m \in Nat : Write(it, Len(it), m) /\ UNCHANGED writing
    BY <1>6
  <2>2. writing' \in BOOLEAN /\ (writing' => Len(it) = Len(it))
    BY <2>1 DEF IncomingInd, StreamTyped
  <2> QED BY <1>2, <1>4, <2>1, <2>2, WriteStep
<1>7. CASE \E k \in 1..(Len(it) - 1) : Write(it, k, Attachments(it)) /\ writing' = FALSE
  <2>1. PICK k \in 1..(Len(it) - 1) : Write(it, k, Attachments(it)) /\ writing' = FALSE
    BY <1>7
  <2>2. k \in 1..Len(it)
    BY <1>4
  <2>3. writing' \in BOOLEAN /\ (writing' => k = Len(it))
    BY <2>1
  <2> QED BY <1>2, <1>5, <2>1, <2>2, <2>3, WriteStep
<1> QED BY <1>1, <1>6, <1>7

\* The stream ends: nothing that was written changes.
LEMMA StreamEndsStep == IncomingInd /\ StreamEnds => IncomingInd'
<1> SUFFICES ASSUME IncomingInd, StreamEnds PROVE IncomingInd'
  OBVIOUS
<1>1. /\ menu' = menu /\ want' = want /\ wire' = wire /\ sent' = sent /\ rbuf' = rbuf /\ p' = p
      /\ fds' = fds /\ held' = held /\ mapped' = mapped /\ done' = done /\ out' = out
      /\ writing' = FALSE /\ writing
  BY DEF StreamEnds, readerVars
<1>2. StreamTyped' /\ HeldInv' /\ OutInv'
  BY <1>1 DEF IncomingInd, StreamTyped, HeldInv, OutInv, BlobIsItsOwn, Tidy
<1>3. SentInv'
  BY <1>1 DEF IncomingInd, SentInv, Written
<1>4. ReadingInv'
  <2>1. \A i : InItem(i)' <=> InItem(i)
    BY <1>1 DEF InItem, Now, Rest
  <2>2. QueueInv' <=> QueueInv
    BY <1>1 DEF QueueInv
  <2>3. OwnInv' <=> OwnInv
    BY <1>1 DEF OwnInv, TidyTo, Tidy, Upto, Gone, There
  <2>4. ApplyInv' <=> ApplyInv
    BY <1>1 DEF ApplyInv, TidyTo, Tidy, Now
  <2>5. Over' <=> Over
    BY <1>1 DEF Over
  <2> QED BY <2>1, <2>2, <2>3, <2>4, <2>5 DEF IncomingInd, ReadingInv
<1> QED BY <1>2, <1>3, <1>4 DEF IncomingInd

(***************************************************************************)
(* The transport.                                                           *)
(***************************************************************************)
LEMMA EofStep == IncomingInd /\ Eof => IncomingInd'
<1> SUFFICES ASSUME IncomingInd, Eof PROVE IncomingInd'
  OBVIOUS
<1>1. /\ menu' = menu /\ want' = want /\ wire' = wire /\ sent' = sent /\ rbuf' = rbuf
      /\ fds' = fds /\ held' = held /\ mapped' = mapped /\ done' = done /\ out' = out
      /\ writing' = writing /\ p' = Fail /\ p.mode # "apply"
  BY DEF Eof, Parsing
<1>2. StreamTyped'
  BY <1>1, Constants DEF IncomingInd, StreamTyped
<1>3. SentInv' /\ OutInv'
  BY <1>1 DEF IncomingInd, SentInv, Written, OutInv, BlobIsItsOwn, Tidy
<1>4. HeldInv'
  BY <1>1 DEF IncomingInd, HeldInv
<1>5. ReadingInv'
  BY <1>1, Constants DEF ReadingInv, Over
<1> QED BY <1>2, <1>3, <1>4, <1>5 DEF IncomingInd

\* The teardown closes what is queued, which is all that is held.
LEMMA CloseStep == IncomingInd /\ Close => IncomingInd'
<1> SUFFICES ASSUME IncomingInd, Close PROVE IncomingInd'
  OBVIOUS
<1>1. /\ menu' = menu /\ want' = want /\ wire' = wire /\ sent' = sent /\ rbuf' = rbuf
      /\ mapped' = mapped /\ done' = done /\ out' = out /\ writing' = writing
      /\ p' = [p EXCEPT !.mode = "closed"] /\ p.mode = "failed"
      /\ held' = held \ ToSet(fds) /\ fds' = << >>
  BY DEF Close
<1>2. p' \in Parser /\ p'.mode = "closed"
  BY <1>1 DEF IncomingInd, StreamTyped, Parser, Modes
<1>3. StreamTyped'
  BY <1>1, <1>2, Empties DEF IncomingInd, StreamTyped
<1>4. SentInv' /\ OutInv'
  BY <1>1 DEF IncomingInd, SentInv, Written, OutInv, BlobIsItsOwn, Tidy
<1>5. HeldInv'
  <2>1. held' = {} /\ ToSet(fds') = {} /\ IsInjective(fds')
    BY <1>1 DEF IncomingInd, HeldInv, ToSet, IsInjective
  <2>2. mapped' = {}
    BY <1>1 DEF IncomingInd, HeldInv
  <2> QED BY <2>1, <2>2 DEF HeldInv
<1>6. ReadingInv'
  BY <1>2 DEF ReadingInv, Over
<1> QED BY <1>3, <1>4, <1>5, <1>6 DEF IncomingInd
\* A queue in order holds everything once.
LEMMA OrderedIsInjective ==
  ASSUME NEW f \in Seq(Places), \A i, k \in DOMAIN f : i < k => Before(f[i], f[k])
  PROVE  IsInjective(f)
<1> SUFFICES ASSUME NEW i \in DOMAIN f, NEW k \in DOMAIN f, f[i] = f[k] PROVE i = k
  BY DEF IsInjective
<1>1. f[i] \in Places /\ i \in Nat /\ k \in Nat
  OBVIOUS
<1>2. ~Before(f[i], f[k]) /\ ~Before(f[k], f[i])
  BY <1>1 DEF Before, Places
<1> QED BY <1>1, <1>2

\* Sequences that agree everywhere are the same.
LEMMA SameSequence ==
  ASSUME NEW S, NEW f \in Seq(S), NEW g \in Seq(S), Len(f) = Len(g),
         \A j \in 1..Len(f) : f[j] = g[j]
  PROVE  f = g
OBVIOUS

LEMMA TailOfConcat ==
  ASSUME NEW S, NEW a \in Seq(S), a # << >>, NEW b \in Seq(S)
  PROVE  Tail(a) \o b = Tail(a \o b)
<1> DEFINE u == Tail(a)
           c == a \o b
           f == u \o b
           g == Tail(c)
<1>1. u \in Seq(S) /\ Len(u) = Len(a) - 1 /\ Len(a) \in Nat \ {0} /\ Len(b) \in Nat
      /\ \A j \in 1..(Len(a) - 1) : u[j] = a[j + 1]
  OBVIOUS
<1> HIDE DEF u
<1>2. /\ c \in Seq(S) /\ Len(c) = Len(a) + Len(b)
      /\ \A j \in 1..Len(a) : c[j] = a[j]
      /\ \A j \in 1..Len(b) : c[Len(a) + j] = b[j]
  BY Concat
<1> HIDE DEF c
<1>3. g \in Seq(S) /\ Len(g) = Len(c) - 1 /\ \A j \in 1..(Len(c) - 1) : g[j] = c[j + 1]
  <2>1. c \in Seq(S) /\ Len(c) > 0
    BY <1>1, <1>2
  <2>2. c # << >>
    BY <2>1
  <2> QED BY <2>1, <2>2
<1> HIDE DEF g
<1>4. /\ f \in Seq(S) /\ Len(f) = Len(u) + Len(b)
      /\ \A j \in 1..Len(u) : f[j] = u[j]
      /\ \A j \in 1..Len(b) : f[Len(u) + j] = b[j]
  <2>1. u \in Seq(S)
    BY <1>1
  <2> QED BY <2>1, Concat
<1> HIDE DEF f
<1>5. Len(f) = Len(g)
  BY <1>1, <1>2, <1>3, <1>4
<1>6. ASSUME NEW j \in 1..Len(f) PROVE f[j] = g[j]
  <2>1. g[j] = c[j + 1] /\ j \in Nat
    BY <1>1, <1>2, <1>3, <1>5
  <2>2. CASE j \in 1..Len(u)
    <3>1. f[j] = a[j + 1] /\ j + 1 \in 1..Len(a)
      BY <1>1, <1>4, <2>2
    <3> QED BY <1>2, <2>1, <3>1
  <2>3. CASE j \notin 1..Len(u)
    <3>1. j - Len(u) \in 1..Len(b) /\ Len(u) + (j - Len(u)) = j /\ Len(a) + (j - Len(u)) = j + 1
      BY <1>1, <1>4, <2>1, <2>3
    <3>2. f[j] = b[j - Len(u)]
      BY <1>4, <3>1
    <3>3. c[j + 1] = b[j - Len(u)]
      BY <1>2, <3>1
    <3> QED BY <2>1, <3>2, <3>3
  <2> QED BY <2>2, <2>3
<1>7. f = g
  BY <1>3, <1>4, <1>5, <1>6, SameSequence
<1> QED BY <1>7 DEF f, g, u, c

\* A read cuts the stream in two.
LEMMA Cut ==
  ASSUME NEW R \in Seq(Places), NEW k \in 1..Len(R), NEW a, a = SubSeq(R, 1, k),
         NEW b, b = SubSeq(R, k + 1, Len(R))
  PROVE  /\ a \in Seq(Places) /\ Len(a) = k /\ \A j \in 1..k : a[j] = R[j]
         /\ b \in Seq(Places) /\ Len(b) = Len(R) - k /\ \A j \in 1..(Len(R) - k) : b[j] = R[k + j]
         /\ a \o b = R
<1>1. /\ a \in Seq(Places) /\ Len(a) = k /\ \A j \in 1..k : a[j] = R[j]
      /\ b \in Seq(Places) /\ Len(b) = Len(R) - k /\ \A j \in 1..(Len(R) - k) : b[j] = R[k + j]
  OBVIOUS
<1>2. a \o b \in Seq(Places) /\ Len(a \o b) = Len(R)
  <2>1. Len(a \o b) = Len(a) + Len(b) /\ a \o b \in Seq(Places)
    BY <1>1
  <2> QED BY <1>1, <2>1
<1>3. ASSUME NEW j \in 1..Len(R) PROVE (a \o b)[j] = R[j]
  <2>1. CASE j \in 1..k
    <3>1. (a \o b)[j] = a[j]
      BY <1>1, <2>1
    <3> QED BY <1>1, <2>1, <3>1
  <2>2. CASE j \notin 1..k
    <3>1. j - k \in 1..(Len(R) - k) /\ k + (j - k) = j
      BY <2>2
    <3>2. (a \o b)[Len(a) + (j - k)] = b[j - k]
      BY <1>1, <3>1
    <3> QED BY <1>1, <3>1, <3>2
  <2> QED BY <2>1, <2>2
<1>5. a \o b = R
  BY <1>2, <1>3, SameSequence
<1> QED BY <1>1, <1>5

LEMMA CutWhole ==
  ASSUME NEW R \in Seq(Places), NEW k \in 1..Len(R)
  PROVE  SubSeq(R, 1, k) \o SubSeq(R, k + 1, Len(R)) = R
<1> DEFINE a == SubSeq(R, 1, k)
           b == SubSeq(R, k + 1, Len(R))
<1>1. a = SubSeq(R, 1, k) /\ b = SubSeq(R, k + 1, Len(R))
  OBVIOUS
<1> HIDE DEF a, b
<1>2. a \o b = R
  BY <1>1, Cut
<1> QED BY <1>1, <1>2, Zenon

\* What a read finds: the rest of the stream is on the wire, and the
\* descriptors that come with it are those of one item ahead of the queue.
LEMMA Received ==
  ASSUME IncomingInd, Parsing, rbuf = << >>, NEW m \in DOMAIN wire, NEW ds, ds = Carried(wire[m]),
         NEW n, n = wire[m][1]
  PROVE  /\ ds \in Seq(Places) /\ n \in 1..Len(sent) /\ n > done
         /\ ds # << >> => wire[m] = <<n, 1>> /\ ds = sent[n].fds
         /\ \A j \in 1..Len(ds) : ds[j] = <<n, j>>
         /\ \A a \in DOMAIN fds : ds # << >> => fds[a][1] < n
<1> USE DEF IncomingInd
<1>1. PICK i \in Nat : InItem(i)
  BY DEF ReadingInv, Parsing, Over
<1>2. /\ wire \in Seq(Places) /\ sent \in Seq(Item) /\ done \in Nat /\ Len(sent) \in Nat
      /\ m \in 1..Len(wire) /\ wire[m] \in Places
  BY DEF StreamTyped
<1>3. Rest = wire
  BY <1>2 DEF Rest
<1>4. n \in 1..Len(sent) /\ ~Before(wire[m], After(sent, done + 1, i))
  BY <1>1, <1>2, <1>3 DEF InItem, Chain
<1>5. n > done
  <2>1. After(sent, done + 1, i)[1] \in {done + 1, done + 2}
    BY <1>2 DEF After
  <2> QED BY <1>2, <1>4, <2>1 DEF Before
<1>6. sent[n].fds \in Seq(Places) /\ \A j \in 1..Len(sent[n].fds) : sent[n].fds[j] = <<n, j>>
  <2>1. sent[n] \in Item
    BY <1>2, <1>4
  <2>2. Written(n)
    BY <1>4 DEF SentInv
  <2> QED BY <2>1, <2>2 DEF Written, Item
<1>7. CASE wire[m][2] = 1
  <2>1. ds = sent[n].fds /\ wire[m] = <<n, 1>>
    BY <1>2, <1>7 DEF Carried, Places
  <2>2. \A a \in DOMAIN fds : fds[a][1] < n
    BY <1>7 DEF ReadingInv, Parsing, Over, QueueInv
  <2> QED BY <1>4, <1>5, <1>6, <2>1, <2>2
<1>8. CASE wire[m][2] # 1
  <2>1. ds = << >>
    BY <1>8 DEF Carried
  <2> QED BY <1>4, <1>5, <2>1, Empties
<1> QED BY <1>7, <1>8

LEMMA ReadStep == IncomingInd /\ Read => IncomingInd'
<1> SUFFICES ASSUME IncomingInd, Read PROVE IncomingInd'
  OBVIOUS
<1> USE DEF IncomingInd
<1>0. PICK k \in 1..Len(wire) : \E m \in 1..k :
        /\ \A j \in (1..k) \ {m} : Carried(wire[j]) = << >>
        /\ wire' = SubSeq(wire, k + 1, Len(wire))
        /\ Harvest(SubSeq(wire, 1, k), Carried(wire[m]))
  BY DEF Read
<1>1. PICK m \in 1..k :
        /\ \A j \in (1..k) \ {m} : Carried(wire[j]) = << >>
        /\ wire' = SubSeq(wire, k + 1, Len(wire))
        /\ Harvest(SubSeq(wire, 1, k), Carried(wire[m]))
  BY <1>0
<1>2. /\ menu' = menu /\ want' = want /\ sent' = sent /\ mapped' = mapped /\ done' = done
      /\ out' = out /\ writing' = writing /\ rbuf = << >> /\ Parsing
  BY DEF Read
<1>3. /\ sent \in Seq(Item) /\ Len(sent) \in Nat /\ done \in Nat /\ fds \in Seq(Places)
      /\ wire \in Seq(Places) /\ rbuf \in Seq(Places) /\ p \in Parser
      /\ Len(wire) \in Nat /\ Len(fds) \in Nat /\ k \in Nat /\ m \in Nat
      /\ DOMAIN wire = 1..Len(wire) /\ DOMAIN fds = 1..Len(fds)
  BY DEF StreamTyped
<1>4. m \in DOMAIN wire
  BY <1>3
<1>5. p.mode # "apply" /\ ~Over /\ mapped = {}
  BY <1>2 DEF Parsing, Over, HeldInv
<1>6. PICK i \in Nat : InItem(i)
  BY <1>5 DEF ReadingInv
<1>7. QueueInv /\ OwnInv
  BY <1>5 DEF ReadingInv
<1> DEFINE s == SubSeq(wire, 1, k)
           ds == Carried(wire[m])
           n == wire[m][1]
<1>8. /\ s \in Seq(Places) /\ wire' \in Seq(Places) /\ Len(wire') = Len(wire) - k
      /\ \A j \in 1..(Len(wire) - k) : wire'[j] = wire[k + j]
      /\ s \o wire' = wire
  <2>1. s = SubSeq(wire, 1, k) /\ wire' = SubSeq(wire, k + 1, Len(wire))
    BY <1>1
  <2> HIDE DEF s
  <2>2. s \in Seq(Places)
    BY <1>3, <2>1, Cut
  <2>3. wire' \in Seq(Places) /\ Len(wire') = Len(wire) - k
    BY <1>3, <2>1, Cut
  <2>4. \A j \in 1..(Len(wire) - k) : wire'[j] = wire[k + j]
    BY <1>3, <2>1, Cut
  <2>5. s \o wire' = wire
    <3>1. SubSeq(wire, 1, k) \o SubSeq(wire, k + 1, Len(wire)) = wire
      BY <1>3, CutWhole, Zenon
    <3> QED BY <2>1, <3>1, Zenon
  <2> QED BY <2>2, <2>3, <2>4, <2>5
<1>9. Harvest(s, ds)
  BY <1>1
<1>10. /\ ds \in Seq(Places) /\ n \in 1..Len(sent) /\ n > done
       /\ ds # << >> => wire[m] = <<n, 1>> /\ ds = sent[n].fds
       /\ \A j \in 1..Len(ds) : ds[j] = <<n, j>>
       /\ \A a \in DOMAIN fds : ds # << >> => fds[a][1] < n
  BY <1>2, <1>4, Received
<1> HIDE DEF s, ds, n
<1>11. SentInv' /\ OutInv'
  BY <1>2 DEF SentInv, Written, OutInv, BlobIsItsOwn, Tidy
<1>12. CASE Len(ds) > MaxMsg
  <2>1. p' = Fail /\ fds' = fds /\ rbuf' = rbuf /\ held' = held
    BY <1>9, <1>12 DEF Harvest, Kept
  <2>2. StreamTyped'
    BY <1>2, <1>8, <2>1, Constants DEF StreamTyped
  <2>3. HeldInv'
    BY <1>2, <1>5, <2>1 DEF HeldInv
  <2>4. ReadingInv'
    BY <2>1, Constants DEF ReadingInv, Over
  <2> QED BY <1>11, <2>2, <2>3, <2>4
<1>13. CASE ~(Len(ds) > MaxMsg)
  <2>1. fds' = fds \o ds /\ held' = held \cup ToSet(ds)
    BY <1>9, <1>13 DEF Harvest, Kept, PutFds
  <2>2. /\ fds' \in Seq(Places) /\ Len(fds') = Len(fds) + Len(ds)
        /\ \A j \in 1..Len(fds) : fds'[j] = fds[j]
        /\ \A j \in 1..Len(ds) : fds'[Len(fds) + j] = ds[j]
    <3>1. /\ fds \o ds \in Seq(Places) /\ Len(fds \o ds) = Len(fds) + Len(ds)
          /\ \A j \in 1..Len(fds) : (fds \o ds)[j] = fds[j]
          /\ \A j \in 1..Len(ds) : (fds \o ds)[Len(fds) + j] = ds[j]
      BY <1>3, <1>10
    <3> QED BY <2>1, <3>1
  <2>3. Len(ds) \in Nat /\ DOMAIN ds = 1..Len(ds) /\ DOMAIN fds' = 1..Len(fds')
    BY <1>10, <2>2
  \* An element of the new queue is an old one or one of ds.
  <2>4. ASSUME NEW a \in DOMAIN fds'
        PROVE  \/ a \in DOMAIN fds /\ fds'[a] = fds[a]
               \/ /\ a - Len(fds) \in 1..Len(ds) /\ a > Len(fds) /\ ds # << >>
                  /\ fds'[a] = <<n, a - Len(fds)>>
    <3>1. CASE a \in 1..Len(fds)
      BY <1>3, <2>2, <3>1
    <3>2. CASE a \notin 1..Len(fds)
      <4>1. a \in 1..(Len(fds) + Len(ds))
        BY <2>2, <2>3
      <4>2. a - Len(fds) \in 1..Len(ds) /\ a > Len(fds) /\ Len(fds) + (a - Len(fds)) = a
        BY <1>3, <2>3, <3>2, <4>1
      <4>3. fds'[a] = ds[a - Len(fds)] /\ ds[a - Len(fds)] = <<n, a - Len(fds)>>
        BY <1>10, <2>2, <4>2
      <4>4. ds # << >>
        BY <4>2
      <4> QED BY <4>2, <4>3, <4>4
    <3> QED BY <3>1, <3>2
  <2>5. ASSUME NEW a \in DOMAIN fds', NEW b \in DOMAIN fds', a < b PROVE Before(fds'[a], fds'[b])
    <3>0. a \in Nat /\ b \in Nat
      BY <2>3
    <3>1. CASE b \in DOMAIN fds /\ fds'[b] = fds[b]
      <4>1. a \in DOMAIN fds /\ fds'[a] = fds[a]
        BY <1>3, <2>2, <2>5, <3>0, <3>1
      <4> QED BY <1>7, <2>5, <3>1, <4>1 DEF QueueInv
    <3>2. CASE /\ b - Len(fds) \in 1..Len(ds) /\ b > Len(fds) /\ ds # << >>
               /\ fds'[b] = <<n, b - Len(fds)>>
      <4>1. CASE a \in DOMAIN fds /\ fds'[a] = fds[a]
        BY <1>10, <3>2, <4>1 DEF Before
      <4>2. CASE fds'[a] = <<n, a - Len(fds)>>
        BY <1>3, <2>5, <3>0, <3>2, <4>2 DEF Before
      <4> QED BY <2>4, <4>1, <4>2
    <3> QED BY <2>4, <3>1, <3>2
  <2>6. HeldInv'
    <3>1. held = ToSet(fds)
      BY DEF HeldInv
    <3>2. ToSet(fds') = ToSet(fds) \cup ToSet(ds)
      <4>1. ASSUME NEW x \in ToSet(fds') PROVE x \in ToSet(fds) \cup ToSet(ds)
        <5>1. PICK a \in DOMAIN fds' : fds'[a] = x
          BY <4>1 DEF ToSet
        <5>2. CASE a \in DOMAIN fds /\ fds'[a] = fds[a]
          BY <5>1, <5>2 DEF ToSet
        <5>3. CASE a - Len(fds) \in 1..Len(ds) /\ fds'[a] = <<n, a - Len(fds)>>
          <6>1. ds[a - Len(fds)] = x
            BY <1>10, <5>1, <5>3
          <6> QED BY <2>3, <5>3, <6>1 DEF ToSet
        <5> QED BY <2>4, <5>2, <5>3
      <4>2. ASSUME NEW x \in ToSet(fds) PROVE x \in ToSet(fds')
        <5>1. PICK a \in 1..Len(fds) : fds[a] = x
          BY <1>3, <4>2 DEF ToSet
        <5>2. a \in DOMAIN fds' /\ fds'[a] = x
          BY <1>3, <2>2, <2>3, <5>1
        <5> QED BY <5>2 DEF ToSet
      <4>3. ASSUME NEW x \in ToSet(ds) PROVE x \in ToSet(fds')
        <5>1. PICK a \in 1..Len(ds) : ds[a] = x
          BY <2>3, <4>3 DEF ToSet
        <5>2. Len(fds) + a \in DOMAIN fds' /\ fds'[Len(fds) + a] = x
          BY <1>3, <2>2, <2>3, <5>1
        <5> QED BY <5>2 DEF ToSet
      <4> QED BY <4>1, <4>2, <4>3
    <3>3. IsInjective(fds')
      BY <2>2, <2>5, OrderedIsInjective
    <3> QED BY <1>2, <1>5, <2>1, <3>1, <3>2, <3>3 DEF HeldInv
  <2>7. CASE p' = Fail /\ rbuf' = rbuf
    <3>1. StreamTyped'
      BY <1>2, <1>8, <2>2, <2>7, Constants DEF StreamTyped
    <3>2. ReadingInv'
      BY <2>7, Constants DEF ReadingInv, Over
    <3> QED BY <1>11, <2>6, <3>1, <3>2
  <2>8. CASE rbuf' = s /\ p' = p
    <3>1. StreamTyped'
      BY <1>2, <1>8, <2>2, <2>8 DEF StreamTyped
    <3>2. InItem(i)'
      <4>1. Rest = wire /\ Rest' = wire
        <5>1. << >> \o wire = wire
          BY <1>3
        <5> QED BY <1>2, <1>8, <2>8, <5>1 DEF Rest
      <4> QED BY <1>2, <1>6, <2>8, <4>1 DEF InItem, Now
    <3>3. QueueInv'
      <4>1. ASSUME NEW a \in DOMAIN fds'
            PROVE  fds'[a][1] \in 1..Len(sent) /\ fds'[a][2] \in 1..Len(sent[fds'[a][1]].fds)
        <5>1. CASE a \in DOMAIN fds /\ fds'[a] = fds[a]
          BY <1>7, <5>1 DEF QueueInv
        <5>2. CASE a - Len(fds) \in 1..Len(ds) /\ ds # << >> /\ fds'[a] = <<n, a - Len(fds)>>
          BY <1>10, <5>2
        <5> QED BY <2>4, <5>1, <5>2
      <4>2. ASSUME NEW a \in DOMAIN fds', NEW j \in DOMAIN wire', wire'[j][2] = 1
            PROVE  fds'[a][1] < wire'[j][1]
        <5>1. j \in 1..(Len(wire) - k) /\ k + j \in 1..Len(wire) /\ wire'[j] = wire[k + j]
          <6>1. j \in 1..(Len(wire) - k)
            <7>1. DOMAIN wire' = 1..Len(wire')
              BY <1>8
            <7> QED BY <1>8, <7>1
          <6>2. k + j \in 1..Len(wire)
            BY <1>3, <6>1
          <6> QED BY <1>8, <6>1, <6>2
        <5>2. CASE a \in DOMAIN fds /\ fds'[a] = fds[a]
          BY <1>3, <1>7, <4>2, <5>1, <5>2 DEF QueueInv
        <5>3. CASE ds # << >> /\ fds'[a] = <<n, a - Len(fds)>>
          <6>1. wire[m] = <<n, 1>> /\ n \in Nat
            BY <1>10, <5>3
          <6>2. m < k + j /\ m \in 1..Len(wire)
            BY <1>3, <5>1
          <6>3. Rest = wire
            BY <1>2, <1>3 DEF Rest
          <6>4. Before(wire[m], wire[k + j])
            BY <1>6, <5>1, <6>2, <6>3 DEF InItem, Chain
          <6>5. wire[k + j] \in Places /\ wire[k + j][2] = 1
            BY <1>3, <4>2, <5>1
          <6> QED BY <5>1, <5>3, <6>1, <6>4, <6>5 DEF Before, Places
        <5> QED BY <2>4, <5>2, <5>3
      <4> QED BY <1>2, <2>5, <4>1, <4>2 DEF QueueInv
    <3>4. OwnInv'
      <4> SUFFICES ASSUME TidyTo(Upto)'
                   PROVE  /\ Gone'
                          /\ \A l \in (done' + 1)..Len(sent') : \A c \in 1..Len(sent'[l].fds) : There(l, c)'
        BY DEF OwnInv
      <4>1. TidyTo(Upto)
        BY <1>2, <2>8 DEF TidyTo, Tidy, Upto
      <4>2. Gone /\ \A l \in (done + 1)..Len(sent) : \A c \in 1..Len(sent[l].fds) : There(l, c)
        BY <1>7, <4>1 DEF OwnInv
      <4>3. p.claimed = << >>
        BY <1>5, <1>6 DEF InItem, Reads
      <4>4. Gone'
        <5> SUFFICES ASSUME NEW a \in DOMAIN fds'
                     PROVE  fds'[a][1] > done /\ (fds'[a][1] = done + 1 => fds'[a][2] > Len(p.claimed))
          BY <1>2, <2>8 DEF Gone
        <5>1. CASE a \in DOMAIN fds /\ fds'[a] = fds[a]
          BY <4>2, <5>1 DEF Gone
        <5>2. CASE a - Len(fds) \in 1..Len(ds) /\ fds'[a] = <<n, a - Len(fds)>>
          BY <1>3, <1>10, <2>3, <4>3, <5>2
        <5> QED BY <2>4, <5>1, <5>2
      <4>5. ASSUME NEW l \in (done + 1)..Len(sent), NEW c \in 1..Len(sent[l].fds) PROVE There(l, c)'
        <5>1. CASE l = done + 1 /\ c <= Len(p.claimed)
          BY <1>2, <2>8, <5>1 DEF There
        <5>2. CASE \E a \in DOMAIN fds : fds[a] = <<l, c>>
          <6>1. PICK a \in DOMAIN fds : fds[a] = <<l, c>>
            BY <5>2
          <6>2. a \in DOMAIN fds' /\ fds'[a] = <<l, c>>
            BY <1>3, <2>2, <2>3, <6>1
          <6> QED BY <6>2 DEF There
        <5>3. CASE \E j \in DOMAIN wire : wire[j] = <<l, 1>>
          <6>1. PICK j \in 1..Len(wire) : wire[j] = <<l, 1>>
            BY <1>3, <5>3
          <6>2. CASE j > k
            <7>1. j - k \in 1..(Len(wire) - k) /\ k + (j - k) = j
              BY <1>3, <6>2
            <7>2. wire'[j - k] = <<l, 1>> /\ j - k \in DOMAIN wire'
              <8>1. DOMAIN wire' = 1..Len(wire')
                BY <1>8
              <8>2. wire'[j - k] = wire[k + (j - k)]
                BY <1>8, <7>1
              <8> QED BY <1>8, <6>1, <7>1, <8>1, <8>2
            <7> QED BY <7>2 DEF There
          <6>3. CASE j = m
            <7>1. ds = sent[l].fds /\ n = l
              BY <6>1, <6>3 DEF ds, n, Carried
            <7>2. c \in 1..Len(ds) /\ ds[c] = <<l, c>>
              BY <1>10, <7>1
            <7>3. Len(fds) + c \in DOMAIN fds' /\ fds'[Len(fds) + c] = <<l, c>>
              BY <1>3, <2>2, <2>3, <7>2
            <7> QED BY <7>3 DEF There
          <6>4. CASE ~(j > k) /\ j # m
            <7>1. j \in (1..k) \ {m}
              BY <1>3, <6>4
            <7>2. Carried(wire[j]) = << >>
              BY <1>1, <7>1
            <7>3. sent[l].fds = << >>
              BY <6>1, <7>2 DEF Carried
            <7> QED BY <7>3
          <6> QED BY <6>2, <6>3, <6>4
        <5> QED BY <4>2, <5>1, <5>2, <5>3 DEF There
      <4> QED BY <1>2, <4>4, <4>5
    <3>5. ApplyInv'
      BY <1>5, <2>8 DEF ApplyInv
    <3> QED BY <1>11, <2>6, <3>1, <3>2, <3>3, <3>4, <3>5 DEF ReadingInv
  <2> QED BY <1>9, <1>13, <2>7, <2>8 DEF Harvest
<1> QED BY <1>12, <1>13
(***************************************************************************)
(* The parser.                                                              *)
(***************************************************************************)
\* The next token that is buffered is the next one of the current item.
LEMMA NextToken ==
  ASSUME IncomingInd, Parsing, rbuf # << >>
  PROVE  \E i \in Nat : /\ InItem(i) /\ done < Len(sent) /\ i < Len(Now)
                        /\ Now \in Seq(Tokens) /\ Nested(Now)
                        /\ Head(rbuf) = <<done + 1, i + 1>> /\ Token(Head(rbuf)) = Now[i + 1]
<1> USE DEF IncomingInd
<1>1. PICK i \in Nat : InItem(i)
  BY DEF ReadingInv, Parsing, Over
<1>2. /\ sent \in Seq(Item) /\ Len(sent) \in Nat /\ done \in Nat
      /\ rbuf \in Seq(Places) /\ wire \in Seq(Places)
  BY DEF StreamTyped
<1> DEFINE x == After(sent, done + 1, i)
<1>3. Head(rbuf) = x /\ x[1] \in 1..Len(sent)
  <2>1. Rest \in Seq(Places) /\ Len(Rest) = Len(rbuf) + Len(wire)
    BY <1>2 DEF Rest
  <2>2. 1 \in 1..Len(rbuf) /\ Len(wire) \in Nat /\ Head(rbuf) = rbuf[1]
    BY <1>2
  <2>3. Rest[1] = rbuf[1]
    BY <1>2, <2>2 DEF Rest
  <2>4. 1 \in 1..Len(Rest) /\ Rest # << >>
    BY <2>1, <2>2
  <2> QED BY <1>1, <2>2, <2>3, <2>4 DEF InItem, Chain
<1>4. done < Len(sent) /\ i <= Len(Now)
  <2>1. done <= Len(sent)
    BY <1>1 DEF InItem
  <2>2. x[1] \in {done + 1, done + 2}
    BY <1>2 DEF After
  <2>3. done < Len(sent)
    BY <1>2, <1>3, <2>1, <2>2
  <2> QED BY <1>1, <2>3 DEF InItem
<1>5. Now \in Seq(Tokens) /\ Nested(Now) /\ Len(Now) \in Nat /\ Len(Now) > 0
  <2>1. done + 1 \in 1..Len(sent)
    BY <1>2, <1>4
  <2>2. Written(done + 1) /\ sent[done + 1] \in Item
    BY <1>2, <2>1 DEF SentInv
  <2>3. Now \in Seq(Tokens) /\ Nested(Now)
    BY <2>2 DEF Written, Item, Now
  <2> QED BY <2>3 DEF Nested
<1>6. i # Len(Now)
  <2> SUFFICES ASSUME i = Len(Now) PROVE FALSE
    OBVIOUS
  <2>1. i > 0 /\ Reads(p, Now, i)
    BY <1>1, <1>5 DEF InItem
  <2>2. p.mode \in {"members", "text", "blob", "skip"}
    BY <2>1 DEF Reads, Parsing
  <2>3. Depth(Now, i + 1) \in Int
    <3>1. i + 1 \in Nat
      OBVIOUS
    <3> QED BY <3>1, DepthType
  <2>4. Depth(Now, i + 1) >= 1
    <3>1. p.depth \in Nat
      BY DEF StreamTyped, Parser
    <3>2. CASE p.mode = "members"
      BY <2>1, <3>2 DEF Reads
    <3>3. CASE p.mode = "text"
      BY <2>1, <3>3 DEF Reads
    <3>4. CASE p.mode = "blob"
      BY <2>1, <3>4 DEF Reads
    <3>5. CASE p.mode = "skip"
      BY <2>1, <3>1, <3>5 DEF Reads
    <3> QED BY <2>2, <3>2, <3>3, <3>4, <3>5
  <2>5. x[1] = done + 2
    BY <1>2, <1>4, <1>5 DEF After, Now
  <2>6. done + 1 < Len(sent) /\ done + 1 \in 1..Len(sent)
    BY <1>2, <1>3, <2>5
  <2>7. Depth(Now, i + 1) <= 0
    BY <2>6 DEF SentInv, Written, Now
  <2> QED BY <2>3, <2>4, <2>7
<1>7. i < Len(Now)
  BY <1>4, <1>5, <1>6
<1>8. x = <<done + 1, i + 1>>
  BY <1>2, <1>5, <1>7 DEF After, Now
<1>9. Token(Head(rbuf)) = Now[i + 1]
  BY <1>3, <1>8 DEF Token, Now
<1> QED BY <1>1, <1>3, <1>4, <1>5, <1>7, <1>8, <1>9

\* The place where the item after the current one begins.
LEMMA AfterItem ==
  ASSUME IncomingInd, done \in Nat, done < Len(sent)
  PROVE  After(sent, (done + 1) + 1, 0) = <<done + 2, 1>>
<1>1. sent \in Seq(Item) /\ Len(sent) \in Nat
  BY DEF IncomingInd, StreamTyped
<1>2. CASE done + 2 <= Len(sent)
  <2>1. done + 2 \in 1..Len(sent)
    BY <1>1, <1>2
  <2>2. Nested(sent[done + 2].toks) /\ sent[done + 2].toks \in Seq(Tokens)
    <3>1. Written(done + 2) /\ sent[done + 2] \in Item
      BY <1>1, <2>1 DEF IncomingInd, SentInv
    <3> QED BY <3>1 DEF Written, Item
  <2>3. ~(0 >= Len(sent[done + 2].toks))
    BY <2>2 DEF Nested
  <2> QED BY <1>1, <2>3 DEF After
<1>3. CASE ~(done + 2 <= Len(sent))
  BY <1>1, <1>3 DEF After
<1> QED BY <1>2, <1>3

\* What the parser makes of that token keeps the invariant.
LEMMA ParseStep ==
  ASSUME IncomingInd, Parsing, rbuf # << >>, NEW i \in Nat, InItem(i), done < Len(sent),
         i < Len(Now), Head(rbuf) = <<done + 1, i + 1>>, NEW q, Reaches(q, Now, i + 1),
         NEW mode, Parse(mode, q)
  PROVE  IncomingInd'
<1> USE DEF IncomingInd
<1>1. /\ menu' = menu /\ want' = want /\ writing' = writing /\ wire' = wire /\ sent' = sent
      /\ fds' = fds /\ held' = held /\ mapped' = mapped /\ out' = out /\ rbuf' = Tail(rbuf)
      /\ p' = (IF q.mode = "top" THEN Start ELSE q)
      /\ done' = (IF q.mode = "top" THEN done + 1 ELSE done)
  BY DEF Parse
<1>2. /\ sent \in Seq(Item) /\ Len(sent) \in Nat /\ done \in Nat /\ fds \in Seq(Places)
      /\ rbuf \in Seq(Places) /\ wire \in Seq(Places) /\ p \in Parser /\ q \in Parser
  BY DEF StreamTyped, Reaches
<1>3. p.mode # "apply" /\ ~Over /\ mapped = {} /\ p.claimed = << >>
  BY DEF Parsing, Over, HeldInv, InItem, Reads
<1>4. StreamTyped'
  <2>1. Tail(rbuf) \in Seq(Places)
    BY <1>2
  <2>2. p' \in Parser /\ done' \in Nat
    BY <1>1, <1>2, Constants
  <2> QED BY <1>1, <2>1, <2>2 DEF StreamTyped
<1>5. SentInv' /\ OutInv'
  BY <1>1 DEF SentInv, Written, OutInv, BlobIsItsOwn, Tidy
<1>6. HeldInv'
  BY <1>1, <1>3 DEF HeldInv
<1>7. QueueInv' /\ OwnInv
  BY <1>1, <1>3 DEF ReadingInv, QueueInv
<1>8. Chain(sent, Rest', After(sent, done + 1, i + 1))
  <2>1. Rest \in Seq(Places) /\ Len(Rest) = Len(rbuf) + Len(wire)
    BY <1>2 DEF Rest
  <2>2. /\ 1 \in 1..Len(rbuf) /\ Len(wire) \in Nat /\ Len(rbuf) \in Nat /\ Head(rbuf) = rbuf[1]
        /\ Tail(rbuf) \in Seq(Places) /\ Len(Tail(rbuf)) = Len(rbuf) - 1
    BY <1>2
  <2>3. Rest[1] = <<done + 1, i + 1>>
    BY <1>2, <2>2 DEF Rest
  <2>4. Rest # << >>
    BY <2>1, <2>2
  <2>5. Rest' = Tail(Rest)
    <3>1. Tail(rbuf) \o wire = Tail(rbuf \o wire)
      BY <1>2, TailOfConcat, Zenon
    <3> QED BY <1>1, <3>1 DEF Rest
  <2>6. Chain(sent, Rest, After(sent, done + 1, i))
    BY DEF InItem
  <2> HIDE DEF InItem
  <2>7. Chain(sent, Tail(Rest), After(sent, Rest[1][1], Rest[1][2]))
    BY <1>2, <2>1, <2>4, <2>6, ChainTail
  <2> QED BY <2>3, <2>5, <2>7
<1>9. CASE q.mode = "failed"
  <2>1. ReadingInv'
    BY <1>1, <1>9 DEF ReadingInv, Over
  <2> QED BY <1>4, <1>5, <1>6, <2>1
<1>10. CASE q.mode = "top"
  <2>1. p' = Start /\ done' = done + 1 /\ i + 1 = Len(Now) /\ Claims(Now) = 0
    BY <1>1, <1>10 DEF Reaches
  <2>2. After(sent, done + 1, i + 1) = <<done + 2, 1>>
    BY <1>2, <2>1 DEF After, Now
  <2>3. After(sent, done' + 1, 0) = <<done + 2, 1>>
    BY <1>2, <2>1, AfterItem
  <2>4. InItem(0)'
    <3>1. Reads(p', Now', 0)
      BY <2>1, Constants DEF Reads
    <3>2. done' <= Len(sent') /\ (done' < Len(sent') => 0 <= Len(Now'))
      <4>1. done' <= Len(sent')
        BY <1>1, <1>2, <2>1
      <4>2. ASSUME done' < Len(sent') PROVE 0 <= Len(Now')
        <5>1. done' + 1 \in 1..Len(sent)
          BY <1>1, <1>2, <2>1, <4>2
        <5>2. Now' \in Seq(Tokens)
          <6>1. sent[done' + 1] \in Item
            BY <1>2, <5>1
          <6> QED BY <1>1, <6>1 DEF Now, Item
        <5> QED BY <5>2
      <4> QED BY <4>1, <4>2
    <3>3. Chain(sent', Rest', After(sent', done' + 1, 0))
      BY <1>1, <1>8, <2>2, <2>3
    <3> QED BY <2>1, <3>1, <3>2, <3>3, Constants DEF InItem
  <2>5. OwnInv'
    <3> SUFFICES ASSUME TidyTo(done + 1)
                 PROVE  /\ Gone'
                        /\ \A n \in (done' + 1)..Len(sent) : \A c \in 1..Len(sent[n].fds) : There(n, c)'
      <4>1. Upto' = done + 1
        BY <2>1, Constants DEF Upto
      <4> QED BY <1>1, <4>1 DEF OwnInv, TidyTo, Tidy
    <3>1. Len(sent[done + 1].fds) = 0
      <4>1. done + 1 \in 1..(done + 1)
        BY <1>2
      <4> QED BY <2>1, <4>1 DEF TidyTo, Tidy, Now
    <3>2. Gone /\ \A n \in (done + 1)..Len(sent) : \A c \in 1..Len(sent[n].fds) : There(n, c)
      <4>1. TidyTo(Upto)
        BY <1>2, <1>3 DEF TidyTo, Upto
      <4> QED BY <1>7, <4>1 DEF OwnInv
    <3>3. Gone'
      <4> SUFFICES ASSUME NEW a \in DOMAIN fds
                   PROVE  fds[a][1] > done + 1 /\ (fds[a][1] = (done + 1) + 1 => fds[a][2] > 0)
        <5>1. Len(p'.claimed) = 0
          BY <2>1, Constants
        <5> QED BY <1>1, <2>1, <5>1 DEF Gone
      <4>1. fds[a][1] \in 1..Len(sent) /\ fds[a][2] \in 1..Len(sent[fds[a][1]].fds) /\ fds[a][1] > done
        BY <1>1, <1>7, <3>2 DEF QueueInv, Gone
      <4>2. fds[a][1] # done + 1
        BY <3>1, <4>1
      <4> QED BY <1>2, <4>1, <4>2
    <3>4. ASSUME NEW n \in (done' + 1)..Len(sent), NEW c \in 1..Len(sent[n].fds) PROVE There(n, c)'
      <4>1. n \in (done + 1)..Len(sent) /\ n # done + 1
        BY <1>2, <2>1, <3>4
      <4>2. There(n, c)
        BY <3>2, <4>1
      <4> QED BY <1>1, <4>1, <4>2 DEF There
    <3> QED BY <3>3, <3>4
  <2>6. ApplyInv'
    BY <2>1, Constants DEF ApplyInv
  <2> QED BY <1>4, <1>5, <1>6, <1>7, <2>4, <2>5, <2>6 DEF ReadingInv
<1>11. CASE q.mode \notin {"failed", "top"}
  <2>1. p' = q /\ done' = done /\ Reads(q, Now, i + 1)
    BY <1>1, <1>11 DEF Reaches
  <2>2. q.claimed = << >>
    BY <2>1 DEF Reaches, Reads
  <2>3. InItem(i + 1)'
    <3>1. Now' = Now /\ i + 1 <= Len(Now)
      <4>1. done + 1 \in 1..Len(sent)
        BY <1>2
      <4>2. Now \in Seq(Tokens)
        <5>1. sent[done + 1] \in Item
          BY <1>2, <4>1
        <5> QED BY <5>1 DEF Now, Item
      <4> QED BY <1>1, <2>1, <4>2 DEF Now
    <3> QED BY <1>1, <1>2, <1>8, <2>1, <3>1 DEF InItem
  <2>4. OwnInv'
    <3> SUFFICES ASSUME TidyTo(Upto)'
                 PROVE  /\ Gone'
                        /\ \A n \in (done + 1)..Len(sent) : \A c \in 1..Len(sent[n].fds) : There(n, c)'
      BY <1>1, <2>1 DEF OwnInv
    <3>1. TidyTo(Upto)
      <4>1. Upto = done /\ Upto' \in {done, done + 1}
        BY <1>3, <2>1 DEF Upto
      <4>2. \A a \in 1..done : a \in 1..Upto'
        BY <1>2, <4>1
      <4> QED BY <1>1, <4>1, <4>2 DEF TidyTo, Tidy
    <3>2. Gone /\ \A n \in (done + 1)..Len(sent) : \A c \in 1..Len(sent[n].fds) : There(n, c)
      BY <1>7, <3>1 DEF OwnInv
    <3> QED BY <1>1, <1>3, <2>1, <2>2, <3>2 DEF Gone, There
  <2>5. ApplyInv'
    <3> SUFFICES ASSUME q.mode = "apply" PROVE ApplyInv'
      BY <2>1 DEF ApplyInv
    <3>1. /\ q.claimed = << >> /\ q.got = << >>
          /\ q.tag \in Delivered => Cardinality(AttachedOf(q.mem)) = Claims(Now)
      BY DEF Reaches
    <3>2. Cardinality(AttachedOf(q.mem)) \in Nat
      <4>1. q.mem \in Seq(Member) /\ [att |-> FALSE, data |-> FALSE] \in Member
        BY <1>2 DEF Parser, Member
      <4> QED BY <4>1, AttachedAppend
    <3>3. Len(q.claimed) + Cardinality(AttachedOf(q.mem)) = Cardinality(AttachedOf(q.mem))
      BY <3>1, <3>2
    <3>4. Payload(q.got, done + 1, Len(q.claimed))
      BY <3>1 DEF Payload
    <3>5. Now' = Now
      BY <1>1, <2>1 DEF Now
    <3> QED BY <2>1, <3>1, <3>3, <3>4, <3>5 DEF ApplyInv
  <2>6. i + 1 \in Nat
    OBVIOUS
  <2> QED BY <1>4, <1>5, <1>6, <1>7, <2>3, <2>4, <2>5, <2>6 DEF ReadingInv
<1> QED BY <1>9, <1>10, <1>11
\* One tag, in whatever function the parser is.
LEMMA TokenStep ==
  ASSUME IncomingInd, rbuf # << >>, NEW t, t = Token(Head(rbuf)),
         \/ Parse("top", NextTag(t)) \/ Parse("members", MemberTag(t)) \/ Parse("text", TextTag(t))
         \/ Parse("blob", BlobTag(t)) \/ Parse("skip", SkipTag(t))
  PROVE  IncomingInd'
<1>1. Parsing
  BY DEF Parse, Parsing
<1>2. PICK i \in Nat : /\ InItem(i) /\ done < Len(sent) /\ i < Len(Now)
                       /\ Now \in Seq(Tokens) /\ Nested(Now)
                       /\ Head(rbuf) = <<done + 1, i + 1>> /\ Token(Head(rbuf)) = Now[i + 1]
  BY <1>1, NextToken
<1>3. t = Now[i + 1] /\ Reads(p, Now, i) /\ p \in Parser /\ want \in BOOLEAN
  BY <1>2 DEF InItem, IncomingInd, StreamTyped
<1> DEFINE s == Now
<1> HIDE DEF s
<1>4. /\ s = Now /\ s \in Seq(Tokens) /\ Nested(s) /\ i < Len(s) /\ t = s[i + 1] /\ Reads(p, s, i)
  BY <1>2, <1>3 DEF s
<1>5. CASE Parse("top", NextTag(t))
  <2>1. i = 0
    BY <1>4, <1>5 DEF Parse, Reads
  <2>2. t = s[1] /\ i + 1 = 1
    BY <1>4, <2>1
  <2>3. Reaches(NextTag(t), s, i + 1)
    BY <1>4, <2>2, NextReaches
  <2> QED BY <1>1, <1>2, <1>4, <1>5, <2>3, ParseStep
<1>6. CASE Parse("members", MemberTag(t))
  <2>1. p.mode = "members"
    BY <1>6 DEF Parse
  <2>2. Reaches(MemberTag(t), s, i + 1)
    BY <1>3, <1>4, <2>1, MemberReaches
  <2> QED BY <1>1, <1>2, <1>4, <1>6, <2>2, ParseStep
<1>7. CASE Parse("text", TextTag(t))
  <2>1. p.mode = "text"
    BY <1>7 DEF Parse
  <2>2. Reaches(TextTag(t), s, i + 1)
    BY <1>3, <1>4, <2>1, TextReaches
  <2> QED BY <1>1, <1>2, <1>4, <1>7, <2>2, ParseStep
<1>8. CASE Parse("blob", BlobTag(t))
  <2>1. p.mode = "blob"
    BY <1>8 DEF Parse
  <2>2. Reaches(BlobTag(t), s, i + 1)
    BY <1>3, <1>4, <2>1, BlobReaches
  <2> QED BY <1>1, <1>2, <1>4, <1>8, <2>2, ParseStep
<1>9. CASE Parse("skip", SkipTag(t))
  <2>1. p.mode = "skip"
    BY <1>9 DEF Parse
  <2>2. Reaches(SkipTag(t), s, i + 1)
    BY <1>3, <1>4, <2>1, SkipReaches
  <2> QED BY <1>1, <1>2, <1>4, <1>9, <2>2, ParseStep
<1> QED BY <1>5, <1>6, <1>7, <1>8, <1>9

(***************************************************************************)
(* apply.                                                                   *)
(***************************************************************************)
\* A payload more.
LEMMA PayloadAppend ==
  ASSUME NEW ps \in Seq(Places), NEW n \in Nat, NEW c \in Nat, Payload(ps, n, c)
  PROVE  /\ Payload(ps, n, c + 1) /\ Payload(Append(ps, <<n, c + 1>>), n, c + 1)
         /\ Payload(Append(ps, <<n, 0>>), n, c)
<1>1. /\ DOMAIN ps = 1..Len(ps) /\ Len(ps) \in Nat
      /\ \A j \in DOMAIN ps : ps[j][1] = n /\ ps[j][2] \in Nat /\ ps[j][2] <= c
      /\ \A j, k \in DOMAIN ps : j < k /\ 0 \notin {ps[j][2], ps[k][2]} => ps[j][2] < ps[k][2]
  BY DEF Payload, Places
<1>2. Payload(ps, n, c + 1)
  BY <1>1 DEF Payload
<1>3. ASSUME NEW x \in Places, x[1] = n, NEW b \in Nat, b >= c, x[2] <= b,
             x[2] # 0 => \A j \in DOMAIN ps : ps[j][2] < x[2]
      PROVE  Payload(Append(ps, x), n, b)
  <2> DEFINE as == Append(ps, x)
  <2>1. /\ DOMAIN as = 1..(Len(ps) + 1) /\ as[Len(ps) + 1] = x
        /\ \A j \in 1..Len(ps) : as[j] = ps[j]
    BY <1>1
  <2> HIDE DEF as
  <2> SUFFICES ASSUME NEW j \in DOMAIN as, NEW k \in DOMAIN as
               PROVE  /\ as[j][1] = n /\ as[j][2] <= b
                      /\ j < k /\ 0 \notin {as[j][2], as[k][2]} => as[j][2] < as[k][2]
    BY DEF Payload, as
  <2>0. x[2] \in Nat /\ j \in Nat /\ k \in Nat
    BY <1>3, <2>1 DEF Places
  <2>2. as[j][1] = n /\ as[j][2] <= b
    <3>1. CASE j \in 1..Len(ps)
      <4>1. as[j] = ps[j] /\ j \in DOMAIN ps
        BY <1>1, <2>1, <3>1
      <4>2. ps[j][1] = n /\ ps[j][2] \in Nat /\ ps[j][2] <= c
        BY <1>1, <4>1
      <4> QED BY <1>3, <4>1, <4>2
    <3>2. CASE j = Len(ps) + 1
      BY <1>3, <2>1, <3>2
    <3>3. j \in 1..Len(ps) \/ j = Len(ps) + 1
      BY <1>1, <2>1
    <3> QED BY <3>1, <3>2, <3>3
  <2>3. ASSUME j < k, 0 \notin {as[j][2], as[k][2]} PROVE as[j][2] < as[k][2]
    <3>1. j \in 1..Len(ps)
      <4>1. k \in 1..(Len(ps) + 1) /\ j \in 1..(Len(ps) + 1)
        BY <2>1
      <4> QED BY <1>1, <2>3, <4>1
    <3>2. as[j] = ps[j] /\ j \in DOMAIN ps
      BY <1>1, <2>1, <3>1
    <3>3. CASE k \in 1..Len(ps)
      <4>1. as[k] = ps[k] /\ k \in DOMAIN ps
        BY <1>1, <2>1, <3>3
      <4> QED BY <1>1, <2>3, <3>2, <4>1
    <3>4. CASE k = Len(ps) + 1
      <4>1. as[k] = x
        BY <2>1, <3>4
      <4>2. x[2] # 0
        BY <2>3, <4>1
      <4> QED BY <1>3, <3>2, <4>1, <4>2
    <3>5. k \in 1..Len(ps) \/ k = Len(ps) + 1
      BY <1>1, <2>1
    <3> QED BY <3>3, <3>4, <3>5
  <2> QED BY <2>2, <2>3
<1>4. Payload(Append(ps, <<n, c + 1>>), n, c + 1)
  <2>1. <<n, c + 1>> \in Places /\ <<n, c + 1>>[1] = n /\ <<n, c + 1>>[2] = c + 1
    BY DEF Places
  <2>2. \A j \in DOMAIN ps : ps[j][2] < c + 1
    BY <1>1
  <2> QED BY <1>3, <2>1, <2>2
<1>5. Payload(Append(ps, <<n, 0>>), n, c)
  <2>1. <<n, 0>> \in Places /\ <<n, 0>>[1] = n /\ <<n, 0>>[2] = 0
    BY DEF Places
  <2> QED BY <1>3, <2>1
<1> QED BY <1>2, <1>4, <1>5

\* An element is complete when it is handed on, and what follows is another item.
LEMMA Applying ==
  ASSUME IncomingInd, p.mode = "apply"
  PROVE  /\ InItem(Len(Now)) /\ done < Len(sent) /\ QueueInv /\ OwnInv /\ ApplyInv
         /\ Now \in Seq(Tokens) /\ Nested(Now) /\ p.tag = Now[1].n
         /\ After(sent, done + 1, Len(Now)) = <<done + 2, 1>>
         /\ After(sent, (done + 1) + 1, 0) = <<done + 2, 1>>
         /\ \A j \in DOMAIN wire : wire[j] # <<done + 1, 1>>
<1> USE DEF IncomingInd
<1>1. /\ sent \in Seq(Item) /\ Len(sent) \in Nat /\ done \in Nat /\ p \in Parser
      /\ rbuf \in Seq(Places) /\ wire \in Seq(Places)
  BY DEF StreamTyped
<1>2. PICK i \in Nat : InItem(i)
  BY DEF ReadingInv, Over
<1>3. QueueInv /\ OwnInv /\ ApplyInv
  BY DEF ReadingInv, Over
<1>4. i = Len(Now) /\ done < Len(sent) /\ p.tag = Now[1].n
  BY <1>2 DEF InItem, Reads
<1>5. done + 1 \in 1..Len(sent)
  BY <1>1, <1>4
<1>6. Now \in Seq(Tokens) /\ Nested(Now)
  <2>1. Written(done + 1) /\ sent[done + 1] \in Item
    BY <1>1, <1>5 DEF SentInv
  <2> QED BY <2>1 DEF Written, Item, Now
<1>7. After(sent, done + 1, Len(Now)) = <<done + 2, 1>>
  BY <1>1, <1>4, <1>6 DEF After, Now
<1>8. After(sent, (done + 1) + 1, 0) = <<done + 2, 1>>
  BY <1>1, <1>4, AfterItem
<1>9. ASSUME NEW j \in DOMAIN wire, wire[j] = <<done + 1, 1>> PROVE FALSE
  <2>1. Rest \in Seq(Places) /\ Len(Rest) = Len(rbuf) + Len(wire)
    BY <1>1 DEF Rest
  <2>2. j \in 1..Len(wire) /\ Len(wire) \in Nat /\ Len(rbuf) \in Nat
    BY <1>1
  <2>3. Rest[Len(rbuf) + j] = wire[j]
    BY <1>1, <2>2 DEF Rest
  <2>4. Len(rbuf) + j \in 1..Len(Rest)
    BY <2>1, <2>2
  <2>5. ~Before(Rest[Len(rbuf) + j], After(sent, done + 1, i))
    BY <1>2, <2>4 DEF InItem, Chain
  <2>6. Before(<<done + 1, 1>>, <<done + 2, 1>>)
    BY <1>1 DEF Before
  <2> QED BY <1>4, <1>7, <1>9, <2>3, <2>5, <2>6
<1> QED BY <1>2, <1>3, <1>4, <1>6, <1>7, <1>8, <1>9

\* While the items are tidy, the head of the queue is the descriptor of the next
\* attached member.
LEMMA HeadIsNext ==
  ASSUME IncomingInd, Claiming, Head(p.mem).att, TidyTo(done + 1)
  PROVE  fds # << >> /\ fds[1] = <<done + 1, Len(p.claimed) + 1>>
<1> USE DEF IncomingInd
<1> DEFINE c == Len(p.claimed) + 1
<1>1. /\ p.mode = "apply" /\ p.tag \in Delivered /\ p.mem # << >>
  BY DEF Claiming
<1>2. /\ done < Len(sent) /\ QueueInv /\ OwnInv /\ ApplyInv
      /\ \A j \in DOMAIN wire : wire[j] # <<done + 1, 1>>
  BY <1>1, Applying
<1>3. /\ sent \in Seq(Item) /\ Len(sent) \in Nat /\ done \in Nat /\ fds \in Seq(Places)
      /\ p.mem \in Seq(Member) /\ p.claimed \in Seq(Places) /\ DOMAIN fds = 1..Len(fds)
      /\ Len(fds) \in Nat
  BY DEF StreamTyped, Parser
<1>4. Len(p.claimed) + Cardinality(AttachedOf(p.mem)) = Claims(Now)
  BY <1>1, <1>2 DEF ApplyInv
<1>5. Claims(Now) = Len(sent[done + 1].fds)
  <2>1. done + 1 \in 1..(done + 1)
    BY <1>3
  <2> QED BY <2>1 DEF TidyTo, Tidy, Now
<1>6. /\ Cardinality(AttachedOf(p.mem)) = Cardinality(AttachedOf(Tail(p.mem))) + 1
      /\ Cardinality(AttachedOf(Tail(p.mem))) \in Nat
  BY <1>1, <1>3, AttachedTail
<1>7. Len(p.claimed) \in Nat /\ c \in 1..Len(sent[done + 1].fds)
  <2>1. Len(p.claimed) \in Nat
    BY <1>3
  <2> QED BY <1>4, <1>5, <1>6, <2>1
<1>8. Gone /\ There(done + 1, c)
  <2>1. TidyTo(Upto)
    BY <1>1 DEF Upto
  <2>2. done + 1 \in (done + 1)..Len(sent)
    BY <1>2, <1>3
  <2> QED BY <1>2, <1>7, <2>1, <2>2 DEF OwnInv
<1>9. PICK a \in DOMAIN fds : fds[a] = <<done + 1, c>>
  BY <1>2, <1>7, <1>8 DEF There
<1>10. 1 \in DOMAIN fds /\ a \in Nat /\ fds # << >>
  BY <1>3
<1>11. a = 1
  <2> SUFFICES ASSUME 1 < a PROVE FALSE
    BY <1>3, <1>10
  <2>1. Before(fds[1], <<done + 1, c>>)
    BY <1>2, <1>9, <1>10 DEF QueueInv
  <2>2. fds[1][1] > done /\ (fds[1][1] = done + 1 => fds[1][2] > Len(p.claimed))
    BY <1>8, <1>10 DEF Gone
  <2>3. fds[1][1] \in Nat /\ fds[1][2] \in Nat
    BY <1>3, <1>10 DEF Places
  <2> QED BY <1>3, <1>7, <2>1, <2>2, <2>3 DEF Before
<1> QED BY <1>9, <1>10, <1>11
LEMMA ClaimStep == IncomingInd /\ Claim => IncomingInd'
<1> SUFFICES ASSUME IncomingInd, Claim PROVE IncomingInd'
  OBVIOUS
<1> USE DEF IncomingInd
<1> DEFINE h == fds[1]
<1>1. PICK ok \in {want, FALSE} :
        p' = [p EXCEPT !.mem = Tail(@), !.claimed = Append(@, Head(fds)),
                       !.got = IF ok THEN Append(@, Head(fds)) ELSE @]
  BY DEF Claim
<1>2. /\ Claiming /\ Head(p.mem).att /\ fds # << >>
      /\ fds' = Tail(fds) /\ held' = held \ {Head(fds)}
      /\ menu' = menu /\ want' = want /\ writing' = writing /\ wire' = wire /\ sent' = sent
      /\ rbuf' = rbuf /\ done' = done /\ out' = out
  BY DEF Claim
<1>3. p.mode = "apply" /\ p.tag \in Delivered /\ p.mem # << >>
  BY <1>2 DEF Claiming
<1>4. /\ InItem(Len(Now)) /\ done < Len(sent) /\ QueueInv /\ OwnInv /\ ApplyInv /\ Now \in Seq(Tokens)
  BY <1>3, Applying
<1>5. /\ sent \in Seq(Item) /\ Len(sent) \in Nat /\ done \in Nat /\ fds \in Seq(Places) /\ p \in Parser
      /\ p.mem \in Seq(Member) /\ p.claimed \in Seq(Places) /\ p.got \in Seq(Places)
      /\ DOMAIN fds = 1..Len(fds) /\ Len(fds) \in Nat /\ Len(p.claimed) \in Nat
  BY DEF StreamTyped, Parser
<1>6. Head(fds) = h /\ h \in Places /\ 1 \in DOMAIN fds
  BY <1>2, <1>5
<1>7. /\ fds' \in Seq(Places) /\ DOMAIN fds' = 1..(Len(fds) - 1)
      /\ \A a \in DOMAIN fds' : a + 1 \in DOMAIN fds /\ a + 1 > 1 /\ fds'[a] = fds[a + 1]
  <2>1. Tail(fds) \in Seq(Places) /\ Len(Tail(fds)) = Len(fds) - 1
    BY <1>2, <1>5
  <2>2. DOMAIN fds' = 1..(Len(fds) - 1)
    BY <1>2, <2>1
  <2>3. \A a \in 1..(Len(fds) - 1) : a + 1 \in 1..Len(fds) /\ a + 1 > 1 /\ Tail(fds)[a] = fds[a + 1]
    BY <1>2, <1>5
  <2> QED BY <1>2, <1>5, <2>1, <2>2, <2>3
<1> HIDE DEF h
<1>8. /\ p'.mode = "apply" /\ p'.tag = p.tag /\ p'.mem = Tail(p.mem)
      /\ p'.claimed = Append(p.claimed, h) /\ p'.got \in {p.got, Append(p.got, h)}
  BY <1>1, <1>3, <1>5, <1>6 DEF Parser
<1>9. /\ Tail(p.mem) \in Seq(Member) /\ Append(p.claimed, h) \in Seq(Places)
      /\ Append(p.got, h) \in Seq(Places) /\ Len(Append(p.claimed, h)) = Len(p.claimed) + 1
  BY <1>3, <1>5, <1>6
<1>10. p' \in Parser
  <2> DEFINE g == IF ok THEN Append(p.got, Head(fds)) ELSE p.got
  <2>1. g \in Seq(Places)
    BY <1>5, <1>6, <1>9
  <2>2. p' = [p EXCEPT !.mem = Tail(p.mem), !.claimed = Append(p.claimed, h), !.got = g]
    BY <1>1, <1>5, <1>6 DEF Parser
  <2> HIDE DEF g
  <2> QED BY <1>5, <1>9, <2>1, <2>2 DEF Parser
<1>11. StreamTyped'
  BY <1>2, <1>7, <1>10 DEF StreamTyped
<1>12. SentInv' /\ OutInv'
  BY <1>2 DEF SentInv, Written, OutInv, BlobIsItsOwn, Tidy
<1>13. \A a, b \in DOMAIN fds' : a < b => Before(fds'[a], fds'[b])
  <2> SUFFICES ASSUME NEW a \in DOMAIN fds', NEW b \in DOMAIN fds', a < b PROVE Before(fds'[a], fds'[b])
    OBVIOUS
  <2>1. a \in Nat /\ b \in Nat
    BY <1>7
  <2>2. a + 1 < b + 1
    BY <2>1
  <2> QED BY <1>4, <1>7, <2>2 DEF QueueInv
<1>14. HeldInv'
  <2>1. held = ToSet(fds) /\ IsInjective(fds)
    BY DEF HeldInv
  <2>2. IsInjective(fds')
    BY <1>7, <1>13, OrderedIsInjective
  <2>3. ASSUME NEW x \in held' PROVE x \in ToSet(fds')
    <3>1. PICK a \in DOMAIN fds : fds[a] = x
      BY <1>2, <2>1, <2>3 DEF ToSet
    <3>2. a # 1
      BY <1>2, <1>6, <2>3, <3>1 DEF h
    <3>3. a - 1 \in DOMAIN fds' /\ (a - 1) + 1 = a
      BY <1>5, <1>7, <3>2
    <3>4. fds'[a - 1] = x
      BY <1>7, <3>1, <3>3
    <3> QED BY <3>3, <3>4 DEF ToSet
  <2>4. ASSUME NEW x \in ToSet(fds') PROVE x \in held'
    <3>1. PICK a \in DOMAIN fds' : fds'[a] = x
      BY <2>4 DEF ToSet
    <3>2. a + 1 \in DOMAIN fds /\ a + 1 # 1 /\ fds[a + 1] = x
      BY <1>7, <3>1
    <3>3. x \in ToSet(fds)
      BY <3>2 DEF ToSet
    <3>4. x # fds[1]
      BY <1>6, <2>1, <3>2 DEF IsInjective
    <3> QED BY <1>2, <1>6, <2>1, <3>3, <3>4 DEF h
  <2> QED BY <1>8, <2>2, <2>3, <2>4 DEF HeldInv
<1>15. InItem(Len(Now))'
  <2>1. Now' = Now /\ Rest' = Rest
    BY <1>2 DEF Now, Rest
  <2>2. Reads(p, Now, Len(Now))
    BY <1>4 DEF InItem
  <2>3. Reads(p', Now, Len(Now))
    BY <1>3, <1>8, <2>2 DEF Reads
  <2> QED BY <1>2, <1>4, <2>1, <2>3 DEF InItem
<1>16. QueueInv'
  <2>1. \A a \in DOMAIN fds' : /\ fds'[a][1] \in 1..Len(sent)
                               /\ fds'[a][2] \in 1..Len(sent[fds'[a][1]].fds)
    BY <1>4, <1>7 DEF QueueInv
  <2>2. \A a \in DOMAIN fds', j \in DOMAIN wire : wire[j][2] = 1 => fds'[a][1] < wire[j][1]
    BY <1>4, <1>7 DEF QueueInv
  <2> QED BY <1>2, <1>13, <2>1, <2>2 DEF QueueInv
<1>17. ASSUME TidyTo(done + 1) PROVE h = <<done + 1, Len(p.claimed) + 1>>
  BY <1>2, <1>17, HeadIsNext DEF h
<1>18. OwnInv'
  <2> SUFFICES ASSUME TidyTo(done + 1)
               PROVE  /\ Gone'
                      /\ \A n \in (done + 1)..Len(sent) : \A c \in 1..Len(sent[n].fds) : There(n, c)'
    <3>1. Upto' = done + 1
      BY <1>2, <1>8 DEF Upto
    <3> QED BY <1>2, <3>1 DEF OwnInv, TidyTo, Tidy
  <2>1. Gone /\ \A n \in (done + 1)..Len(sent) : \A c \in 1..Len(sent[n].fds) : There(n, c)
    <3>1. Upto = done + 1
      BY <1>3 DEF Upto
    <3> QED BY <1>4, <3>1 DEF OwnInv
  <2>2. Len(p'.claimed) = Len(p.claimed) + 1
    BY <1>8, <1>9
  <2>3. Gone'
    <3> SUFFICES ASSUME NEW a \in DOMAIN fds'
                 PROVE  /\ fds'[a][1] > done
                        /\ fds'[a][1] = done + 1 => fds'[a][2] > Len(p.claimed) + 1
      BY <1>2, <2>2 DEF Gone
    <3>1. fds'[a][1] > done
      BY <1>7, <2>1 DEF Gone
    <3>2. Before(h, fds'[a])
      BY <1>4, <1>6, <1>7 DEF QueueInv, h
    <3>3. fds'[a] \in Places
      BY <1>7
    <3> QED BY <1>5, <1>17, <3>1, <3>2, <3>3 DEF Before, Places
  <2>4. ASSUME NEW n \in (done + 1)..Len(sent), NEW c \in 1..Len(sent[n].fds) PROVE There(n, c)'
    <3>1. c \in Nat
      OBVIOUS
    <3>2. CASE n = done + 1 /\ c <= Len(p.claimed)
      BY <1>2, <1>5, <2>2, <3>1, <3>2 DEF There
    <3>3. CASE \E a \in DOMAIN fds : fds[a] = <<n, c>>
      <4>1. PICK a \in DOMAIN fds : fds[a] = <<n, c>>
        BY <3>3
      <4>2. CASE a = 1
        <5>1. <<n, c>> = <<done + 1, Len(p.claimed) + 1>>
          BY <1>17, <4>1, <4>2 DEF h
        <5>2. n = done + 1 /\ c = Len(p.claimed) + 1
          BY <5>1
        <5> QED BY <1>2, <1>5, <2>2, <5>2 DEF There
      <4>3. CASE a # 1
        <5>1. a - 1 \in DOMAIN fds' /\ (a - 1) + 1 = a
          BY <1>5, <1>7, <4>3
        <5>2. fds'[a - 1] = <<n, c>>
          BY <1>7, <4>1, <5>1
        <5> QED BY <5>1, <5>2 DEF There
      <4> QED BY <4>2, <4>3
    <3>4. CASE \E j \in DOMAIN wire : wire[j] = <<n, 1>>
      BY <1>2, <3>4 DEF There
    <3> QED BY <2>1, <3>2, <3>3, <3>4 DEF There
  <2> QED BY <2>3, <2>4
<1>19. ApplyInv'
  <2> SUFFICES ASSUME TidyTo(done + 1)
               PROVE  /\ Len(p'.claimed) + Cardinality(AttachedOf(p'.mem)) = Claims(Now)
                      /\ Payload(p'.got, done + 1, Len(p'.claimed))
    <3>1. Now' = Now /\ TidyTo(done + 1)' = TidyTo(done + 1)
      BY <1>2 DEF Now, TidyTo, Tidy
    <3> QED BY <1>2, <1>3, <1>8, <3>1 DEF ApplyInv
  <2>1. /\ Len(p.claimed) + Cardinality(AttachedOf(p.mem)) = Claims(Now)
        /\ Payload(p.got, done + 1, Len(p.claimed))
    BY <1>3, <1>4 DEF ApplyInv
  <2>2. /\ Cardinality(AttachedOf(p.mem)) = Cardinality(AttachedOf(Tail(p.mem))) + 1
        /\ Cardinality(AttachedOf(Tail(p.mem))) \in Nat
    BY <1>2, <1>3, <1>5, AttachedTail
  <2>3. Len(p'.claimed) = Len(p.claimed) + 1
    BY <1>8, <1>9
  <2>4. Len(p'.claimed) + Cardinality(AttachedOf(p'.mem)) = Claims(Now)
    <3>1. Cardinality(AttachedOf(p'.mem)) = Cardinality(AttachedOf(Tail(p.mem)))
      BY <1>8
    <3>2. Len(p.claimed) \in Nat
      BY <1>5
    <3> QED BY <2>1, <2>2, <2>3, <3>1, <3>2
  <2>5. done + 1 \in Nat
    BY <1>5
  <2>6. /\ Payload(p.got, done + 1, Len(p.claimed) + 1)
        /\ Payload(Append(p.got, <<done + 1, Len(p.claimed) + 1>>), done + 1, Len(p.claimed) + 1)
    BY <1>5, <2>1, <2>5, PayloadAppend
  <2> QED BY <1>8, <1>17, <2>3, <2>4, <2>6
<1>20. Len(Now)' \in Nat
  BY <1>2, <1>4 DEF Now
<1> QED BY <1>11, <1>12, <1>14, <1>15, <1>16, <1>18, <1>19, <1>20 DEF ReadingInv

LEMMA DeliverStep == IncomingInd /\ Deliver => IncomingInd'
<1> SUFFICES ASSUME IncomingInd, Deliver PROVE IncomingInd'
  OBVIOUS
<1> USE DEF IncomingInd
<1>1. /\ Claiming /\ ~(Head(p.mem).att /\ fds # << >>)
      /\ p' = [p EXCEPT !.mem = Tail(@),
                        !.got = IF Head(p.mem).data /\ ~Head(p.mem).att
                                THEN Append(@, <<done + 1, 0>>) ELSE @]
      /\ menu' = menu /\ want' = want /\ writing' = writing /\ wire' = wire /\ sent' = sent
      /\ rbuf' = rbuf /\ fds' = fds /\ held' = held /\ mapped' = mapped /\ done' = done /\ out' = out
  BY DEF Deliver
<1>2. p.mode = "apply" /\ p.tag \in Delivered /\ p.mem # << >>
  BY <1>1 DEF Claiming
<1>3. InItem(Len(Now)) /\ done < Len(sent) /\ QueueInv /\ OwnInv /\ ApplyInv /\ Now \in Seq(Tokens)
  BY <1>2, Applying
<1>4. /\ done \in Nat /\ p \in Parser /\ p.mem \in Seq(Member) /\ p.claimed \in Seq(Places)
      /\ p.got \in Seq(Places) /\ Len(p.claimed) \in Nat /\ done + 1 \in Nat
  BY DEF StreamTyped, Parser
<1>5. /\ p'.mode = "apply" /\ p'.tag = p.tag /\ p'.mem = Tail(p.mem) /\ p'.claimed = p.claimed
      /\ p'.got \in {p.got, Append(p.got, <<done + 1, 0>>)}
  BY <1>1, <1>2, <1>4 DEF Parser
<1>6. Tail(p.mem) \in Seq(Member) /\ Append(p.got, <<done + 1, 0>>) \in Seq(Places)
  BY <1>2, <1>4 DEF Places
<1>7. p' \in Parser
  <2> DEFINE g == IF Head(p.mem).data /\ ~Head(p.mem).att
                  THEN Append(p.got, <<done + 1, 0>>) ELSE p.got
  <2>1. g \in Seq(Places)
    BY <1>4, <1>6
  <2>2. p' = [p EXCEPT !.mem = Tail(p.mem), !.got = g]
    BY <1>1, <1>4 DEF Parser
  <2> HIDE DEF g
  <2> QED BY <1>4, <1>6, <2>1, <2>2 DEF Parser
<1>8. StreamTyped' /\ SentInv' /\ OutInv'
  BY <1>1, <1>7 DEF StreamTyped, SentInv, Written, OutInv, BlobIsItsOwn, Tidy
<1>9. HeldInv'
  BY <1>1, <1>5 DEF HeldInv
<1>10. InItem(Len(Now))'
  <2>1. Now' = Now /\ Rest' = Rest
    BY <1>1 DEF Now, Rest
  <2>2. Reads(p, Now, Len(Now))
    BY <1>3 DEF InItem
  <2>3. Reads(p', Now, Len(Now))
    BY <1>2, <1>5, <2>2 DEF Reads
  <2> QED BY <1>1, <1>3, <2>1, <2>3 DEF InItem
<1>11. QueueInv'
  BY <1>1, <1>3 DEF QueueInv
<1>12. OwnInv'
  BY <1>1, <1>2, <1>3, <1>5 DEF OwnInv, TidyTo, Tidy, Upto, Gone, There
<1>13. ApplyInv'
  <2> SUFFICES ASSUME TidyTo(done + 1)
               PROVE  /\ Len(p.claimed) + Cardinality(AttachedOf(Tail(p.mem))) = Claims(Now)
                      /\ Payload(p'.got, done + 1, Len(p.claimed))
    <3>1. Now' = Now /\ TidyTo(done + 1)' = TidyTo(done + 1)
      BY <1>1 DEF Now, TidyTo, Tidy
    <3> QED BY <1>1, <1>2, <1>5, <3>1 DEF ApplyInv
  <2>1. /\ Len(p.claimed) + Cardinality(AttachedOf(p.mem)) = Claims(Now)
        /\ Payload(p.got, done + 1, Len(p.claimed))
    BY <1>2, <1>3 DEF ApplyInv
  <2>2. ~Head(p.mem).att
    BY <1>1, HeadIsNext
  <2>3. Cardinality(AttachedOf(p.mem)) = Cardinality(AttachedOf(Tail(p.mem)))
    BY <1>2, <1>4, <2>2, AttachedTail
  <2>4. Payload(Append(p.got, <<done + 1, 0>>), done + 1, Len(p.claimed))
    BY <1>4, <2>1, PayloadAppend
  <2> QED BY <1>5, <2>1, <2>3, <2>4
<1>14. Len(Now)' \in Nat
  BY <1>1, <1>3 DEF Now
<1> QED BY <1>8, <1>9, <1>10, <1>11, <1>12, <1>13, <1>14 DEF ReadingInv

LEMMA ApplyStep == IncomingInd /\ Apply => IncomingInd'
<1> SUFFICES ASSUME IncomingInd, Apply PROVE IncomingInd'
  OBVIOUS
<1> USE DEF IncomingInd
<1>1. /\ p.mode = "apply" /\ ~Claiming /\ mapped' = {} /\ p' = Start /\ done' = done + 1
      /\ out' = [n |-> done + 1, got |-> p.got]
      /\ menu' = menu /\ want' = want /\ writing' = writing /\ wire' = wire /\ sent' = sent
      /\ rbuf' = rbuf /\ fds' = fds /\ held' = held
  BY DEF Apply
<1>2. /\ InItem(Len(Now)) /\ done < Len(sent) /\ QueueInv /\ OwnInv /\ ApplyInv
      /\ Now \in Seq(Tokens) /\ p.tag = Now[1].n
      /\ After(sent, done + 1, Len(Now)) = <<done + 2, 1>>
      /\ After(sent, (done + 1) + 1, 0) = <<done + 2, 1>>
  BY <1>1, Applying
<1>3. /\ sent \in Seq(Item) /\ Len(sent) \in Nat /\ done \in Nat /\ p \in Parser
      /\ p.mem \in Seq(Member) /\ p.claimed \in Seq(Places)
      /\ p.got \in Seq(Places) /\ Len(p.claimed) \in Nat /\ done + 1 \in Nat
  BY DEF StreamTyped, Parser
<1>4. out'.n = done + 1 /\ out'.got = p.got /\ out' \in [n : Nat, got : Seq(Places)]
  BY <1>1, <1>3
<1>5. StreamTyped'
  BY <1>1, <1>3, <1>4, Constants DEF StreamTyped
<1>6. SentInv' /\ HeldInv'
  BY <1>1 DEF SentInv, Written, HeldInv
<1>7. OutInv'
  <2>1. out'.n <= Len(sent')
    BY <1>1, <1>2, <1>3, <1>4
  <2>2. TidyTo(done + 1) => Payload(p.got, done + 1, Len(p.claimed))
    BY <1>1, <1>2 DEF ApplyInv
  <2>3. BlobIsItsOwn'
    BY <1>1, <1>4, <2>2 DEF BlobIsItsOwn, TidyTo, Tidy, Payload
  <2> QED BY <2>1, <2>3 DEF OutInv
<1>8. InItem(0)'
  <2>1. Reads(p', Now', 0)
    BY <1>1, Constants DEF Reads
  <2>2. done' <= Len(sent')
    BY <1>1, <1>2, <1>3
  <2>3. ASSUME done' < Len(sent') PROVE 0 <= Len(Now')
    <3>1. done' + 1 \in 1..Len(sent)
      BY <1>1, <1>3, <2>3
    <3>2. sent[done' + 1] \in Item
      BY <1>3, <3>1
    <3>3. Now' \in Seq(Tokens)
      BY <1>1, <3>2 DEF Now, Item
    <3> QED BY <3>3
  <2>4. Chain(sent', Rest', After(sent', done' + 1, 0))
    <3>1. Chain(sent, Rest, After(sent, done + 1, Len(Now)))
      BY <1>2 DEF InItem
    <3>2. Rest' = Rest
      BY <1>1 DEF Rest
    <3> QED BY <1>1, <1>2, <3>1, <3>2
  <2> QED BY <1>1, <2>1, <2>2, <2>3, <2>4, Constants DEF InItem
<1>9. QueueInv'
  BY <1>1, <1>2 DEF QueueInv
<1>10. OwnInv'
  <2> SUFFICES ASSUME TidyTo(done + 1)
               PROVE  /\ Gone'
                      /\ \A n \in (done' + 1)..Len(sent) : \A c \in 1..Len(sent[n].fds) : There(n, c)'
    <3>1. Upto' = done + 1
      BY <1>1, Constants DEF Upto
    <3> QED BY <1>1, <3>1 DEF OwnInv, TidyTo, Tidy
  <2>1. Gone /\ \A n \in (done + 1)..Len(sent) : \A c \in 1..Len(sent[n].fds) : There(n, c)
    <3>1. Upto = done + 1
      BY <1>1 DEF Upto
    <3> QED BY <1>2, <3>1 DEF OwnInv
  <2>2. Len(sent[done + 1].fds) = Claims(Now)
    <3>1. done + 1 \in 1..(done + 1)
      BY <1>3
    <3> QED BY <3>1 DEF TidyTo, Tidy, Now
  <2>3. Len(sent[done + 1].fds) <= Len(p.claimed)
    <3>1. CASE p.tag \in Delivered
      <4>1. p.mem = << >>
        BY <1>1, <3>1 DEF Claiming
      <4>2. AttachedOf(p.mem) = {}
        BY <4>1 DEF AttachedOf
      <4>3. Cardinality(AttachedOf(p.mem)) = 0
        BY <4>2, FS_EmptySet
      <4>4. Len(p.claimed) + Cardinality(AttachedOf(p.mem)) = Claims(Now)
        BY <1>1, <1>2, <3>1 DEF ApplyInv
      <4> QED BY <1>3, <2>2, <4>3, <4>4
    <3>2. CASE p.tag \notin Delivered
      <4>1. Claims(Now) = 0
        BY <1>2, <3>2, ClaimsSeen
      <4> QED BY <1>3, <2>2, <4>1
    <3> QED BY <3>1, <3>2
  <2>4. Gone'
    <3> SUFFICES ASSUME NEW a \in DOMAIN fds
                 PROVE  fds[a][1] > done + 1 /\ (fds[a][1] = (done + 1) + 1 => fds[a][2] > 0)
      <4>1. Len(p'.claimed) = 0
        BY <1>1, Constants
      <4> QED BY <1>1, <4>1 DEF Gone
    <3>1. /\ fds[a][1] \in 1..Len(sent) /\ fds[a][2] \in 1..Len(sent[fds[a][1]].fds)
          /\ fds[a][1] > done /\ (fds[a][1] = done + 1 => fds[a][2] > Len(p.claimed))
      BY <1>2, <2>1 DEF QueueInv, Gone
    <3>2. Len(sent[done + 1].fds) \in Nat
      <4>1. done + 1 \in 1..Len(sent)
        BY <1>2, <1>3
      <4>2. sent[done + 1] \in Item
        BY <1>3, <4>1
      <4> QED BY <4>2 DEF Item
    <3>3. fds[a][1] # done + 1
      BY <1>3, <2>3, <3>1, <3>2
    <3> QED BY <1>3, <3>1, <3>3
  <2>5. ASSUME NEW n \in (done' + 1)..Len(sent), NEW c \in 1..Len(sent[n].fds) PROVE There(n, c)'
    <3>1. n \in (done + 1)..Len(sent) /\ n # done + 1
      BY <1>1, <1>3, <2>5
    <3>2. There(n, c)
      BY <2>1, <3>1
    <3> QED BY <1>1, <3>1, <3>2 DEF There
  <2> QED BY <2>4, <2>5
<1>11. ApplyInv'
  BY <1>1, Constants DEF ApplyInv
<1> QED BY <1>5, <1>6, <1>7, <1>8, <1>9, <1>10, <1>11 DEF ReadingInv

(***************************************************************************)
(* The theorems.                                                            *)
(***************************************************************************)
LEMMA IncomingStep == IncomingInd /\ [Next]_vars => IncomingInd'
<1> SUFFICES ASSUME IncomingInd, [Next]_vars PROVE IncomingInd'
  OBVIOUS
<1>1. CASE Send \/ StreamEnds
  BY <1>1, SendStep, StreamEndsStep
<1>2. CASE Read \/ Eof \/ Close
  BY <1>2, ReadStep, EofStep, CloseStep
<1>3. CASE Claim \/ Deliver \/ Apply
  BY <1>3, ClaimStep, DeliverStep, ApplyStep
<1>4. CASE rbuf # << >> /\ LET t == Token(Head(rbuf)) IN
             \/ Parse("top", NextTag(t)) \/ Parse("members", MemberTag(t)) \/ Parse("text", TextTag(t))
             \/ Parse("blob", BlobTag(t)) \/ Parse("skip", SkipTag(t))
  BY <1>4, TokenStep
<1>5. CASE UNCHANGED vars
  <2>1. /\ menu' = menu /\ want' = want /\ wire' = wire /\ sent' = sent /\ rbuf' = rbuf /\ p' = p
        /\ fds' = fds /\ held' = held /\ mapped' = mapped /\ done' = done /\ out' = out
        /\ writing' = writing
    BY <1>5 DEF vars, readerVars
  <2>2. StreamTyped' /\ SentInv' /\ HeldInv' /\ OutInv'
    BY <2>1 DEF IncomingInd, StreamTyped, SentInv, Written, HeldInv, OutInv, BlobIsItsOwn, Tidy
  <2>3. \A i : InItem(i)' <=> InItem(i)
    BY <2>1 DEF InItem, Now, Rest
  <2>4. (QueueInv' <=> QueueInv) /\ (OwnInv' <=> OwnInv) /\ (Over' <=> Over)
    BY <2>1 DEF QueueInv, OwnInv, TidyTo, Tidy, Upto, Gone, There, Over
  <2>5. ApplyInv' <=> ApplyInv
    BY <2>1 DEF ApplyInv, TidyTo, Tidy, Now
  <2> QED BY <2>2, <2>3, <2>4, <2>5 DEF IncomingInd, ReadingInv
<1> QED BY <1>1, <1>2, <1>3, <1>4, <1>5 DEF Next, Reader

\* The buffers, the queue, the parser and what it hands on always have the
\* shape that the code declares for them.
THEOREM IncomingTyped == Spec => []StreamTyped
<1>1. IncomingInd => StreamTyped
  BY DEF IncomingInd
<1> QED BY <1>1, IncomingStart, IncomingStep, PTL DEF Spec

\* Every descriptor that the transport was given is in its queue once, until a
\* BLOB claims it or the connection is closed, and a mapping never outlives the
\* element it was made for (transport/conn.go, supervisor/run.go).
THEOREM DescriptorsNeverLeak == Spec => []NothingLeaks
<1>1. IncomingInd => NothingLeaks
  BY DEF IncomingInd, HeldInv, NothingLeaks
<1> QED BY <1>1, IncomingStart, IncomingStep, PTL DEF Spec

\* As long as every item so far came with a descriptor for each attached BLOB
\* that it delivers, a BLOB is given its own, however the reads cut the stream
\* and whatever nests in it (indiwire/parser.go, supervisor/run.go).
THEOREM BlobsGetTheirOwn == Spec => []BlobIsItsOwn
<1>1. IncomingInd => BlobIsItsOwn
  BY DEF IncomingInd, OutInv
<1> QED BY <1>1, IncomingStart, IncomingStep, PTL DEF Spec

=============================================================================
