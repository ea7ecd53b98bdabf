--------------------------- MODULE SwitchesProofs ---------------------------
(***************************************************************************)
(* Proofs about Switches for any requests, properties, shapes and bound of  *)
(* the pipe: the list only grows at its end, so a number that a request     *)
(* holds across its steps, while others refresh the list, still names the   *)
(* switch it was looked up for.                                             *)
(***************************************************************************)
EXTENDS Switches, FiniteSetTheorems, TLAPS

AllShapes == UNION {Shapes[v] : v \in PropSet}
Names == {"", "ON", "OFF"} \cup UNION {ToSet(s.mem) : s \in AllShapes}
Pairs == PropSet \X Names
Sendable == UNION {[M -> Int] : M \in SUBSET Names}
Commands == [id : Nat, pair : Pairs, ask : Asks, shape : AllShapes, set : Sendable]
Requests == [pc : {"idle", "resolve", "again", "write"}, id : Nat, ask : Asks,
             pair : Pairs \cup {None}, shape : AllShapes \cup {None}]

(***************************************************************************)
(* The inductive invariant.                                                 *)
(***************************************************************************)
\* A vector has one of its property's shapes, and a value for each member.
VecInv ==
  /\ vec = [v \in DOMAIN vec |-> vec[v]] /\ DOMAIN vec \subseteq PropSet
  /\ \A v \in DOMAIN vec : \E s \in Shapes[v] : \E f :
       /\ f = [m \in ToSet(s.mem) |-> f[m]]
       /\ vec[v] = [shape |-> s, val |-> f]

\* The list has not changed since it was learned.
ListInv == pinned \in Seq(Pairs) /\ learned = pinned

\* A request holds the switch its number names; the vector it writes to is of
\* the type it asks a value of.
RequestInv ==
  /\ cl \in [Clients -> Requests]
  /\ \A c \in Clients : cl[c].pc # "idle" =>
       /\ cl[c].id \in DOMAIN pinned /\ cl[c].pair = pinned[cl[c].id]
       /\ cl[c].pc = "write" => /\ cl[c].shape \in Shapes[cl[c].pair[1]]
                                /\ cl[c].ask.val # NoVal => cl[c].shape.type = "Number"

\* So does a command that is on its way.
CommandOf(cmd, p) ==
  /\ cmd.id \in DOMAIN p /\ cmd.pair = p[cmd.id]
  /\ cmd.shape \in Shapes[cmd.pair[1]]
  /\ cmd.ask.val # NoVal => cmd.shape.type = "Number"
  /\ cmd.set = Sets(cmd.pair, cmd.shape, cmd.ask) /\ DOMAIN cmd.set # {}

PipeInv ==
  /\ toDrv \in Seq(Commands)
  /\ \A i \in 1..Len(toDrv) : CommandOf(toDrv[i], pinned)

IndInv == VecInv /\ ListInv /\ RequestInv /\ PipeInv

(***************************************************************************)
(* The list.                                                                *)
(***************************************************************************)
LEMMA ToSetFinite ==
  ASSUME NEW S, NEW s \in Seq(S) PROVE IsFiniteSet(ToSet(s)) /\ ToSet(s) \subseteq S
<1>1. IsFiniteSet(1..Len(s))
  BY FS_Interval
<1>2. s \in Surjection(1..Len(s), ToSet(s)) /\ ToSet(s) \subseteq S
  BY DEF Surjection, ToSet
<1> QED BY <1>1, <1>2, FS_Surjection

LEMMA PairsOfFinite ==
  ASSUME VecInv, NEW v \in PropSet
  PROVE  IsFiniteSet(PairsOf(v)) /\ PairsOf(v) \subseteq Pairs
<1>1. CASE v \notin DOMAIN vec
  BY <1>1, FS_EmptySet DEF PairsOf
<1>2. CASE v \in DOMAIN vec
  <2> DEFINE M == IF BoolPair(vec[v].shape) THEN {""} ELSE ToSet(vec[v].shape.mem)
  <2>1. vec[v].shape \in Shapes[v]
    BY <1>2 DEF VecInv
  <2>2. /\ vec[v].shape.mem \in Seq(ToSet(vec[v].shape.mem))
        /\ ToSet(vec[v].shape.mem) \subseteq Names
    BY <2>1, SwitchesAssumption DEF AllShapes, Names
  <2>3. IsFiniteSet({""}) /\ {""} \subseteq Names /\ IsFiniteSet({v})
    <3>1. IsFiniteSet({""})
      BY FS_Singleton
    <3>2. IsFiniteSet({v})
      BY FS_Singleton
    <3> QED BY <3>1, <3>2 DEF Names
  <2>4. IsFiniteSet(ToSet(vec[v].shape.mem)) /\ ToSet(vec[v].shape.mem) \subseteq Names
    BY <2>2, ToSetFinite
  <2>5. IsFiniteSet(M) /\ M \subseteq Names
    BY <2>3, <2>4
  <2>6. PairsOf(v) = {v} \X M
    BY <1>2 DEF PairsOf
  <2> HIDE DEF M
  <2>7. IsFiniteSet({v} \X M)
    BY <2>3, <2>5, FS_Product
  <2> QED BY <2>5, <2>6, <2>7 DEF Pairs
<1> QED BY <1>1, <1>2

LEMMA CandidatesFinite ==
  ASSUME VecInv PROVE IsFiniteSet(Candidates) /\ Candidates \subseteq Pairs
<1>1. IsFiniteSet(PropSet)
  BY SwitchesAssumption, ToSetFinite DEF PropSet
<1> DEFINE T == {PairsOf(v) : v \in PropSet}
           f == [v \in PropSet |-> PairsOf(v)]
<1>2. f \in Surjection(PropSet, T)
  BY DEF Surjection
<1>3. IsFiniteSet(T)
  BY <1>1, <1>2, FS_Surjection
<1>4. \A S \in T : IsFiniteSet(S) /\ S \subseteq Pairs
  BY PairsOfFinite
<1>5. IsFiniteSet(UNION T) /\ UNION T \subseteq Pairs
  BY <1>3, <1>4, FS_UNION
<1> QED BY <1>5, FS_EmptySet DEF Candidates

\* refresh keeps every number that has been given.
LEMMA RefreshKeeps ==
  ASSUME VecInv, ListInv, Refresh
  PROVE  /\ ListInv'
         /\ DOMAIN pinned \subseteq DOMAIN pinned'
         /\ \A i \in DOMAIN pinned : pinned'[i] = pinned[i]
         /\ DOMAIN pinned' \subseteq Nat
<1> DEFINE N == Candidates \ ToSet(pinned)
           n == Cardinality(N)
<1>1. IsFiniteSet(N) /\ N \subseteq Pairs
  BY CandidatesFinite, FS_Subset
<1>2. n \in Nat
  BY <1>1, FS_CardinalityType
<1>3. PICK s \in Listing(N) : pinned' = pinned \o s
  BY DEF Refresh, Pinned
<1>4. s \in [1..n -> N]
  BY <1>3 DEF Listing
<1> HIDE DEF N, n
<1>5. s \in Seq(Pairs)
  BY <1>1, <1>2, <1>4
<1>6. pinned \in Seq(Pairs) /\ learned = pinned
  BY DEF ListInv
<1>7. /\ pinned' \in Seq(Pairs) /\ Len(pinned') = Len(pinned) + Len(s)
      /\ \A i \in 1..Len(pinned) : pinned'[i] = pinned[i]
      /\ \A i \in 1..Len(s) : pinned'[Len(pinned) + i] = s[i]
  BY <1>3, <1>5, <1>6
<1>8. SubSeq(pinned', Len(pinned) + 1, Len(pinned')) = s
  BY <1>5, <1>6, <1>7
<1>9. learned' = pinned'
  BY <1>3, <1>6, <1>8 DEF Refresh
<1> QED BY <1>6, <1>7, <1>9 DEF ListInv

(***************************************************************************)
(* What a request sends.                                                    *)
(***************************************************************************)
LEMMA SetsTyped ==
  ASSUME NEW pair \in Pairs, NEW shape \in Shapes[pair[1]], NEW ask \in Asks
  PROVE  /\ Sets(pair, shape, ask) \in Sendable
         /\ pair[2] # "" /\ DOMAIN Sets(pair, shape, ask) # {} =>
              DOMAIN Sets(pair, shape, ask) = {pair[2]}
<1> DEFINE m == pair[2]
<1>1. m \in Names /\ pair[1] \in PropSet
  BY DEF Pairs
<1>2. /\ shape.type \in {"Switch", "Number"}
      /\ shape.range.lo \in Int /\ shape.range.hi \in Int
  BY <1>1, SwitchesAssumption DEF Free
<1>3. ask.state \in BOOLEAN /\ ask.val \in Int
  BY DEF Asks, NoVal
<1>4. Nothing \in Sendable /\ DOMAIN Nothing = {}
  <2>1. Nothing \in [{} -> Int] /\ {} \in SUBSET Names
    BY DEF Nothing
  <2> QED BY <2>1 DEF Sendable
<1>5. \A x \in Int : Only(m, x) \in Sendable /\ DOMAIN Only(m, x) = {m}
  <2>1. \A x \in Int : Only(m, x) \in [{m} -> Int] /\ {m} \in SUBSET Names
    BY <1>1 DEF Only
  <2> QED BY <2>1 DEF Sendable
<1>6. PairSet(ask.state) \in Sendable
  <2>1. PairSet(ask.state) \in [{"ON", "OFF"} -> Int]
    BY DEF PairSet
  <2>2. {"ON", "OFF"} \in SUBSET Names
    BY DEF Names
  <2> QED BY <2>1, <2>2 DEF Sendable
<1> HIDE DEF m
<1>7. CASE ask.val = NoVal
  <2>1. Sets(pair, shape, ask) = Values(pair, shape, ask.state)
    BY <1>7 DEF Sets
  <2>2. CASE m = ""
    BY <1>6, <2>1, <2>2 DEF Values, m
  <2>3. CASE m # ""
    <3>1. Values(pair, shape, ask.state) \in
            {Nothing, Only(m, 1), Only(m, 0), Only(m, shape.range.hi), Only(m, shape.range.lo)}
      BY <1>3, <2>3 DEF Values, m
    <3>2. \/ Sets(pair, shape, ask) = Nothing
          \/ \E x \in Int : Sets(pair, shape, ask) = Only(m, x)
      BY <1>2, <2>1, <3>1
    <3> QED BY <1>4, <1>5, <3>2 DEF m
  <2> QED BY <2>2, <2>3
<1>8. CASE ask.val # NoVal
  <2>1. \/ Sets(pair, shape, ask) = Nothing \/ Sets(pair, shape, ask) = Only(m, ask.val)
    BY <1>8 DEF Sets, NumberValue, m
  <2> QED BY <1>3, <1>4, <1>5, <2>1 DEF m
<1> QED BY <1>7, <1>8

(***************************************************************************)
(* The steps.                                                               *)
(***************************************************************************)
\* What a longer list leaves alone.
LEMMA Longer ==
  ASSUME VecInv, ListInv, Refresh, NEW i \in DOMAIN pinned
  PROVE  i \in DOMAIN pinned' /\ pinned'[i] = pinned[i]
BY RefreshKeeps

LEMMA PipeKeeps ==
  ASSUME IndInv, Refresh \/ UNCHANGED <<pinned, learned>>, UNCHANGED toDrv
  PROVE  ListInv' /\ PipeInv'
<1>1. VecInv /\ ListInv /\ PipeInv
  BY DEF IndInv
<1>2. ListInv'
  BY <1>1, RefreshKeeps DEF ListInv
<1>3. ASSUME NEW i \in 1..Len(toDrv) PROVE CommandOf(toDrv[i], pinned')
  <2>1. CommandOf(toDrv[i], pinned)
    BY <1>1 DEF PipeInv
  <2> QED BY <1>1, <2>1, Longer DEF CommandOf
<1>4. PipeInv'
  <2>1. toDrv' = toDrv
    OBVIOUS
  <2> QED BY <1>1, <1>3, <2>1 DEF PipeInv
<1> QED BY <1>2, <1>4

\* A request that a step does not concern.
LEMMA OthersKeep ==
  ASSUME IndInv, Refresh \/ UNCHANGED <<pinned, learned>>, NEW c \in Clients, cl'[c] = cl[c],
         cl'[c].pc # "idle"
  PROVE  /\ cl'[c].id \in DOMAIN pinned' /\ cl'[c].pair = pinned'[cl'[c].id]
         /\ cl'[c].pc = "write" => /\ cl'[c].shape \in Shapes[cl'[c].pair[1]]
                                   /\ cl'[c].ask.val # NoVal => cl'[c].shape.type = "Number"
BY Longer DEF IndInv, RequestInv

LEMMA DefineKeeps ==
  ASSUME IndInv, NEW v \in PropSet, Define(v) \/ Delete(v)
  PROVE  IndInv'
<1>1. VecInv
  BY DEF IndInv
<1>2. VecInv'
  <2>1. CASE Define(v)
    <3>1. PICK s \in Shapes[v] :
            vec' = [u \in DOMAIN vec \cup {v} |->
                      IF u = v THEN [shape |-> s, val |-> [m \in ToSet(s.mem) |-> s.range.lo]]
                      ELSE vec[u]]
      BY <2>1 DEF Define
    <3> DEFINE f == [m \in ToSet(s.mem) |-> s.range.lo]
    <3>2. f = [m \in ToSet(s.mem) |-> f[m]]
      OBVIOUS
    <3>3. DOMAIN vec' = DOMAIN vec \cup {v} /\ vec' = [u \in DOMAIN vec' |-> vec'[u]]
      BY <3>1
    <3>4. vec'[v] = [shape |-> s, val |-> f] /\ \A u \in DOMAIN vec : u # v => vec'[u] = vec[u]
      BY <3>1
    <3> HIDE DEF f
    <3> QED BY <1>1, <3>2, <3>3, <3>4 DEF VecInv
  <2>2. CASE Delete(v)
    <3>1. /\ DOMAIN vec' \subseteq DOMAIN vec /\ vec' = [u \in DOMAIN vec' |-> vec'[u]]
          /\ \A u \in DOMAIN vec' : vec'[u] = vec[u]
      BY <2>2 DEF Delete
    <3> QED BY <1>1, <3>1 DEF VecInv
  <2> QED BY <2>1, <2>2
<1>3. UNCHANGED <<toDrv, pinned, cl, learned>>
  BY DEF Define, Delete
<1> QED BY <1>2, <1>3 DEF IndInv, ListInv, RequestInv, PipeInv

\* The driver's answer to a command: members get values, shapes stay.
LEMMA ExecuteEffect ==
  ASSUME IndInv, Execute
  PROVE  /\ VecInv'
         /\ DOMAIN vec' = DOMAIN vec
         /\ \A cmd \in {Head(toDrv)} : \A m \in DOMAIN cmd.set :
              cmd.pair[1] \in DOMAIN vec /\ m \in DOMAIN vec'[cmd.pair[1]].val =>
                vec'[cmd.pair[1]].val[m] = cmd.set[m]
<1> DEFINE set == Head(toDrv).set
           v == Head(toDrv).pair[1]
           g == [m \in DOMAIN vec[v].val |-> IF m \in DOMAIN set THEN set[m]
                   ELSE IF vec[v].shape.rule = "OneOfMany" THEN 0 ELSE vec[v].val[m]]
<1>1. VecInv
  BY DEF IndInv
<1>2. CASE v \notin DOMAIN vec
  BY <1>1, <1>2 DEF Execute, VecInv
<1>3. CASE v \in DOMAIN vec
  <2>1. PICK s \in Shapes[v] : \E f : f = [m \in ToSet(s.mem) |-> f[m]] /\ vec[v] = [shape |-> s, val |-> f]
    BY <1>1, <1>3 DEF VecInv
  <2>2. PICK f : f = [m \in ToSet(s.mem) |-> f[m]] /\ vec[v] = [shape |-> s, val |-> f]
    BY <2>1
  <2>3. vec[v].shape = s /\ vec[v].val = f /\ DOMAIN f = ToSet(s.mem)
    BY <2>2
  <2>4. CASE DOMAIN vec[v].val \cap DOMAIN set = {}
    <3>1. vec' = vec
      BY <1>3, <2>4 DEF Execute
    <3> QED BY <1>1, <2>4, <3>1 DEF VecInv
  <2>5. CASE DOMAIN vec[v].val \cap DOMAIN set # {}
    <3>1. vec' = [vec EXCEPT ![v].val = g]
      BY <1>3, <2>5 DEF Execute
    <3>2. g = [m \in ToSet(s.mem) |-> g[m]] /\ \A m \in DOMAIN g : m \in DOMAIN set => g[m] = set[m]
      BY <2>3
    <3> HIDE DEF g, v, set
    <3>3. /\ DOMAIN vec' = DOMAIN vec /\ vec' = [u \in DOMAIN vec' |-> vec'[u]]
          /\ \A u \in DOMAIN vec : u # v => vec'[u] = vec[u]
      BY <1>1, <3>1 DEF VecInv
    <3>4. vec'[v] = [shape |-> s, val |-> g]
      BY <1>1, <1>3, <2>2, <3>1 DEF VecInv
    <3>5. VecInv'
      BY <1>1, <2>1, <3>2, <3>3, <3>4 DEF VecInv
    <3> QED BY <3>2, <3>3, <3>4, <3>5 DEF v, set
  <2> QED BY <2>4, <2>5
<1> QED BY <1>2, <1>3

LEMMA DriverKeeps ==
  ASSUME IndInv, Execute \/ Serve \/ Lose \/ GoDown
  PROVE  IndInv'
<1>1. VecInv /\ ListInv /\ RequestInv /\ PipeInv
  BY DEF IndInv
<1>2. UNCHANGED <<pinned, cl, learned>>
  BY DEF Execute, Serve, Lose, GoDown
<1>3. ListInv' /\ RequestInv'
  BY <1>1, <1>2 DEF ListInv, RequestInv
<1>4. CASE Execute
  <2>1. toDrv \in Seq(Commands) /\ toDrv # << >> /\ toDrv' = Tail(toDrv)
    BY <1>1, <1>4 DEF Execute, PipeInv
  <2>2. /\ toDrv' \in Seq(Commands)
        /\ \A i \in 1..Len(toDrv') : i + 1 \in 1..Len(toDrv) /\ toDrv'[i] = toDrv[i + 1]
    BY <2>1
  <2>3. PipeInv'
    BY <1>1, <1>2, <2>2 DEF PipeInv
  <2> QED BY <1>3, <1>4, <2>3, ExecuteEffect DEF IndInv
<1>5. CASE Serve \/ GoDown
  BY <1>1, <1>3, <1>5 DEF Serve, GoDown, IndInv, VecInv, PipeInv
<1>6. CASE Lose
  <2>1. vec' = Nothing /\ toDrv' = << >>
    BY <1>6 DEF Lose
  <2>2. VecInv'
    BY <2>1 DEF VecInv, Nothing
  <2>3. PipeInv'
    BY <2>1 DEF PipeInv
  <2> QED BY <1>3, <2>2, <2>3 DEF IndInv
<1> QED BY <1>4, <1>5, <1>6

LEMMA IdleTyped == Idle \in Requests /\ Idle.pc = "idle"
BY DEF Idle, Requests, Asks

\* Requests that look the list up, and the step between two lookups.
LEMMA RefreshStep ==
  ASSUME IndInv, Enumerate \/ \E c \in Clients : Begin(c) \/ Again(c)
  PROVE  IndInv'
<1>1. VecInv /\ ListInv /\ RequestInv /\ Refresh /\ UNCHANGED <<conn, vec, toDrv>>
  BY DEF IndInv, Enumerate, Begin, Again
<1>2. VecInv' /\ ListInv' /\ PipeInv'
  BY <1>1, PipeKeeps DEF VecInv
<1>3. pinned' \in Seq(Pairs)
  BY <1>2 DEF ListInv
<1>4. CASE Enumerate
  <2>1. cl' = cl
    BY <1>4 DEF Enumerate
  <2> QED BY <1>1, <1>2, <2>1, OthersKeep DEF IndInv, RequestInv
<1>5. ASSUME NEW c \in Clients, Begin(c) PROVE IndInv'
  <2>1. PICK id \in DOMAIN pinned' : \E a \in Asks :
          cl' = [cl EXCEPT ![c] = [pc |-> "resolve", id |-> id, ask |-> a, pair |-> pinned'[id],
                                   shape |-> None]]
    BY <1>5 DEF Begin
  <2>2. PICK a \in Asks :
          cl' = [cl EXCEPT ![c] = [pc |-> "resolve", id |-> id, ask |-> a, pair |-> pinned'[id],
                                   shape |-> None]]
    BY <2>1
  <2>3. id \in Nat /\ pinned'[id] \in Pairs
    BY <1>3
  <2>5. cl' \in [Clients -> Requests]
    BY <1>1, <2>2, <2>3 DEF RequestInv, Requests
  <2>6. /\ cl'[c] = [pc |-> "resolve", id |-> id, ask |-> a, pair |-> pinned'[id], shape |-> None]
        /\ \A x \in Clients \ {c} : cl'[x] = cl[x]
    BY <1>1, <2>2 DEF RequestInv
  <2>7. RequestInv'
    BY <1>1, <2>5, <2>6, OthersKeep DEF RequestInv
  <2> QED BY <1>2, <2>7 DEF IndInv
<1>6. ASSUME NEW c \in Clients, Again(c) PROVE IndInv'
  <2>1. /\ cl[c] \in Requests /\ cl[c].pc = "again"
        /\ cl[c].id \in DOMAIN pinned /\ cl[c].pair = pinned[cl[c].id]
    BY <1>1, <1>6 DEF Again, RequestInv
  <2>2. cl[c].id \in DOMAIN pinned' /\ pinned'[cl[c].id] = cl[c].pair
    BY <1>1, <2>1, Longer
  <2>3. cl' = [cl EXCEPT ![c] = [cl[c] EXCEPT !.pc = "resolve", !.pair = pinned'[cl[c].id]]]
    BY <1>6, <2>2 DEF Again
  <2>4. /\ cl'[c] = [cl[c] EXCEPT !.pc = "resolve", !.pair = pinned'[cl[c].id]]
        /\ \A x \in Clients \ {c} : cl'[x] = cl[x]
    BY <1>1, <2>3 DEF RequestInv
  <2>5. pinned'[cl[c].id] \in Pairs
    BY <1>3, <2>2
  <2>6. /\ cl'[c] \in Requests /\ cl'[c].pc = "resolve" /\ cl'[c].id = cl[c].id
        /\ cl'[c].pair = cl[c].pair
    BY <2>1, <2>2, <2>4, <2>5 DEF Requests
  <2>7. cl' \in [Clients -> Requests]
    BY <1>1, <2>3, <2>4, <2>6 DEF RequestInv
  <2>8. RequestInv'
    BY <1>1, <2>2, <2>4, <2>6, <2>7, OthersKeep DEF RequestInv
  <2> QED BY <1>2, <2>8 DEF IndInv
<1> QED BY <1>4, <1>5, <1>6

LEMMA ResolveKeeps ==
  ASSUME IndInv, NEW c \in Clients, Resolve(c)
  PROVE  IndInv'
<1> DEFINE v == cl[c].pair[1]
<1>1. VecInv /\ ListInv /\ RequestInv /\ UNCHANGED <<vec, toDrv, pinned, learned>>
  BY DEF IndInv, Resolve
<1>2. VecInv' /\ ListInv' /\ PipeInv'
  BY <1>1, PipeKeeps DEF VecInv
<1>3. /\ cl[c] \in Requests /\ cl[c].pc = "resolve"
      /\ cl[c].id \in DOMAIN pinned /\ cl[c].pair = pinned[cl[c].id]
  BY <1>1 DEF Resolve, RequestInv
<1>4. \A x \in Clients \ {c} : cl'[x] = cl[x]
  BY <1>1 DEF Resolve, RequestInv
<1>5. \/ cl'[c] = Idle
      \/ cl'[c] = [cl[c] EXCEPT !.pc = "again", !.ask.val = NoVal]
      \/ /\ cl'[c] = [cl[c] EXCEPT !.pc = "write", !.shape = vec[v].shape]
         /\ v \in DOMAIN vec /\ (cl[c].ask.val # NoVal => vec[v].shape.type # "Switch")
  BY <1>1 DEF Resolve, RequestInv
<1>6. v \in DOMAIN vec => /\ vec[v].shape \in Shapes[v] /\ vec[v].shape \in AllShapes
                          /\ vec[v].shape.type \in {"Switch", "Number"}
  BY <1>1, SwitchesAssumption DEF VecInv, AllShapes
<1>7. [cl[c].ask EXCEPT !.val = NoVal] \in Asks
  <2>1. cl[c].ask \in Asks
    BY <1>3 DEF Requests
  <2> QED BY <2>1 DEF Asks
<1>8. /\ cl'[c] \in Requests
      /\ cl'[c].pc # "idle" =>
           /\ cl'[c].id \in DOMAIN pinned /\ cl'[c].pair = pinned[cl'[c].id]
           /\ cl'[c].pc = "write" => /\ cl'[c].shape \in Shapes[cl'[c].pair[1]]
                                     /\ cl'[c].ask.val # NoVal => cl'[c].shape.type = "Number"
  <2>1. CASE cl'[c] = Idle
    BY <2>1, IdleTyped
  <2>2. CASE cl'[c] = [cl[c] EXCEPT !.pc = "again", !.ask.val = NoVal]
    BY <1>3, <1>7, <2>2 DEF Requests
  <2>3. CASE /\ cl'[c] = [cl[c] EXCEPT !.pc = "write", !.shape = vec[v].shape]
             /\ v \in DOMAIN vec /\ (cl[c].ask.val # NoVal => vec[v].shape.type # "Switch")
    BY <1>3, <1>6, <2>3 DEF Requests
  <2> QED BY <1>5, <2>1, <2>2, <2>3
<1>9. cl' \in [Clients -> Requests]
  BY <1>1, <1>8 DEF Resolve, RequestInv
<1>10. RequestInv'
  BY <1>1, <1>4, <1>8, <1>9, OthersKeep DEF RequestInv
<1> QED BY <1>2, <1>10 DEF IndInv

LEMMA SetSwitchKeeps ==
  ASSUME IndInv, NEW c \in Clients, SetSwitch(c)
  PROVE  IndInv'
<1> DEFINE set == Sets(cl[c].pair, cl[c].shape, cl[c].ask)
           cmd == [id |-> cl[c].id, pair |-> cl[c].pair, ask |-> cl[c].ask,
                   shape |-> cl[c].shape, set |-> set]
<1>1. VecInv /\ ListInv /\ RequestInv /\ PipeInv /\ UNCHANGED <<vec, pinned, learned>>
  BY DEF IndInv, SetSwitch
<1>2. VecInv' /\ ListInv'
  BY <1>1 DEF VecInv, ListInv
<1>3. cl' = [cl EXCEPT ![c] = Idle]
  BY DEF SetSwitch
<1>4. RequestInv'
  <2>1. cl' \in [Clients -> Requests] /\ cl'[c] = Idle /\ \A x \in Clients \ {c} : cl'[x] = cl[x]
    BY <1>1, <1>3, IdleTyped DEF RequestInv
  <2> QED BY <1>1, <2>1, IdleTyped, OthersKeep DEF RequestInv
<1>5. /\ cl[c] \in Requests /\ cl[c].id \in DOMAIN pinned /\ cl[c].pair = pinned[cl[c].id]
      /\ cl[c].shape \in Shapes[cl[c].pair[1]]
      /\ cl[c].ask.val # NoVal => cl[c].shape.type = "Number"
  BY <1>1 DEF SetSwitch, RequestInv
<1>6. cl[c].pair \in Pairs /\ cl[c].ask \in Asks /\ cl[c].id \in Nat
  BY <1>1, <1>5 DEF ListInv, Requests
<1>7. set \in Sendable
  BY <1>5, <1>6, SetsTyped
<1>8. cl[c].shape \in AllShapes
  BY <1>5, <1>6 DEF AllShapes, Pairs
<1>9. toDrv' = toDrv \/ (DOMAIN set # {} /\ toDrv' = Append(toDrv, cmd))
  BY DEF SetSwitch
<1> HIDE DEF set
<1>10. cmd \in Commands
  BY <1>6, <1>7, <1>8 DEF Commands
<1>11. DOMAIN set # {} => CommandOf(cmd, pinned)
  BY <1>5 DEF CommandOf, set
<1> HIDE DEF cmd
<1>12. PipeInv'
  <2>1. CASE toDrv' = toDrv
    BY <1>1, <2>1 DEF PipeInv
  <2>2. CASE DOMAIN set # {} /\ toDrv' = Append(toDrv, cmd)
    <3>1. /\ toDrv' \in Seq(Commands)
          /\ \A i \in 1..Len(toDrv') : toDrv'[i] = cmd \/ (i \in 1..Len(toDrv) /\ toDrv'[i] = toDrv[i])
      BY <1>1, <1>10, <2>2 DEF PipeInv
    <3> QED BY <1>1, <1>11, <2>2, <3>1 DEF PipeInv
  <2> QED BY <1>9, <2>1, <2>2
<1> QED BY <1>2, <1>4, <1>12 DEF IndInv

LEMMA InitIndInv == Init => IndInv
<1> SUFFICES ASSUME Init PROVE IndInv
  OBVIOUS
<1>1. VecInv
  BY DEF Init, VecInv, Nothing
<1>2. ListInv /\ PipeInv
  BY DEF Init, ListInv, PipeInv
<1>3. RequestInv
  BY IdleTyped DEF Init, RequestInv
<1> QED BY <1>1, <1>2, <1>3 DEF IndInv

LEMMA NextIndInv == IndInv /\ [Next]_vars => IndInv'
<1> SUFFICES ASSUME IndInv, [Next]_vars PROVE IndInv'
  OBVIOUS
<1>1. CASE Driver
  BY <1>1, DefineKeeps, DriverKeeps DEF Driver
<1>2. CASE Enumerate
  BY <1>2, RefreshStep
<1>3. ASSUME NEW c \in Clients, Request(c) PROVE IndInv'
  BY <1>3, RefreshStep, ResolveKeeps, SetSwitchKeeps DEF Request
<1>4. CASE UNCHANGED vars
  BY <1>4 DEF vars, IndInv, VecInv, ListInv, RequestInv, PipeInv
<1> QED BY <1>1, <1>2, <1>3, <1>4 DEF Next

(***************************************************************************)
(* The theorems.                                                            *)
(***************************************************************************)
\* Requests and commands hold the switch that their number names, whatever is
\* defined, deleted or enumerated between their steps.
THEOREM SwitchesInductive == Spec => []IndInv
BY InitIndInv, NextIndInv, PTL DEF Spec

\* A command that the driver gets is for the switch its number named when it was
\* first seen, and names a member of that switch and of no other.
THEOREM NumbersAreStable == Spec => []CommandHitsItsSwitch
<1>1. IndInv => CommandHitsItsSwitch
  <2> SUFFICES ASSUME IndInv, NEW i \in DOMAIN toDrv
               PROVE  /\ toDrv[i].pair = learned[toDrv[i].id]
                      /\ toDrv[i].pair[2] # "" => DOMAIN toDrv[i].set = {toDrv[i].pair[2]}
    BY DEF CommandHitsItsSwitch
  <2>1. toDrv[i] \in Commands /\ CommandOf(toDrv[i], pinned) /\ learned = pinned
    BY DEF IndInv, PipeInv, ListInv
  <2>2. toDrv[i].pair \in Pairs /\ toDrv[i].ask \in Asks
    BY <2>1 DEF Commands
  <2> QED BY <2>1, <2>2, SetsTyped DEF CommandOf
<1> QED BY <1>1, SwitchesInductive, PTL

LEMMA FreeTyped == Free.lo \in Int /\ Free.hi \in Int
BY DEF Free

\* The values that are told apart.
LEMMA Distinct ==
  /\ \A m : m \in DOMAIN Only(m, 1) /\ Only(m, 1)[m] = 1
  /\ \A m : m \in DOMAIN Only(m, 0) /\ Only(m, 0)[m] # 1
  /\ "ON" \in DOMAIN PairSet(TRUE) /\ PairSet(TRUE)["ON"] = 1
  /\ "ON" \in DOMAIN PairSet(FALSE) /\ PairSet(FALSE)["ON"] # 1
<1>1. \A m : m \in DOMAIN Only(m, 1) /\ Only(m, 1)[m] = 1
  BY DEF Only
<1>2. \A m : m \in DOMAIN Only(m, 0) /\ Only(m, 0)[m] # 1
  BY DEF Only
<1>3. "ON" \in DOMAIN PairSet(TRUE) /\ PairSet(TRUE)["ON"] = 1
  BY DEF PairSet
<1>4. "ON" \in DOMAIN PairSet(FALSE) /\ PairSet(FALSE)["ON"] # 1
  BY DEF PairSet
<1> QED BY <1>1, <1>2, <1>3, <1>4

\* What the driver is sent is, member by member, what was asked for, as far as the
\* range has anything above its bottom.
LEMMA SentAsAsked ==
  ASSUME NEW cmd \in Commands, NEW p, CommandOf(cmd, p),
         cmd.pair[2] = "" => cmd.shape.type = "Switch"
  PROVE  /\ MemberName(cmd.pair) \in DOMAIN cmd.set
         /\ cmd.ask.val # NoVal => cmd.set[MemberName(cmd.pair)] = cmd.ask.val
         /\ cmd.ask.val = NoVal /\ cmd.shape.type = "Switch" =>
              (cmd.set[MemberName(cmd.pair)] = 1 <=> cmd.ask.state)
         /\ cmd.ask.val = NoVal /\ cmd.shape.type # "Switch" =>
              (cmd.set[MemberName(cmd.pair)] # cmd.shape.range.lo <=>
                 cmd.ask.state /\ ~NothingAbove(cmd.shape))
<1> DEFINE m == cmd.pair[2]
<1>1. /\ cmd.pair \in Pairs /\ cmd.ask \in Asks /\ cmd.pair[1] \in PropSet
      /\ cmd.shape \in Shapes[cmd.pair[1]]
      /\ cmd.set = Sets(cmd.pair, cmd.shape, cmd.ask) /\ DOMAIN cmd.set # {}
      /\ cmd.ask.val # NoVal => cmd.shape.type = "Number"
  BY DEF Commands, CommandOf, Pairs
<1>2. /\ cmd.shape.type \in {"Switch", "Number"}
      /\ cmd.shape.range.lo \in Int /\ cmd.shape.range.hi \in Int
  <2>1. cmd.shape.type \in {"Switch", "Number"}
    BY <1>1, SwitchesAssumption
  <2>2. cmd.shape.range # Free => cmd.shape.range.lo \in Int /\ cmd.shape.range.hi \in Int
    BY <1>1, SwitchesAssumption
  <2>3. cmd.shape.range = Free => cmd.shape.range.lo \in Int /\ cmd.shape.range.hi \in Int
    BY FreeTyped, Zenon
  <2> QED BY <2>1, <2>2, <2>3, Zenon
<1>3. cmd.ask.state \in BOOLEAN
  BY <1>1 DEF Asks
<1>4. DOMAIN Nothing = {}
  BY DEF Nothing
<1>5. CASE m = ""
  <2>1. cmd.shape.type = "Switch"
    BY <1>5
  <2>2. cmd.set = PairSet(cmd.ask.state) /\ cmd.ask.val = NoVal /\ MemberName(cmd.pair) = "ON"
    BY <1>1, <1>5, <2>1 DEF Sets, Values, MemberName
  <2>3. "ON" \in DOMAIN cmd.set /\ (cmd.set["ON"] = 1 <=> cmd.ask.state)
    <3>1. CASE cmd.ask.state = TRUE
      BY <2>2, <3>1, Distinct
    <3>2. CASE cmd.ask.state = FALSE
      BY <2>2, <3>2, Distinct
    <3> QED BY <1>3, <3>1, <3>2
  <2> QED BY <2>1, <2>2, <2>3
<1>6. CASE m # ""
  <2>1. MemberName(cmd.pair) = m
    BY <1>6 DEF MemberName
  <2>2. CASE cmd.ask.val # NoVal
    <3>1. cmd.set = Nothing \/ cmd.set = Only(m, cmd.ask.val)
      BY <1>1, <2>2 DEF Sets, NumberValue
    <3>2. cmd.set = Only(m, cmd.ask.val)
      BY <1>1, <1>4, <3>1
    <3>3. m \in DOMAIN cmd.set /\ cmd.set[m] = cmd.ask.val
      BY <3>2 DEF Only
    <3> QED BY <2>1, <2>2, <3>3
  <2>3. CASE cmd.ask.val = NoVal
    <3>1. cmd.set = Values(cmd.pair, cmd.shape, cmd.ask.state)
      BY <1>1, <2>3 DEF Sets
    <3>2. CASE cmd.shape.type = "Switch"
      <4>1. \/ cmd.set = Nothing \/ (cmd.ask.state /\ cmd.set = Only(m, 1))
            \/ (~cmd.ask.state /\ cmd.set = Only(m, 0))
        BY <1>3, <1>6, <3>1, <3>2 DEF Values
      <4>2. \/ (cmd.ask.state /\ cmd.set = Only(m, 1))
            \/ (~cmd.ask.state /\ cmd.set = Only(m, 0))
        BY <1>1, <1>4, <4>1
      <4>3. m \in DOMAIN cmd.set /\ (cmd.set[m] = 1 <=> cmd.ask.state)
        BY <4>2, Distinct
      <4> QED BY <2>1, <2>3, <3>2, <4>3
    <3>3. CASE cmd.shape.type # "Switch"
      <4>1. \/ cmd.set = Nothing \/ (cmd.ask.state /\ cmd.set = Only(m, cmd.shape.range.hi))
            \/ (~cmd.ask.state /\ cmd.set = Only(m, cmd.shape.range.lo))
        BY <1>3, <1>6, <3>1, <3>3 DEF Values
      <4>2. \/ (cmd.ask.state /\ cmd.set = Only(m, cmd.shape.range.hi))
            \/ (~cmd.ask.state /\ cmd.set = Only(m, cmd.shape.range.lo))
        BY <1>1, <1>4, <4>1
      <4>3. /\ m \in DOMAIN cmd.set
            /\ cmd.set[m] # cmd.shape.range.lo <=> cmd.ask.state /\ ~NothingAbove(cmd.shape)
        BY <1>2, <3>3, <4>2 DEF Only, NothingAbove
      <4> QED BY <2>1, <2>3, <3>3, <4>3
    <3> QED BY <3>2, <3>3
  <2> QED BY <2>2, <2>3
<1> QED BY <1>5, <1>6

\* What was asked for is what the device reports once the driver has applied it,
\* unless the vector was redefined with another shape in between; a number with
\* min = max always reads off, and a pair that became numbers is left out.
THEOREM WritesReadBack == Spec => ReadsBack
<1> DEFINE Back(cmd) ==
             /\ HasMember(cmd.pair)' /\ Shape(cmd.pair)' = cmd.shape
             /\ cmd.pair[2] = "" => cmd.shape.type = "Switch"
             => IF cmd.ask.val # NoVal THEN Member(cmd.pair)' = cmd.ask.val
                ELSE GetSwitch(cmd.pair)' = (cmd.ask.state /\ ~NothingAbove(cmd.shape))
<1>1. ASSUME IndInv, [Next]_vars, toDrv # << >>, toDrv' = Tail(toDrv), conn' = "up",
             NEW cmd \in {Head(toDrv)}
      PROVE  Back(cmd)
  <2>1. /\ toDrv \in Seq(Commands) /\ cmd = toDrv[1] /\ 1 \in 1..Len(toDrv)
        /\ \A i \in 1..Len(toDrv) : CommandOf(toDrv[i], pinned)
    BY <1>1 DEF IndInv, PipeInv
  <2>2. Len(toDrv') # Len(toDrv) /\ Len(toDrv') # Len(toDrv) + 1
    BY <1>1, <2>1
  <2>3. Execute
    <3>1. toDrv' # toDrv /\ \A x : toDrv' # Append(toDrv, x)
      BY <2>1, <2>2
    <3> QED BY <1>1, <3>1 DEF Next, Driver, Define, Delete, Serve, Lose, GoDown, Enumerate, Request,
                             Begin, Resolve, Again, SetSwitch, vars
  <2>4. cmd \in Commands /\ CommandOf(cmd, pinned)
    BY <2>1
  <2>6. \A m \in DOMAIN cmd.set :
          cmd.pair[1] \in DOMAIN vec' /\ m \in DOMAIN vec'[cmd.pair[1]].val =>
            vec'[cmd.pair[1]].val[m] = cmd.set[m]
    BY <1>1, <2>3, ExecuteEffect
  <2> SUFFICES ASSUME HasMember(cmd.pair)', Shape(cmd.pair)' = cmd.shape,
                      cmd.pair[2] = "" => cmd.shape.type = "Switch"
               PROVE  IF cmd.ask.val # NoVal THEN Member(cmd.pair)' = cmd.ask.val
                      ELSE GetSwitch(cmd.pair)' = (cmd.ask.state /\ ~NothingAbove(cmd.shape))
    OBVIOUS
  <2> DEFINE k == MemberName(cmd.pair)
  <2>7. k \in DOMAIN cmd.set
    BY <2>4, SentAsAsked
  <2>8. Member(cmd.pair)' = cmd.set[k]
    BY <2>6, <2>7 DEF HasMember, Member, MemberName
  <2>9. CASE cmd.ask.val # NoVal
    BY <2>4, <2>8, <2>9, SentAsAsked
  <2>10. CASE cmd.ask.val = NoVal
    <3>1. cmd.ask.state \in BOOLEAN
      BY <2>4 DEF Commands, Asks
    <3>4. cmd.shape.type \in {"Switch", "Number"}
      BY <2>4, SwitchesAssumption DEF Commands, CommandOf, Pairs
    <3>5. cmd.shape.type = "Switch" => (Member(cmd.pair)' = 1 <=> cmd.ask.state)
      BY <2>4, <2>8, <2>10, SentAsAsked
    <3>6. cmd.shape.type # "Switch" =>
            (Member(cmd.pair)' # cmd.shape.range.lo <=> cmd.ask.state /\ ~NothingAbove(cmd.shape))
      BY <2>4, <2>8, <2>10, SentAsAsked
    <3>7. cmd.shape.type = "Switch" => ~NothingAbove(cmd.shape)
      BY DEF NothingAbove
    <3>2. GetSwitch(cmd.pair)' <=> cmd.ask.state /\ ~NothingAbove(cmd.shape)
      BY <3>5, <3>6, <3>7 DEF GetSwitch
    <3>3. GetSwitch(cmd.pair)' \in BOOLEAN
      BY DEF GetSwitch
    <3> QED BY <2>10, <3>1, <3>2, <3>3
  <2> QED BY <2>9, <2>10
<1>2. IndInv /\ [Next]_vars =>
        [toDrv # << >> /\ toDrv' = Tail(toDrv) /\ conn' = "up" =>
           \A cmd \in {Head(toDrv)} : Back(cmd)]_vars
  BY <1>1
<1> QED BY <1>2, SwitchesInductive, PTL DEF Spec, ReadsBack
=============================================================================
