------------------------------ MODULE Switches ------------------------------
(***************************************************************************)
(* The Alpaca switch device (devtype/switchdev/device.go): the vectors of   *)
(* an INDI driver flattened into one list of numbered switches.             *)
(*                                                                          *)
(* A client learns a number once and uses it from then on, while the driver *)
(* defines its vectors in any order, deletes them, dies and comes back with *)
(* vectors of another shape.  A write looks its number up in the list and   *)
(* its vector in a snapshot, and is sent later.                             *)
(*                                                                          *)
(* A vector is its shape and the values of its members; what a driver       *)
(* publishes is seen at once.  The driver is external: it applies the       *)
(* members a command names, and turns off the others of a one-of-many       *)
(* vector.                                                                  *)
(***************************************************************************)
EXTENDS Integers, Sequences, FiniteSets, SequencesExt

CONSTANTS
  Clients,  \* Alpaca requests in progress
  Props,    \* the contributing properties, in natLess order
  Shapes,   \* for each property the shapes a driver may give it
  MaxPipe   \* bound: commands the driver has not taken up

\* A shape: type "Switch" or "Number", members in definition order, rule, whether
\* it is read-only, and for numbers the range: a declared one may be empty or hold
\* one value only (a driver that says min = max = 0 means none, and HasRange is set);
\* without one a switch goes from 0 to 1.
Declared(lo, hi) == [has |-> TRUE, lo |-> lo, hi |-> hi]
Free == [has |-> FALSE, lo |-> 0, hi |-> 1]
PropSet == ToSet(Props)

ASSUME SwitchesAssumption ==
  /\ MaxPipe \in Nat \ {0}
  /\ Props \in Seq(PropSet)
  /\ \A v \in PropSet : \A s \in Shapes[v] :
       /\ s.type \in {"Switch", "Number"} /\ s.ro \in BOOLEAN
       /\ s.mem \in Seq(ToSet(s.mem)) \ {<< >>}
       /\ s.range = Free \/ (s.range.has /\ s.range.lo \in Int /\ s.range.hi \in Int)

VARIABLES
  conn,     \* "up" (Serving), "gone" (snapshot invalid, phase not changed), "down"
  vec,      \* snapshot, and driver: shape and values of each property that is defined
  toDrv,    \* commands the driver has not taken up
  pinned,   \* Switch.pinned
  cl,       \* the requests
  learned   \* history: the switch each number named when a client first saw it

vars == <<conn, vec, toDrv, pinned, cl, learned>>

None == "-"
\* What a request asks for: SetSwitch a state, SetSwitchValue a number too.
NoVal == -1
Asks == {a \in [state : BOOLEAN, val : {NoVal, 0, 2}] : a.val # NoVal => (a.state <=> a.val # 0)}
Idle == [pc |-> "idle", id |-> 0, ask |-> [state |-> FALSE, val |-> NoVal], pair |-> None,
         shape |-> None]

\* Some members and their values.
Nothing    == [m \in {} |-> 0]
Only(m, x) == [k \in {m} |-> x]

Init ==
  /\ conn = "down" /\ vec = Nothing /\ toDrv = << >>
  /\ pinned = << >> /\ cl = [c \in Clients |-> Idle] /\ learned = << >>

(***************************************************************************)
(* The driver.                                                              *)
(***************************************************************************)
Define(v) ==
  /\ conn = "up" /\ v \notin DOMAIN vec
  /\ \E s \in Shapes[v] :
       vec' = [u \in DOMAIN vec \cup {v} |->
                 IF u = v THEN [shape |-> s, val |-> [m \in ToSet(s.mem) |-> s.range.lo]]
                 ELSE vec[u]]
  /\ UNCHANGED <<conn, toDrv, pinned, cl, learned>>

Delete(v) ==
  /\ conn = "up" /\ v \in DOMAIN vec
  /\ vec' = [u \in DOMAIN vec \ {v} |-> vec[u]]
  /\ UNCHANGED <<conn, toDrv, pinned, cl, learned>>

\* The members that a command names; the others of a one-of-many vector go off.
Execute ==
  /\ conn = "up" /\ toDrv # << >>
  /\ toDrv' = Tail(toDrv)
  /\ LET set == Head(toDrv).set
         v   == Head(toDrv).pair[1]
     IN vec' = IF v \notin DOMAIN vec THEN vec
               ELSE IF DOMAIN vec[v].val \cap DOMAIN set = {} THEN vec
               ELSE [vec EXCEPT ![v].val =
                       [m \in DOMAIN @ |-> IF m \in DOMAIN set THEN set[m]
                                           ELSE IF vec[v].shape.rule = "OneOfMany" THEN 0 ELSE @[m]]]
  /\ UNCHANGED <<conn, pinned, cl, learned>>

Serve ==
  /\ conn = "down" /\ conn' = "up"
  /\ UNCHANGED <<vec, toDrv, pinned, cl, learned>>
Lose ==
  /\ conn = "up" /\ conn' = "gone"
  /\ vec' = Nothing /\ toDrv' = << >>
  /\ UNCHANGED <<pinned, cl, learned>>
GoDown ==
  /\ conn = "gone" /\ conn' = "down"
  /\ UNCHANGED <<vec, toDrv, pinned, cl, learned>>

(***************************************************************************)
(* The list of switches.                                                    *)
(***************************************************************************)
Avail == conn # "down"
BoolPair(s) == s.type = "Switch" /\ s.mem \in {<<"ON", "OFF">>, <<"OFF", "ON">>}

\* The switches of one property: a pair is one switch, else every member is one.
PairsOf(v) ==
  IF v \notin DOMAIN vec THEN {}
  ELSE {v} \X (IF BoolPair(vec[v].shape) THEN {""} ELSE ToSet(vec[v].shape.mem))

\* What the snapshot has.
Candidates == IF Avail THEN UNION {PairsOf(v) : v \in PropSet} ELSE {}

\* Candidates are taken by property, natLess, and then by member as defined.
Precedes(x, y) ==
  \E i, j \in DOMAIN Props :
    /\ Props[i] = x[1] /\ Props[j] = y[1]
    /\ \/ i < j
       \/ i = j /\ \E k, l \in DOMAIN vec[x[1]].shape.mem :
                     /\ k < l /\ vec[x[1]].shape.mem[k] = x[2] /\ vec[x[1]].shape.mem[l] = y[2]

\* The list of S in that order.
Listing(S) ==
  {s \in [1..Cardinality(S) -> S] :
     \A i, j \in 1..Cardinality(S) : i < j => Precedes(s[i], s[j])}

\* Mutant of Pinned: the list is made anew.
Renumbered == Listing(Candidates)

\* refresh: a switch that is seen for the first time gets the next number.
Pinned == {pinned \o s : s \in Listing(Candidates \ ToSet(pinned))}

(***************************************************************************)
(* The requests.                                                            *)
(***************************************************************************)
Refresh ==
  /\ pinned' \in Pinned
  /\ learned' = learned \o SubSeq(pinned', Len(learned) + 1, Len(pinned'))

\* MaxSwitch, and every reading request, by anyone.
Enumerate ==
  /\ Refresh
  /\ UNCHANGED <<conn, vec, toDrv, cl>>

Begin(c) ==
  /\ cl[c].pc = "idle"
  /\ Refresh
  /\ \E id \in DOMAIN pinned', a \in Asks :
       cl' = [cl EXCEPT ![c] = [pc |-> "resolve", id |-> id, ask |-> a, pair |-> pinned'[id],
                                shape |-> None]]
  /\ UNCHANGED <<conn, vec, toDrv>>

MemberName(pair) == IF pair[2] = "" THEN "ON" ELSE pair[2]
Member(pair)     == vec[pair[1]].val[MemberName(pair)]
Shape(pair)      == vec[pair[1]].shape
HasMember(pair)  == pair[1] \in DOMAIN vec /\ MemberName(pair) \in DOMAIN vec[pair[1]].val

\* resolve and writable: the vector as it is now.  SetSwitchValue on a switch is
\* SetSwitch, which resolves its number once more.
Resolve(c) ==
  /\ cl[c].pc = "resolve"
  /\ LET v == cl[c].pair[1] IN
       cl' = [cl EXCEPT ![c] =
                IF ~Avail \/ v \notin DOMAIN vec THEN Idle
                ELSE IF vec[v].shape.ro THEN Idle
                ELSE IF @.ask.val # NoVal /\ vec[v].shape.type = "Switch"
                THEN [@ EXCEPT !.pc = "again", !.ask.val = NoVal]
                ELSE [@ EXCEPT !.pc = "write", !.shape = vec[v].shape]]
  /\ UNCHANGED <<conn, vec, toDrv, pinned, learned>>

Again(c) ==
  /\ cl[c].pc = "again"
  /\ Refresh
  /\ cl' = [cl EXCEPT ![c] = IF @.id \notin DOMAIN pinned' THEN Idle
                             ELSE [@ EXCEPT !.pc = "resolve", !.pair = pinned'[cl[c].id]]]
  /\ UNCHANGED <<conn, vec, toDrv>>

\* Mutant of PairSet: only the member that goes on is named.
PairSetOne(state) == Only(IF state THEN "ON" ELSE "OFF", 1)

\* Both members of a pair are named.
PairSet(state) == [m \in {"ON", "OFF"} |-> IF m = "ON" <=> state THEN 1 ELSE 0]

\* The members SetSwitch sends, none when it refuses: a member of a
\* one-of-many vector is not turned off, a number that is gone not set.
Values(pair, shape, state) ==
  IF pair[2] = "" THEN PairSet(state)
  ELSE IF shape.type = "Switch"
  THEN IF state THEN Only(pair[2], 1)
       ELSE IF shape.rule = "OneOfMany" THEN Nothing ELSE Only(pair[2], 0)
  ELSE IF pair[2] \notin ToSet(shape.mem) THEN Nothing
  ELSE Only(pair[2], IF state THEN shape.range.hi ELSE shape.range.lo)

\* The member SetSwitchValue sends, none when it is gone or the value out of range.
NumberValue(pair, shape, val) ==
  IF MemberName(pair) \notin ToSet(shape.mem) THEN Nothing
  ELSE IF shape.range.has /\ val \notin shape.range.lo..shape.range.hi THEN Nothing
  ELSE Only(pair[2], val)

\* What a request asks for, as members and their values.
Sets(pair, shape, ask) ==
  IF ask.val = NoVal THEN Values(pair, shape, ask.state) ELSE NumberValue(pair, shape, ask.val)

\* SetSwitch and SetSwitchValue, and SetAsync and SetAsyncValue, which are the
\* same.  The write reaches the driver, or the child is gone or the phase has
\* changed.
SetSwitch(c) ==
  /\ cl[c].pc = "write"
  /\ LET set == Sets(cl[c].pair, cl[c].shape, cl[c].ask)
     IN IF DOMAIN set = {} \/ conn # "up" THEN UNCHANGED toDrv
        ELSE /\ Len(toDrv) < MaxPipe
             /\ toDrv' = Append(toDrv, [id |-> cl[c].id, pair |-> cl[c].pair, ask |-> cl[c].ask,
                                        shape |-> cl[c].shape, set |-> set])
  /\ cl' = [cl EXCEPT ![c] = Idle]
  /\ UNCHANGED <<conn, vec, pinned, learned>>

\* GetSwitch: on, or above the bottom of the range.
GetSwitch(pair) ==
  LET s == Shape(pair) IN
  IF s.type = "Switch" THEN Member(pair) = 1 ELSE Member(pair) # s.range.lo

(***************************************************************************)
(* The specification.                                                       *)
(***************************************************************************)
Driver == (\E v \in PropSet : Define(v) \/ Delete(v)) \/ Execute \/ Serve \/ Lose \/ GoDown
Request(c) == Begin(c) \/ Resolve(c) \/ Again(c) \/ SetSwitch(c)
Next == Driver \/ Enumerate \/ \E c \in Clients : Request(c)
Spec == Init /\ [][Next]_vars

(***************************************************************************)
(* Properties.                                                              *)
(***************************************************************************)
\* A number means what it meant when a client first saw it, whatever was
\* deleted, redefined or lost since: a command that the driver gets for it
\* names a member of that switch and of no other.
CommandHitsItsSwitch ==
  \A i \in DOMAIN toDrv :
    /\ toDrv[i].pair = learned[toDrv[i].id]
    /\ toDrv[i].pair[2] # "" => DOMAIN toDrv[i].set = {toDrv[i].pair[2]}

\* A range in which nothing is above the bottom.
NothingAbove(s) == s.type = "Number" /\ s.range.lo = s.range.hi

\* What was asked for is what GetSwitch, or GetSwitchValue, reads once the driver
\* has applied it, for pairs, members and numbers with or without a range, unless
\* the vector was redefined with another shape in between.  There are two
\* exceptions: a number with min = max is never read as on, since on is what is
\* above the minimum; and a pair whose property came back as numbers is not written
\* by a name that the driver has.
ReadsBack ==
  [][toDrv # << >> /\ toDrv' = Tail(toDrv) /\ conn' = "up" =>
       \A cmd \in {Head(toDrv)} :
         /\ HasMember(cmd.pair)' /\ Shape(cmd.pair)' = cmd.shape
         /\ cmd.pair[2] = "" => cmd.shape.type = "Switch"
         => IF cmd.ask.val # NoVal THEN Member(cmd.pair)' = cmd.ask.val
            ELSE GetSwitch(cmd.pair)' = (cmd.ask.state /\ ~NothingAbove(cmd.shape))]_vars
=============================================================================
