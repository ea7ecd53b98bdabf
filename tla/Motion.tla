------------------------------- MODULE Motion -------------------------------
(***************************************************************************)
(* Requests to a device that moves, against its driver: the programs of     *)
(* Devices run over the binding kit (binding/kit.go, binding/inflight.go).  *)
(*                                                                          *)
(* A command sent to the driver has no reply of its own.  The bridge sets   *)
(* an in-flight marker before it sends, and a poll says "moving" while the  *)
(* property is Busy or the marker is active: not cleared, and no update of  *)
(* the watched property is younger than it.  Both are read at different     *)
(* moments, while the driver publishes and other requests run.              *)
(*                                                                          *)
(* Times are abstracted to the one comparison the code makes: acked holds   *)
(* <<m, v>> when v.Updated is after the marker's time, fresh[c] the markers *)
(* older than the update times that poll c has read.                        *)
(*                                                                          *)
(* The driver is external: it defines its properties one by one once it is  *)
(* connected, answers every command with an update of the property, with or *)
(* without Busy first, and may publish its state at any time.  Publishing   *)
(* and applying are one step.  The Busy check of the Alpaca server in front *)
(* of the requests is left out: any request may run at any time.            *)
(***************************************************************************)
EXTENDS Devices, FiniteSets

CONSTANTS
  Clients,   \* Alpaca requests in progress
  Drivers,   \* kinds of device, each with the properties its driver defines and
             \* the requests made of it, n at a time
  MaxPend    \* bound: commands on one property that the driver has not taken up

Props == {"abs", "rel", "slot", "cap", "light", "intensity", "az", "park", "shutter", "motion",
          "eq", "hor", "mode", "align", "homing", "track", "guideNS", "guideWE", "abort", "exp",
          "ftype", "points", "commit", "geo", "time", "rate", "trackRate", "autosync", "reverse",
          "sync", "bin", "cooler", "gain", "readout", "extra"}
Markers == {"move", "coverOp", "calOp", "azOp", "parkOp", "shutOp", "slew", "home", "guide", "exposure"}

ASSUME MotionAssumption ==
  /\ MaxPend \in Nat \ {0}
  /\ \A d \in Drivers : /\ d.props \subseteq Props
                        /\ d.kind \in DOMAIN Program /\ d.reqs \subseteq DOMAIN Program[d.kind]

VARIABLES
  drv,      \* the driver of this behaviour, never changes
  conn,     \* "up" (Serving), "gone" (snapshot invalid, phase not yet changed), "down"
  vec,      \* snapshot: state of each property, None when it is not defined
  on,       \* snapshot: the switch member that is on
  active,   \* markers with Inflight.active
  acked,    \* <<m, v>>: v.Updated is after Inflight.at of m
  axis,     \* Telescope.axisMoving
  pend,     \* commands written and not taken up, per property
  run,      \* the command the driver is executing, per property
  mode,     \* ON_COORD_SET ("mode") and ALIGNMENT_POINTSET_ACTION ("points") of the
            \* driver, after the commands written so far
  cl,       \* the requests
  rested,   \* history: <<c, m>>: at some moment of poll c no command of m was outstanding
  crossed,  \* history: markers an update reached before the driver had their command
  withdrawn,\* history: markers cleared since they were set
  refused   \* history: a sync of this child was refused

vars == <<drv, conn, vec, on, active, acked, axis, pend, run, mode, cl, rested, crossed,
          withdrawn, refused>>
driverVars == <<conn, vec, on, pend, run, mode>>
markerVars == <<active, acked, axis, crossed, withdrawn>>

States == {"Ok", "Alert"}

\* The members a switch may have on when it is defined; numbers have one value.
Values(v) == IF v = "park" THEN {"PARK", "UNPARK"} ELSE {None}

\* The properties whose update acknowledges a marker.
Watch ==
  [move |-> {"abs", "slot"}, coverOp |-> {"cap"}, calOp |-> {"light", "intensity"},
   azOp |-> {"az"}, parkOp |-> {"park"}, shutOp |-> {"shutter"}, slew |-> {"eq"},
   home |-> {"homing"}, guide |-> {"guideNS", "guideWE"}, exposure |-> {"exp"}]

MarkersOf == [v \in Props |-> {m \in Markers : v \in Watch[m]}]

Code(c) == Program[drv.kind][cl[c].req]
\* The markers each request asks about; the history below is kept for these.
Polls == [k \in DOMAIN Program |-> [r \in DOMAIN Program[k] |->
           {Program[k][r][i].m : i \in {i \in 1..Len(Program[k][r]) : Program[k][r][i].op = "active"}}]]
Polled == UNION {Polls[drv.kind][r] : r \in drv.reqs}
Looks == {"avail", "need", "if", "ifnot", "check", "return", "since"}
Idle    == [req |-> None, pc |-> 1, err |-> None, fresh |-> {}, skip |-> {}, since |-> {},
            loose |-> {}, torn |-> {}]
\* The mode of a new child.
FirstMode == [mode |-> "TRACK", points |-> "APPEND"]
NoCommand == [m |-> None, a |-> None]

TypeOK ==
  /\ drv \in Drivers /\ conn \in {"up", "gone", "down"}
  /\ vec \in [drv.props -> States \cup {"Busy", None}]
  /\ active \subseteq Markers /\ acked \subseteq Markers \X Props
  /\ axis \in BOOLEAN /\ mode.mode \in {"TRACK", "SYNC"} /\ mode.points \in {"APPEND", "CLEAR"}
  /\ \A v \in drv.props : Len(pend[v]) <= MaxPend
  /\ crossed \subseteq Markers /\ withdrawn \subseteq Markers /\ refused \in BOOLEAN
  /\ \A c \in Clients : cl[c].req \in drv.reqs \cup {None} /\ cl[c].since \subseteq Props

Init ==
  /\ drv \in Drivers
  /\ conn = "down" /\ vec = [v \in drv.props |-> None] /\ on = [v \in drv.props |-> None]
  /\ active = {} /\ acked = {} /\ axis = FALSE
  /\ pend = [v \in drv.props |-> << >>] /\ run = [v \in drv.props |-> NoCommand]
  /\ mode = FirstMode /\ cl = [c \in Clients |-> Idle]
  /\ rested = {} /\ crossed = {} /\ withdrawn = {} /\ refused = FALSE

(***************************************************************************)
(* What the kit sees.                                                       *)
(***************************************************************************)
Avail  == conn # "down"
State(v) == IF v \in drv.props THEN vec[v] ELSE None
Has(v) == Avail /\ State(v) # None
After(v) == {m \in Markers : Has(v) /\ <<m, v>> \in acked}

(***************************************************************************)
(* The driver.                                                              *)
(***************************************************************************)
Waiting(p, m)  == \E v \in DOMAIN p : \E i \in 1..Len(p[v]) : p[v][i].m = m
Outstanding(m) == Waiting(pend, m) \/ \E v \in drv.props : run[v].m = m
\* Some request has set m and not sent its command yet.
Unsent(m) == \E c \in Clients :
  /\ cl[c].req # None
  /\ \E i \in 1..(cl[c].pc - 1) : Code(c)[i].op = "start" /\ Code(c)[i].m = m
  /\ \E j \in cl[c].pc..Len(Code(c)) : Code(c)[j].op \in {"send", "write"} /\ Code(c)[j].m = m

\* The command of m runs on a property that m does not watch.
Elsewhere(m) == \E v \in drv.props \ Watch[m] : run[v].m = m

\* Request c will wait for v; its command may not have reached the driver yet;
\* poll c has looked at the state of v and is not done.
Waits(c, v)  == cl[c].req # None /\ \E i \in cl[c].pc..Len(Code(c)) :
                  Code(c)[i].op = "settle" /\ Code(c)[i].v = v
Early(c, v)  == \/ \E i \in cl[c].pc..Len(Code(c)) : Code(c)[i].op = "send" /\ Code(c)[i].v = v
                \/ pend'[v] # << >>
Looked(c, v) == cl[c].req # None /\ \E i \in 1..(cl[c].pc - 1) :
                  Code(c)[i].op \in {"busy", "isok"} /\ Code(c)[i].v = v

\* History: request r no longer knows what the properties vs are, or never did.
Loosen(r, vs) == IF r.req = None THEN r
                 ELSE [r EXCEPT !.loose = @ \cup (vs \cap {"mode", "points", "park"})]

\* Property v is published; it is now younger than every marker.
Publish(v, state) ==
  /\ vec' = [vec EXCEPT ![v] = state]
  /\ acked' = acked \cup {<<m, v>> : m \in MarkersOf[v]}
  /\ crossed' = crossed \cup
       {m \in MarkersOf[v] \cap Polled : Waiting(pend', m) \/ Unsent(m) \/ Elsewhere(m)}
  /\ cl' = [c \in Clients |->
              [cl[c] EXCEPT !.since = IF Waits(c, v) THEN @ \cup {v} ELSE @,
                            !.torn = IF \/ state = "Busy" /\ Looked(c, v)
                                        \/ Waits(c, v) /\ Early(c, v)
                                     THEN @ \cup MarkersOf[v] ELSE @]]

\* Connected: the driver defines what it has.
Define(v) ==
  /\ conn = "up" /\ vec[v] = None
  /\ UNCHANGED <<pend, run>>
  /\ Publish(v, "Ok")
  /\ \E a \in Values(v) : on' = [on EXCEPT ![v] = a]
  /\ UNCHANGED <<drv, conn, active, axis, mode, withdrawn, refused>>

\* The driver takes up a command and says so.
Accept(v) ==
  /\ conn = "up" /\ vec[v] # None /\ pend[v] # << >>
  /\ pend' = [pend EXCEPT ![v] = Tail(@)]
  /\ run' = [run EXCEPT ![v] = Head(pend[v])]
  /\ Publish(v, "Busy")
  /\ UNCHANGED <<drv, conn, on, active, axis, mode, withdrawn, refused>>

\* The driver ends a command, which it may never have shown as Busy.
Finish(v) ==
  /\ conn = "up" /\ vec[v] # None /\ (run[v] # NoCommand \/ pend[v] # << >>)
  /\ LET cmd == IF run[v] # NoCommand THEN run[v] ELSE Head(pend[v]) IN
       /\ pend' = IF run[v] # NoCommand THEN pend ELSE [pend EXCEPT ![v] = Tail(@)]
       /\ run' = [run EXCEPT ![v] = NoCommand]
       /\ \E s \in States :
            /\ Publish(v, s)
            /\ on' = IF s = "Ok" THEN [on EXCEPT ![v] = cmd.a] ELSE on
  /\ UNCHANGED <<drv, conn, active, axis, mode, withdrawn, refused>>

\* The driver publishes its present state, in answer to nothing.
Report(v) ==
  /\ conn = "up" /\ vec[v] # None
  /\ UNCHANGED <<pend, run>>
  /\ Publish(v, IF run[v] # NoCommand THEN "Busy" ELSE "Ok")
  /\ UNCHANGED <<drv, conn, on, active, axis, mode, withdrawn, refused>>

\* The child is lost: the snapshot is invalid first, the phase changes next.
Lose ==
  /\ conn = "up"
  /\ conn' = "gone"
  /\ vec' = [v \in drv.props |-> None] /\ on' = [v \in drv.props |-> None] /\ acked' = {}
  /\ pend' = [v \in drv.props |-> << >>] /\ run' = [v \in drv.props |-> NoCommand]
  /\ mode' = FirstMode /\ refused' = FALSE
  /\ cl' = [c \in Clients |-> Loosen(cl[c], drv.props)]
  /\ UNCHANGED <<drv, active, axis, crossed, withdrawn>>

GoDown ==
  /\ conn = "gone" /\ conn' = "down"
  /\ UNCHANGED <<drv, vec, on, active, acked, axis, pend, run, mode, cl, crossed, withdrawn,
                 refused>>

\* The next child is connected.
Serve ==
  /\ conn = "down" /\ conn' = "up"
  /\ UNCHANGED <<drv, vec, on, active, acked, axis, pend, run, mode, cl, crossed, withdrawn,
                 refused>>

(***************************************************************************)
(* The requests, one action per instruction.                                *)
(***************************************************************************)
\* The markers that poll c asks about.
Asks(c) == Polls[drv.kind][cl[c].req]

\* The poll has read an update time and will ask about m.
HasTime(c, m) ==
  /\ cl[c].req # None
  /\ \E i \in 1..(cl[c].pc - 1) : Code(c)[i].op \in {"updated", "snap"}
  /\ \E j \in cl[c].pc..Len(Code(c)) : Code(c)[j].op = "active" /\ Code(c)[j].m = m

Running(c) == cl[c].req # None /\ cl[c].err = None
Top(c)     == Code(c)[cl[c].pc]
At(c, op)  == Running(c) /\ Top(c).op = op

\* Request c goes on after n instructions, past the looks at properties that the
\* driver does not have; at its end a poll answers "still".
Blank(i)   == i.op \in {"busy", "updated"} /\ i.v \notin drv.props
Then(c, n) ==
  LET p == cl[c].pc + n
      q == CHOOSE q \in p..(Len(Code(c)) + 1) :
             /\ q \in DOMAIN Code(c) => ~Blank(Code(c)[q])
             /\ \A r \in p..(q - 1) : Blank(Code(c)[r])
  IN IF q > Len(Code(c)) \/ Code(c)[q].op = "still" THEN Idle ELSE [cl[c] EXCEPT !.pc = q]
Goes(c, n) == cl' = [cl EXCEPT ![c] = Then(c, n)]
Ends(c)    == cl' = [cl EXCEPT ![c] = Idle]
\* Mutant of Fails: the error is returned and the marker stays.
FailsMarked(c) == Ends(c)

\* An error is returned, after the marker is cleared.
Fails(c)   == IF Top(c).m = None THEN Ends(c) ELSE cl' = [cl EXCEPT ![c].err = Top(c).m]

Begin(c) ==
  /\ cl[c].req = None /\ Cardinality({d \in Clients : cl[d].req # None}) < drv.n
  /\ \E r \in drv.reqs : cl' = [cl EXCEPT ![c] = [Idle EXCEPT !.req = r]]
  /\ UNCHANGED <<drv, driverVars, markerVars, refused>>

\* Looks at the snapshot that only decide how the request goes on.
Look(c) ==
  /\ Running(c) /\ Top(c).op \in Looks
  /\ \/ At(c, "avail") /\ IF Avail THEN Goes(c, 1) ELSE Ends(c)
     \/ At(c, "need") /\ IF Has(Top(c).v) /\ State(Top(c).v) # Top(c).a THEN Goes(c, 1) ELSE Ends(c)
     \/ /\ At(c, "if")
        /\ IF Has(Top(c).v) /\ Top(c).a \in {None, on[Top(c).v]}
           THEN Goes(c, 1)
           ELSE cl' = [cl EXCEPT ![c] = Loosen(Then(c, 1 + Top(c).n), {Top(c).v})]
     \/ /\ At(c, "ifnot")
        /\ Goes(c, IF Has(Top(c).v) /\ on[Top(c).v] = Top(c).a THEN 1 + Top(c).n ELSE 1)
     \/ At(c, "check") /\ (Goes(c, 1) \/ Ends(c))
     \/ At(c, "return") /\ Ends(c)
     \/ At(c, "since") /\ cl' = [cl EXCEPT ![c] = [Then(c, 1) EXCEPT !.since = {}, !.torn = {}]]
  /\ UNCHANGED <<drv, driverVars, markerVars, refused>>

\* Inflight.Start: the marker is younger than everything read so far.
StartMarker(c) ==
  /\ At(c, "start")
  /\ LET m == Top(c).m IN
       /\ active' = active \cup {m}
       /\ acked' = {p \in acked : p[1] # m}
       /\ crossed' = IF Waiting(pend, m) THEN crossed ELSE crossed \ {m}
       /\ withdrawn' = withdrawn \ {m}
       /\ cl' = [d \in Clients |-> [IF d = c THEN Then(c, 1) ELSE cl[d] EXCEPT !.fresh = @ \ {m}]]
  /\ UNCHANGED <<drv, driverVars, axis, refused>>

\* Inflight.Clear, in the program or on the way out after a failed send.
ClearMarker(c) ==
  /\ cl[c].req # None
  /\ \E m \in {IF cl[c].err # None THEN cl[c].err ELSE Top(c).m} :
       /\ cl[c].err # None \/ At(c, "clear")
       /\ active' = active \ {m} /\ withdrawn' = withdrawn \cup ({m} \cap Polled)
  /\ IF cl[c].err # None THEN Ends(c) ELSE Goes(c, 1)
  /\ UNCHANGED <<drv, driverVars, acked, axis, crossed, refused>>

SetAxis(c) ==
  /\ At(c, "axis")
  /\ axis' = (Top(c).a = "on")
  /\ Goes(c, 1)
  /\ UNCHANGED <<drv, driverVars, active, acked, crossed, withdrawn, refused>>

\* SendNumber, SendSwitch, WriteNumber, WriteSwitch: the driver gets the command.
\* A driver that has not defined the property ignores it.
Sent(c) ==
  /\ At(c, "send") \/ (At(c, "write") /\ Has(Top(c).v))
  /\ conn = "up"
  /\ LET v == Top(c).v IN
       /\ v \in drv.props => Len(pend[v]) < MaxPend
       /\ pend' = IF State(v) # None /\ v \notin DOMAIN mode \cup {"abort", "commit"}
                  THEN [pend EXCEPT ![v] = Append(@, [m |-> Top(c).m, a |-> Top(c).a])] ELSE pend
       /\ mode' = IF v \in DOMAIN mode /\ State(v) # None
                  THEN [mode EXCEPT ![v] = Top(c).a] ELSE mode
       /\ cl' = [d \in Clients |->
                   IF d # c THEN Loosen(cl[d], {v})
                   ELSE IF Then(c, 1).req = None \/ State(v) = None THEN Then(c, 1)
                   ELSE [Then(c, 1) EXCEPT !.loose = @ \ {v}]]
  /\ UNCHANGED <<drv, conn, vec, on, run, markerVars, refused>>

\* Not serving, the property missing, a value out of range, or the pipe broken.
SendFails(c) ==
  /\ (At(c, "send") /\ conn # "up") \/ At(c, "write")
  /\ Fails(c)
  /\ UNCHANGED <<drv, driverVars, markerVars, refused>>

\* The child is gone and the pipe still takes the command.
SentToDead(c) ==
  /\ At(c, "send") /\ conn = "gone"
  /\ Goes(c, 1)
  /\ UNCHANGED <<drv, driverVars, markerVars, refused>>

\* WaitSettle: an update after since that is not Busy, or time is up, or the child is lost.
WaitSettle(c) ==
  /\ At(c, "settle")
  /\ \/ /\ Has(Top(c).v) /\ Top(c).v \in cl[c].since /\ vec[Top(c).v] = "Ok"
        /\ Goes(c, 1)
     \/ Fails(c)
  /\ UNCHANGED <<drv, driverVars, markerVars, refused>>

\* WaitUpdate of SetTracking, whose failure is only logged.
WaitEcho(c) ==
  /\ At(c, "echo")
  /\ Goes(c, 1)
  /\ UNCHANGED <<drv, driverVars, markerVars, refused>>

\* The loop of syncCoords: the coordinates agree, or the deadline passes, or Alert.
WaitSync(c) ==
  /\ At(c, "syncseen")
  /\ \/ Goes(c, 1) /\ UNCHANGED refused
     \/ Has(Top(c).v) /\ vec[Top(c).v] = "Alert" /\ Ends(c) /\ refused' = TRUE
  /\ UNCHANGED <<drv, driverVars, markerVars>>

\* The looks of a poll that end it or let it go on.
Poll(c) ==
  /\ \/ At(c, "gate") /\ Goes(c, IF Avail THEN 1 ELSE 1 + Top(c).n)
     \/ At(c, "busy") /\ IF Has(Top(c).v) /\ vec[Top(c).v] \in {"Busy", Top(c).a} THEN Ends(c) ELSE Goes(c, 1)
     \/ /\ At(c, "ison")
        /\ IF Has(Top(c).v) /\ on[Top(c).v] = Top(c).a THEN Goes(c, 1) ELSE Ends(c)
     \/ At(c, "isok") /\ IF Has(Top(c).v) /\ vec[Top(c).v] = "Ok" THEN Goes(c, 1) ELSE Ends(c)
     \/ At(c, "axismoving") /\ IF axis THEN Ends(c) ELSE Goes(c, 1)
     \/ /\ At(c, "updated")
        /\ cl' = [cl EXCEPT ![c] = [Then(c, 1) EXCEPT !.fresh = @ \cup After(Top(c).v)]]
  /\ UNCHANGED <<drv, driverVars, markerVars, refused>>

\* DeviceState and ShutterStatus: one snapshot; what it does not define is not asked about.
TakeSnapshot(c) ==
  /\ At(c, "snap")
  /\ LET read == {Top(c).v} \cup Top(c).also IN
       IF State(Top(c).v) \in {None, Top(c).a} \/ \E v \in read : State(v) = "Busy"
       THEN Ends(c)
       ELSE cl' = [cl EXCEPT ![c].pc = @ + 1,
                             ![c].fresh = {m \in Asks(c) : \E v \in read : <<m, v>> \in acked},
                             ![c].skip = {m \in Asks(c) : \A v \in read \cap Watch[m] :
                                                             State(v) = None}]
  /\ UNCHANGED <<drv, driverVars, markerVars, refused>>

\* Inflight.Active drops an acknowledged marker as a side effect.
ActiveMarker(c) ==
  /\ At(c, "active")
  /\ LET m == Top(c).m IN
       IF m \in active \ (cl[c].fresh \cup cl[c].skip)
       THEN Ends(c) /\ UNCHANGED active
       ELSE /\ active' = IF m \in cl[c].skip THEN active ELSE active \ {m}
            /\ cl' = [d \in Clients |->
                        IF d = c THEN [Then(c, 1) EXCEPT !.fresh = @ \ {m}]
                        ELSE IF m \in active /\ HasTime(d, m) THEN [cl[d] EXCEPT !.torn = @ \cup {m}]
                        ELSE cl[d]]
  /\ UNCHANGED <<drv, driverVars, acked, axis, crossed, withdrawn, refused>>

(***************************************************************************)
(* The specification.                                                       *)
(***************************************************************************)
Driver == \/ \E v \in drv.props : Define(v) \/ Accept(v) \/ Finish(v) \/ Report(v)
          \/ Lose \/ GoDown \/ Serve

Step(c) ==
  \/ Look(c) \/ StartMarker(c) \/ ClearMarker(c) \/ SetAxis(c) \/ Sent(c) \/ SendFails(c)
  \/ SentToDead(c) \/ WaitSettle(c) \/ WaitEcho(c) \/ WaitSync(c) \/ Poll(c)
  \/ TakeSnapshot(c) \/ ActiveMarker(c)
Request(c) == Begin(c) \/ (cl[c].req # None /\ Step(c))

\* History: some moment of poll c had no command of m outstanding.
History ==
  rested' = UNION {{<<c, m>> : m \in {m \in Polls[drv.kind][cl'[c].req] :
                                         <<c, m>> \in rested \/ ~Outstanding(m)'}} :
                   c \in {c \in Clients : cl'[c].req # None}}

Next == (Driver \/ \E c \in Clients : Request(c)) /\ History

Spec == Init /\ [][Next]_vars

(***************************************************************************)
(* Properties.                                                              *)
(***************************************************************************)
\* Poll c finds its marker inactive; every answer "still" has found all of them so.
Passes(c) ==
  /\ At(c, "active") /\ cl' # cl
  /\ Top(c).m \notin (active \ cl[c].fresh) \cup cl[c].skip

\* A poll that finds a marker inactive, and so may answer "not moving" (or
\* AtPark, AtHome, "open", "closed"), although a command of the marker was
\* outstanding at every moment of the poll, was misled in one of three ways: an
\* update that was no answer to the command reached the marker first, another
\* request cleared the marker, or Busy was published after its look at the state
\* and either its own look at the update time or another poll, which dropped the
\* marker, took that for the answer.  The polls that use one snapshot are misled
\* in the third way by another poll only.
StoppedMeansStopped ==
  [][\A c \in Clients :
       Passes(c) /\ <<c, Top(c).m>> \notin rested =>
         Top(c).m \in crossed \cup withdrawn \cup cl[c].torn]_vars

\* No motion looks endless: a marker that holds a poll at "moving" belongs to a
\* command the driver still has to answer or to a request that is not finished,
\* through every failed send and every loss of the child between the two.  (Not
\* for a command sent to another property than the marker watches: REL_ROTATOR_-
\* ANGLE and HORIZONTAL_COORD, whose answers leave the marker alone.)
MarkerHasCause ==
  \A m \in active :
    /\ drv.props \cap {"rel", "hor"} = {} /\ Watch[m] \cap drv.props # {}
    /\ conn = "up" /\ \A v \in Watch[m] \cap drv.props : vec[v] # None /\ <<m, v>> \notin acked
    => \/ Outstanding(m)
       \/ \E c \in Clients : cl[c].req # None /\ \E i \in 1..Len(Code(c)) :
                              Code(c)[i].op = "start" /\ Code(c)[i].m = m /\ i < cl[c].pc

\* A dome that was parked is sent its azimuth only when the driver has ended
\* the unpark that the same request sent, unless an update crossed the command
\* or another request sent a park command of its own.
UnparkedFirst ==
  [][\A c \in Clients :
       At(c, "write") /\ Top(c).v = "az" /\ pend' # pend /\ "park" \notin cl[c].loose =>
         ~Outstanding("parkOp") \/ "parkOp" \in cl[c].torn]_vars

\* The driver gets what request c sends to v.
Commands(c, v) == At(c, "send") /\ Top(c).v = v /\ conn = "up" /\ State(v) # None
                  /\ cl'[c].pc # cl[c].pc

\* Coordinates meet the mode their request chose, and the commit of setSite the
\* action it chose, unless another request chose one in between, the mode was not
\* defined when the request looked, or the child was replaced between the writes.
CommandMeetsItsMode ==
  [][\A c \in Clients : \A p \in {<<"eq", "mode">>, <<"commit", "points">>} :
       Commands(c, p[1]) /\ mode[p[2]] # Top(c).a => p[2] \in cl[c].loose]_vars

\* No sync leaves the mount in SYNC mode, where the next coordinates of any
\* client would move the model instead of the mount, but one that was refused; and
\* no setSite leaves CLEAR selected, where the next sync would forget all points.
ModesPutBack ==
  /\ (\A c \in Clients : cl[c].req # "SyncCoords") /\ mode.mode = "SYNC" => refused
  /\ (\A c \in Clients : cl[c].req # "SetSite") => mode.points = "APPEND"
=============================================================================
