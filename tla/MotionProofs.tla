---------------------------- MODULE MotionProofs ----------------------------
(***************************************************************************)
(* Theorems about Motion.  The requests are programs (Devices), so a proof  *)
(* has two halves: what every program of the table looks like, shown once   *)
(* program by program, and what a step does to a request whose program has  *)
(* that shape.                                                              *)
(***************************************************************************)
EXTENDS Motion, WellFoundedInduction, TLAPS

(***************************************************************************)
(* The shape of the programs.                                               *)
(***************************************************************************)
Args == {None, "go", "TRACK", "SYNC", "APPEND", "CLEAR", "PARK", "UNPARK", "Alert", "on", "off"}
Ops  == {"need", "avail", "if", "ifnot", "start", "clear", "send", "write", "since", "settle",
         "echo", "check", "syncseen", "return", "axis", "busy", "updated", "active",
         "axismoving", "ison", "isok", "snap", "still", "gate"}
Instrs == [op : Ops, v : Props \cup {None}, m : Markers \cup {None}, a : Args, n : Nat,
           also : SUBSET Props]
Commanding == {"send", "write"}
\* The properties whose commands depend on each other or on an unpark.
Modal == {"mode", "points", "eq", "commit", "az"}

\* Every branch stays inside, and what follows a snapshot is looked at.
WellFormed(s) ==
  /\ s \in Seq(Instrs) /\ Len(s) # 0
  /\ \A i \in 1..Len(s) :
       /\ i + s[i].n <= Len(s)
       /\ s[i].op = "snap" => i < Len(s) /\ s[i + 1].op \notin {"busy", "updated", "still"}

\* A command with a marker goes to a property that the marker watches.
Aimed(x) ==
  /\ x.op \in Commanding /\ x.m # None => x.v \in Watch[x.m] \cup {"rel", "hor"}
  /\ x.op \in Commanding /\ x.m = "parkOp" => x.v = "park"
  /\ x.op = "write" => x.v \notin {"mode", "points"}
  /\ x.op = "clear" => x.m \in Markers

\* Instruction j is reached only when g has found its property.
Guards(s, g, j) ==
  /\ g < j /\ s[g].op \in {"need", "if"} /\ s[g].v = s[j].v
  /\ s[g].op = "if" => j <= g + s[g].n
  /\ \A k \in 1..(g - 1) : s[k].n = 0

\* The marker set by i has its command sent by j at the latest, on every way.
Spans(s, i, j) ==
  /\ i < j /\ s[i].op = "start" /\ s[i].m \in Markers
  /\ s[j].op \in Commanding /\ s[j].m = s[i].m
  /\ \A k \in (i + 1)..(j - 1) :
       \/ s[k].op = "if" /\ k + s[k].n < j
       \/ s[k].op \in Commanding /\ s[k].m = s[i].m
  /\ s[j].op = "write" \/ Watch[s[j].m] = {s[j].v} \/ \E g \in 1..(j - 1) : Guards(s, g, j)

\* The command j is sent after p was looked up by g and set to j's value.
Chooses(s, g, j, p) ==
  /\ g + 1 < j /\ s[g].op = "if" /\ s[g].v = p
  /\ s[g + 1].op = "send" /\ s[g + 1].v = p /\ s[g + 1].a = s[j].a
  /\ \A k \in 1..(g - 1) : k + s[k].n < g
  /\ \A k \in (g + 2)..(j - 1) : s[k].op = "start"

Good(s) ==
  /\ WellFormed(s)
  /\ \A i \in 1..Len(s) :
       /\ Aimed(s[i])
       /\ s[i].op = "start" => \E j \in 1..Len(s) : Spans(s, i, j)
       /\ s[i].op = "send" /\ s[i].v = "eq" => \E g \in 1..Len(s) : Chooses(s, g, i, "mode")
       /\ s[i].op = "send" /\ s[i].v = "commit" => \E g \in 1..Len(s) : Chooses(s, g, i, "points")
       /\ s[i].op \in Commanding /\ s[i].v = "az" => s = DomeSlewToAzimuth

\* It leaves the modes as they are for a new child.
Keeps(s) == \A i \in 1..Len(s) : s[i].op = "send" /\ s[i].v \in {"mode", "points"} =>
                                   s[i].v = "mode" /\ s[i].a = "TRACK"
Fine(s) == Good(s) /\ Keeps(s)

\* Instructions that set no marker, send nothing that matters and do not branch.
Mild(x) == /\ x.op \notin {"start", "snap"}
           /\ x.op \in Commanding => x.m = None /\ x.v \notin Modal
           /\ x.op = "clear" => x.m \in Markers
Easy == {x \in Instrs : Mild(x) /\ x.n = 0}

\* A program of such instructions, with branches.
Calm(s) == /\ s \in Seq(Instrs) /\ Len(s) # 0
           /\ \A i \in 1..Len(s) : Mild(s[i]) /\ i + s[i].n <= Len(s)

LEMMA InstrTyped ==
  ASSUME NEW op \in Ops, NEW v \in Props \cup {None}, NEW m \in Markers \cup {None},
         NEW a \in Args, NEW n \in Nat
  PROVE  Instr(op, v, m, a, n) \in Instrs
BY DEF Instr, Instrs

LEMMA InstrField ==
  ASSUME NEW s \in Seq(Instrs), NEW i \in 1..Len(s)
  PROVE  s[i] \in Instrs /\ s[i].n \in Nat
<1>1. s[i] \in Instrs
  OBVIOUS
<1> QED BY <1>1 DEF Instrs

LEMMA EasyLooks ==
  ASSUME NEW v \in Props
  PROVE  /\ {Need(v), NotAlert(v), Busy(v), BusyOrAlert(v), Updated(v), IsOk(v), Echo(v), SyncSeen(v)}
              \subseteq Easy
         /\ \A a \in Args : IsOn(v, a) \in Easy
  BY DEF Easy, Mild, Commanding, Need, NotAlert, Busy, BusyOrAlert, Updated, IsOk, Echo, SyncSeen, IsOn,
         Instr, Instrs, Ops, Args, None

LEMMA EasyMarks ==
  /\ {Available, Check, Since, Return, AxisMoving, Still} \subseteq Easy
  /\ \A m \in Markers : Clear(m) \in Easy /\ Active(m) \in Easy
  /\ \A a \in Args : Axis(a) \in Easy
BY DEF Easy, Mild, Commanding, Available, Check, Since, Return, AxisMoving, Still, Clear, Active, Axis,
       Instr, Instrs, Ops, Args, None

LEMMA EasySends ==
  ASSUME NEW v \in Props \ Modal, NEW a \in Args
  PROVE  Send(v, None, a) \in Easy /\ Write(v, None, a) \in Easy
BY DEF Easy, Mild, Commanding, Send, Write, Instr, Instrs, Ops, None

LEMMA MildAimed ==
  ASSUME NEW x, Mild(x)
  PROVE  Aimed(x) /\ ~(x.op \in Commanding /\ x.v \in Modal)
BY DEF Mild, Aimed, Modal, Commanding, None

LEMMA CalmFine ==
  ASSUME NEW s, Calm(s) PROVE Fine(s)
<1>1. WellFormed(s) /\ \A i \in 1..Len(s) : Mild(s[i])
  BY DEF Calm, WellFormed, Mild
<1>2. \A i \in 1..Len(s) : /\ Aimed(s[i]) /\ ~(s[i].op \in Commanding /\ s[i].v \in Modal)
                          /\ s[i].op # "start"
  BY <1>1, MildAimed DEF Mild
<1> QED BY <1>1, <1>2 DEF Fine, Good, Keeps, Modal, Commanding

LEMMA EasyCalm ==
  ASSUME NEW s \in Seq(Easy), Len(s) # 0 PROVE Calm(s)
<1>1. s \in Seq(Instrs) /\ \A i \in 1..Len(s) : s[i] \in Easy
  BY DEF Easy
<1> QED BY <1>1 DEF Calm, Easy

LEMMA CalmConcat ==
  ASSUME NEW s, NEW t, Calm(s), Calm(t) PROVE Calm(s \o t)
<1>1. s \o t \in Seq(Instrs) /\ Len(s \o t) = Len(s) + Len(t)
  BY DEF Calm
<1>2. ASSUME NEW i \in 1..Len(s \o t)
      PROVE  Mild((s \o t)[i]) /\ i + (s \o t)[i].n <= Len(s \o t)
  <2>1. CASE i <= Len(s)
    <3>1. (s \o t)[i] = s[i] BY <2>1, <1>1 DEF Calm
    <3>2. i + s[i].n <= Len(s) /\ Mild(s[i]) /\ s[i].n \in Nat BY <2>1, <1>1, InstrField DEF Calm
    <3> QED BY <3>1, <3>2, <1>1 DEF Calm
  <2>2. CASE i > Len(s)
    <3> DEFINE k == i - Len(s)
    <3>1. k \in 1..Len(t) /\ (s \o t)[i] = t[k] BY <2>2, <1>1 DEF Calm
    <3>2. k + t[k].n <= Len(t) /\ Mild(t[k]) /\ t[k].n \in Nat BY <3>1, InstrField DEF Calm
    <3> QED BY <3>1, <3>2, <1>1 DEF Calm
  <2> QED BY <2>1, <2>2, <1>1
<1> QED BY <1>1, <1>2 DEF Calm

\* A branch over a part of what follows it.
LEMMA BranchCalm ==
  ASSUME NEW g \in Instrs, Mild(g), NEW r, Calm(r), g.n <= Len(r) PROVE Calm(<<g>> \o r)
<1>0. r \in Seq(Instrs) /\ Len(r) \in Nat
  BY DEF Calm
<1>1. <<g>> \o r \in Seq(Instrs) /\ Len(<<g>> \o r) = Len(r) + 1
  BY <1>0
<1>2. ASSUME NEW i \in 1..(Len(r) + 1)
      PROVE  Mild((<<g>> \o r)[i]) /\ i + (<<g>> \o r)[i].n <= Len(r) + 1
  <2>1. CASE i = 1
    <3>1. (<<g>> \o r)[i] = g BY <2>1, <1>0
    <3>2. g.n \in Nat BY DEF Instrs
    <3> QED BY <2>1, <3>1, <3>2, <1>0
  <2>2. CASE i # 1
    <3>1. i - 1 \in 1..Len(r) /\ (<<g>> \o r)[i] = r[i - 1] BY <2>2, <1>0
    <3>2. r[i - 1].n \in Nat BY <3>1, <1>0, InstrField
    <3> QED BY <3>1, <3>2, <1>0 DEF Calm
  <2> QED BY <2>1, <2>2
<1> QED BY <1>1, <1>2 DEF Calm

LEMMA GatedCalm ==
  ASSUME NEW clears \in Seq(Easy), NEW looks \in Seq(Easy) PROVE Calm(Gated(clears, looks))
<1> DEFINE g == Instr("gate", None, None, None, Len(looks) + 1)
           r == looks \o <<Still>> \o clears
<1>1. g \in Instrs /\ Mild(g) /\ g.n = Len(looks) + 1
  BY DEF Instr, Instrs, Ops, Args, None, Mild, Commanding
<1>2. r \in Seq(Easy) /\ Len(r) >= Len(looks) + 1 /\ Len(looks) \in Nat
  BY EasyMarks
<1>3. Gated(clears, looks) = <<g>> \o r
  BY EasyMarks DEF Gated
<1> HIDE DEF g, r
<1>4. Len(r) # 0
  BY <1>2
<1>5. Calm(r)
  BY <1>2, <1>4, EasyCalm
<1> QED BY <1>1, <1>2, <1>3, <1>5, BranchCalm

\* What the constructors of the programs give, with the membership of names.
LEMMA Named ==
  /\ {"abs", "rel", "slot", "cap", "light", "intensity", "park", "shutter", "motion", "hor", "align",
      "homing", "track", "guideNS", "guideWE", "abort", "exp", "ftype", "geo", "time",
      "rate", "trackRate", "autosync", "reverse", "sync", "bin", "cooler", "gain", "readout",
      "extra"} \subseteq Props \ Modal
  /\ {"eq", "mode", "points", "commit", "az"} \subseteq Props
  /\ {"go", "TRACK", "SYNC", "APPEND", "CLEAR", "PARK", "UNPARK", "on", "off"} \subseteq Args
  /\ {"move", "coverOp", "calOp", "azOp", "parkOp", "shutOp", "slew", "home", "guide", "exposure"}
       = Markers
BY DEF Props, Modal, Args, Markers

LEMMA SettingEasy ==
  ASSUME NEW v \in Props \ Modal
  PROVE  Setting(v) \in Seq(Easy) /\ Len(Setting(v)) = 3
<1>1. Need(v) \in Easy /\ Check \in Easy /\ Send(v, None, "go") \in Easy
  BY EasyLooks, EasyMarks, EasySends, Named
<1> QED BY <1>1 DEF Setting

LEMMA SettingPrograms ==
  /\ Calm(Action("extra")) /\ Calm(RotatorSetReverse) /\ Calm(SetSiteElevation)
  /\ Calm(SetUTCDate) /\ Calm(SetRightAscensionRate) /\ Calm(SetBin(2)) /\ Calm(SetBin(1))
  /\ Calm(SetControl) /\ Calm(SetReadoutMode)
<1>1. \A v \in Props \ Modal : Calm(Setting(v))
  BY SettingEasy, EasyCalm
<1>2. Calm(Action("extra"))
  <2>1. <<Available>> \in Seq(Easy) /\ Len(<<Available>>) # 0 BY EasyMarks
  <2>2. Calm(<<Available>>) BY <2>1, EasyCalm
  <2> QED BY <2>2, <1>1, CalmConcat, Named DEF Action
<1>3. Calm(SetUTCDate)
  <2>1. <<Check, Need("time")>> \in Seq(Easy) /\ Len(<<Check, Need("time")>>) # 0
    BY EasyMarks, EasyLooks, Named
  <2>2. Calm(<<Check, Need("time")>>) BY <2>1, EasyCalm
  <2> QED BY <2>2, <1>1, CalmConcat, Named DEF SetUTCDate
<1>4. Calm(SetBin(2))
  <2>1. <<Need("bin")>> \in Seq(Easy) /\ Len(<<Need("bin")>>) # 0 BY EasyLooks, Named
  <2>2. Calm(<<Need("bin")>>) BY <2>1, EasyCalm
  <2> QED BY <2>2, <1>1, CalmConcat, Named DEF SetBin
<1>5. Calm(SetBin(1))
  <2> DEFINE g == IfHas("bin", 3)
             r == Setting("bin")
  <2>1. g \in Instrs /\ Mild(g) /\ g.n = 3
    BY Named DEF IfHas, Instr, Instrs, Ops, Args, None, Mild, Commanding
  <2>2. r \in Seq(Instrs) /\ Calm(r) /\ Len(r) = 3
    BY <1>1, SettingEasy, Named DEF Calm
  <2>3. SetBin(1) = <<g>> \o r
    BY DEF SetBin
  <2> HIDE DEF g, r
  <2>4. g.n <= Len(r)
    BY <2>1, <2>2
  <2> QED BY <2>1, <2>2, <2>3, <2>4, BranchCalm
<1> QED BY <1>1, <1>2, <1>3, <1>4, <1>5, Named
        DEF RotatorSetReverse, SetSiteElevation, SetRightAscensionRate, SetControl, SetReadoutMode

\* A program written out.
LEMMA ListCalm ==
  /\ Calm(FocuserHalt) /\ Calm(RotatorHalt) /\ Calm(RotatorSync) /\ Calm(HaltCover)
  /\ Calm(DomeAbortSlew) /\ Calm(DomeSetSlaved) /\ Calm(DomeAtPark) /\ Calm(TelescopeAbortSlew)
  /\ Calm(TelescopeAtPark) /\ Calm(AtHome) /\ Calm(SetTracking) /\ Calm(SetTrackingRate)
  /\ Calm(MoveAxis("on")) /\ Calm(MoveAxis("off")) /\ Calm(AbortExposure) /\ Calm(SetCoolerOn)
<1> DEFINE Short(s) == s \in Seq(Easy) /\ Len(s) # 0
<1>1. /\ \A v \in {"abort", "sync", "track", "rate", "motion", "cooler", "autosync"} :
            Write(v, None, "go") \in Easy /\ Send(v, None, "go") \in Easy
      /\ Send("motion", None, "on") \in Easy /\ Send("motion", None, "off") \in Easy
  BY EasySends, Named
<1>2. /\ \A m \in Markers : Clear(m) \in Easy /\ Active(m) \in Easy
      /\ Axis("on") \in Easy /\ Axis("off") \in Easy /\ Since \in Easy /\ Check \in Easy
  BY EasyMarks, Named
<1>3. /\ \A v \in {"track", "rate", "motion", "park", "homing", "cooler", "autosync"} :
           /\ Need(v) \in Easy /\ Echo(v) \in Easy /\ Busy(v) \in Easy /\ Updated(v) \in Easy
           /\ IsOk(v) \in Easy /\ IsOn(v, "PARK") \in Easy
  BY EasyLooks, Named
<1> HIDE DEF Easy
<1>4. Short(FocuserHalt) /\ Short(RotatorHalt) /\ Short(RotatorSync) /\ Short(HaltCover)
  BY <1>1, <1>2, Named DEF FocuserHalt, RotatorHalt, RotatorSync, HaltCover
<1>5. Short(DomeAbortSlew) /\ Short(DomeSetSlaved) /\ Short(TelescopeAbortSlew)
  BY <1>1, <1>2, <1>3, Named DEF DomeAbortSlew, DomeSetSlaved, TelescopeAbortSlew
<1>6. Short(DomeAtPark) /\ Short(TelescopeAtPark) /\ Short(AtHome)
  BY <1>2, <1>3, Named DEF DomeAtPark, TelescopeAtPark, AtHome
<1>7. Short(SetTracking) /\ Short(SetTrackingRate)
  BY <1>1, <1>2, <1>3 DEF SetTracking, SetTrackingRate
<1>8. Short(MoveAxis("on")) /\ Short(MoveAxis("off")) /\ Short(AbortExposure) /\ Short(SetCoolerOn)
  BY <1>1, <1>2, <1>3, Named DEF MoveAxis, AbortExposure, SetCoolerOn
<1> QED BY <1>4, <1>5, <1>6, <1>7, <1>8, EasyCalm

LEMMA PollsCalm ==
  /\ Calm(FocuserIsMoving) /\ Calm(RotatorIsMoving) /\ Calm(FilterWheelMoving) /\ Calm(CoverState)
  /\ Calm(CalibratorState) /\ Calm(DomeSlewing) /\ Calm(TelescopeSlewing) /\ Calm(IsPulseGuiding)
  /\ Calm(CameraState)
<1>1. /\ \A m \in Markers : Clear(m) \in Easy /\ Active(m) \in Easy
      /\ AxisMoving \in Easy /\ Axis("off") \in Easy
  BY EasyMarks, Named
<1>2. \A v \in Props : Busy(v) \in Easy /\ Updated(v) \in Easy /\ NotAlert(v) \in Easy
                       /\ BusyOrAlert(v) \in Easy
  BY EasyLooks
<1>3. {"abs", "rel", "slot", "cap", "light", "intensity", "az", "park", "shutter", "motion", "hor",
       "homing", "guideNS", "guideWE", "exp", "eq"} \subseteq Props
  BY Named
<1> HIDE DEF Easy, Props, Markers
<1>4. Calm(FocuserIsMoving) /\ Calm(RotatorIsMoving) /\ Calm(FilterWheelMoving)
  <2>1. <<Clear("move")>> \in Seq(Easy) BY <1>1, Named
  <2>2. <<Busy("abs"), Busy("rel"), Updated("abs"), Active("move")>> \in Seq(Easy)
    BY <1>1, <1>2, <1>3, Named
  <2>3. <<Busy("abs"), Updated("abs"), Active("move")>> \in Seq(Easy) BY <1>1, <1>2, <1>3, Named
  <2>4. <<Busy("slot"), Updated("slot"), Active("move")>> \in Seq(Easy) BY <1>1, <1>2, <1>3, Named
  <2> QED BY <2>1, <2>2, <2>3, <2>4, GatedCalm DEF FocuserIsMoving, RotatorIsMoving, FilterWheelMoving
<1>5. Calm(CoverState)
  <2>1. <<Clear("coverOp")>> \in Seq(Easy) BY <1>1, Named
  <2>2. <<Busy("cap"), Updated("cap"), Active("coverOp")>> \in Seq(Easy) BY <1>1, <1>2, <1>3, Named
  <2>3. <<NotAlert("cap")>> \in Seq(Easy) /\ Len(<<NotAlert("cap")>>) # 0 BY <1>2, <1>3
  <2> QED BY <2>1, <2>2, <2>3, GatedCalm, EasyCalm, CalmConcat DEF CoverState, CoverMoving
<1>6. Calm(CalibratorState)
  <2>1. <<Clear("calOp")>> \in Seq(Easy) BY <1>1, Named
  <2>2. <<Busy("light"), Busy("intensity"), Updated("light"), Updated("intensity"), Active("calOp")>>
          \in Seq(Easy)
    BY <1>1, <1>2, <1>3, Named
  <2>3. <<NotAlert("light")>> \in Seq(Easy) /\ Len(<<NotAlert("light")>>) # 0 BY <1>2, <1>3
  <2> QED BY <2>1, <2>2, <2>3, GatedCalm, EasyCalm, CalmConcat DEF CalibratorState, CalibratorChanging
<1>7. Calm(DomeSlewing)
  <2>1. <<Clear("azOp"), Clear("parkOp"), Clear("shutOp")>> \in Seq(Easy) BY <1>1, Named
  <2>2. <<Busy("az"), Busy("rel"), Busy("motion"), Busy("park"), Busy("shutter"), Updated("az"),
          Active("azOp"), Updated("park"), Active("parkOp"), Updated("shutter"), Active("shutOp")>>
          \in Seq(Easy)
    BY <1>1, <1>2, <1>3, Named
  <2> QED BY <2>1, <2>2, GatedCalm DEF DomeSlewing
<1>8. Calm(TelescopeSlewing)
  <2>1. <<Axis("off"), Clear("slew"), Clear("parkOp"), Clear("home")>> \in Seq(Easy) BY <1>1, Named
  <2>2. <<Busy("eq"), Busy("hor"), Busy("park"), Busy("homing"), AxisMoving, Updated("eq"),
          Active("slew"), Updated("park"), Active("parkOp"), Updated("homing"), Active("home")>>
          \in Seq(Easy)
    BY <1>1, <1>2, <1>3, Named
  <2> QED BY <2>1, <2>2, GatedCalm DEF TelescopeSlewing
<1>9. Calm(IsPulseGuiding) /\ Calm(CameraState)
  <2>1. <<Clear("guide")>> \in Seq(Easy) /\ <<Clear("exposure")>> \in Seq(Easy) BY <1>1, Named
  <2>2. <<Busy("guideNS"), Busy("guideWE"), Updated("guideNS"), Updated("guideWE"), Active("guide")>>
          \in Seq(Easy)
    BY <1>1, <1>2, <1>3, Named
  <2>3. <<BusyOrAlert("exp"), Updated("exp"), Active("exposure")>> \in Seq(Easy)
    BY <1>1, <1>2, <1>3, Named
  <2> QED BY <2>1, <2>2, <2>3, GatedCalm DEF IsPulseGuiding, CameraState
<1> QED BY <1>4, <1>5, <1>6, <1>7, <1>8, <1>9

LEMMA WatchFacts ==
  /\ \A m \in Markers : Watch[m] \subseteq Props \ {"mode", "points", "commit", "abort", "rel", "hor"}
  /\ \A m \in Markers \ {"slew"} : "eq" \notin Watch[m]
  /\ \A m \in Markers \ {"azOp"} : "az" \notin Watch[m]
  /\ \A v \in {"abs", "slot"} : v \in Watch["move"]
  /\ \A v \in {"light", "intensity"} : v \in Watch["calOp"]
  /\ \A v \in {"guideNS", "guideWE"} : v \in Watch["guide"]
  /\ Watch["coverOp"] = {"cap"} /\ Watch["azOp"] = {"az"} /\ Watch["parkOp"] = {"park"}
  /\ Watch["shutOp"] = {"shutter"} /\ Watch["slew"] = {"eq"} /\ Watch["home"] = {"homing"}
  /\ Watch["exposure"] = {"exp"}
BY DEF Watch, Markers, Props

\* Most commands: look, set the marker, send.
LEMMA MarkedFine ==
  ASSUME NEW g \in Easy, NEW m \in Markers \ {"slew", "azOp"}, NEW v \in Watch[m], NEW a \in Args,
         NEW x \in {Send(v, m, a), Write(v, m, a)},
         x.op = "write" \/ Watch[m] = {v} \/ (g.op = "need" /\ g.v = v)
  PROVE  Fine(<<g, Start(m), x>>)
<1> DEFINE s == <<g, Start(m), x>>
<1>1. v \in Props /\ v \notin Modal /\ m # None
  BY WatchFacts DEF Modal, Markers, None
<1>2. /\ x \in Instrs /\ x.op \in Commanding /\ x.v = v /\ x.m = m /\ x.n = 0
  BY <1>1 DEF Send, Write, Instr, Instrs, Ops, Commanding
<1>3. Start(m) \in Instrs /\ Start(m).op = "start" /\ Start(m).m = m /\ Start(m).n = 0
  BY DEF Start, Instr, Instrs, Ops, Args, None
<1>4. g \in Instrs /\ Mild(g) /\ g.n = 0
  BY DEF Easy
<1>5. s \in Seq(Instrs) /\ Len(s) = 3 /\ s[1] = g /\ s[2] = Start(m) /\ s[3] = x
  BY <1>2, <1>3, <1>4
<1> HIDE DEF s
<1>6. WellFormed(s)
  BY <1>2, <1>3, <1>4, <1>5 DEF WellFormed, Commanding, Mild
<1>7. Spans(s, 2, 3)
  <2>1. g.op = "need" /\ g.v = v => Guards(s, 1, 3)
    BY <1>2, <1>5 DEF Guards
  <2> QED BY <1>2, <1>3, <1>5, <2>1 DEF Spans
<1>8. ASSUME NEW i \in 1..3
      PROVE  /\ Aimed(s[i]) /\ (s[i].op = "start" => i = 2)
             /\ ~(s[i].op \in Commanding /\ s[i].v \in Modal)
  <2>1. CASE i = 1 BY <2>1, <1>4, <1>5, MildAimed DEF Mild
  <2>2. CASE i = 2 BY <2>2, <1>3, <1>5 DEF Aimed, Commanding
  <2>3. CASE i = 3 BY <2>3, <1>1, <1>2, <1>5, WatchFacts DEF Aimed, Commanding, Modal
  <2> QED BY <2>1, <2>2, <2>3
<1>9. Fine(s)
  BY <1>5, <1>6, <1>7, <1>8 DEF Fine, Good, Keeps, Modal, Commanding
<1> QED BY <1>9 DEF s

LEMMA MarkedPrograms ==
  /\ Fine(FocuserMove) /\ Fine(RotatorMoveAbsolute) /\ Fine(FilterWheelSetPosition)
  /\ Fine(CoverParkCap) /\ Fine(CalibratorOff) /\ Fine(DomeShutter) /\ Fine(DomePark)
  /\ Fine(TelescopePark("PARK")) /\ Fine(TelescopePark("UNPARK")) /\ Fine(FindHome)
  /\ Fine(PulseGuide("guideNS")) /\ Fine(PulseGuide("guideWE"))
<1>1. \A v \in Props : Need(v) \in Easy /\ Need(v).op = "need" /\ Need(v).v = v
  BY EasyLooks DEF Need, Instr
<1>2. Available \in Easy
  BY EasyMarks
<1>3. \A v, m, a : Write(v, m, a).op = "write"
  BY DEF Write, Instr
<1>4. Fine(FocuserMove) /\ Fine(RotatorMoveAbsolute) /\ Fine(FilterWheelSetPosition)
  <2>1. ASSUME NEW g \in Easy, NEW v \in Watch["move"] PROVE Fine(<<g, Start("move"), Write(v, "move", "go")>>)
    BY <1>3, MarkedFine, Named
  <2> QED BY <1>1, <1>2, <2>1, Named, WatchFacts
          DEF FocuserMove, RotatorMoveAbsolute, FilterWheelSetPosition
<1>5. Fine(CoverParkCap)
  BY <1>1, MarkedFine, Named, WatchFacts DEF CoverParkCap
<1>6. Fine(CalibratorOff)
  BY <1>1, MarkedFine, Named, WatchFacts DEF CalibratorOff
<1>7. Fine(DomeShutter)
  BY <1>1, MarkedFine, Named, WatchFacts DEF DomeShutter
<1>8. Fine(DomePark)
  BY <1>1, MarkedFine, Named, WatchFacts DEF DomePark
<1>9. Fine(TelescopePark("PARK")) /\ Fine(TelescopePark("UNPARK"))
  BY <1>2, MarkedFine, Named, WatchFacts DEF TelescopePark
<1>10. Fine(FindHome)
  BY <1>1, MarkedFine, Named, WatchFacts DEF FindHome
<1>11. Fine(PulseGuide("guideNS")) /\ Fine(PulseGuide("guideWE"))
  BY <1>1, MarkedFine, Named, WatchFacts DEF PulseGuide
<1> QED BY <1>4, <1>5, <1>6, <1>7, <1>8, <1>9, <1>10, <1>11

LEMMA SnapFine ==
  ASSUME NEW s \in Seq(Instrs), Len(s) > 1, s[1].op = "snap", s[1].n = 0,
         s[2].op \in {"active", "axismoving"}, \A i \in 2..Len(s) : s[i] \in Easy
  PROVE  Fine(s)
<1>1. ASSUME NEW i \in 1..Len(s)
      PROVE  s[i].op # "start" /\ Aimed(s[i]) /\ ~(s[i].op \in Commanding /\ s[i].v \in Modal) /\ s[i].n = 0
  <2>1. CASE i = 1 BY <2>1 DEF Aimed, Commanding
  <2>2. CASE i # 1
    <3>1. Mild(s[i]) /\ s[i].n = 0 BY <2>2 DEF Easy
    <3> QED BY <3>1, MildAimed DEF Mild
  <2> QED BY <2>1, <2>2
<1>2. \A i \in 1..Len(s) : s[i].op = "snap" => i = 1
  BY DEF Easy, Mild
<1>3. WellFormed(s)
  BY <1>1, <1>2 DEF WellFormed
<1> QED BY <1>1, <1>3 DEF Fine, Good, Keeps, Modal, Commanding

LEMMA SnapPrograms ==
  Fine(FocuserDeviceState) /\ Fine(DomeShutterStatus) /\ Fine(CameraDeviceState)
  /\ Fine(TelescopeDeviceState)
<1>1. /\ \A v \in Props : /\ SnapNotAlert(v) \in Instrs /\ SnapNotAlert(v).op = "snap"
                          /\ SnapNotAlert(v).n = 0
      /\ \A v \in Props : \A vs \in SUBSET Props :
           Snap(v, vs) \in Instrs /\ Snap(v, vs).op = "snap" /\ Snap(v, vs).n = 0
  BY DEF SnapNotAlert, Snap, Instr, Instrs, Ops, Args, None
<1>2. /\ \A m \in Markers : Active(m) \in Easy /\ Active(m) \in Instrs /\ Active(m).op = "active"
      /\ AxisMoving \in Easy /\ AxisMoving \in Instrs /\ AxisMoving.op = "axismoving"
  BY EasyMarks DEF Easy, Active, AxisMoving, Instr
<1>3. ASSUME NEW x \in Instrs, x.op = "snap", x.n = 0, NEW m \in Markers
      PROVE  Fine(<<x, Active(m)>>)
  <2> DEFINE s == <<x, Active(m)>>
  <2>1. s \in Seq(Instrs) /\ Len(s) = 2 /\ s[1] = x /\ s[2] = Active(m)
    BY <1>2
  <2> HIDE DEF s
  <2>2. Fine(s)
    BY <1>2, <1>3, <2>1, SnapFine
  <2> QED BY <2>2 DEF s
<1>4. Fine(FocuserDeviceState) /\ Fine(DomeShutterStatus) /\ Fine(CameraDeviceState)
  BY <1>1, <1>3, Named DEF FocuserDeviceState, DomeShutterStatus, CameraDeviceState
<1>5. Fine(TelescopeDeviceState)
  <2> DEFINE x == Snap("eq", {"park", "homing"})
             s == <<x, AxisMoving, Active("slew"), Active("parkOp"), Active("home")>>
  <2>1. x \in Instrs /\ x.op = "snap" /\ x.n = 0
    BY <1>1, Named
  <2> HIDE DEF x
  <2>2. s \in Seq(Instrs) /\ Len(s) = 5 /\ s[1] = x /\ s[2] = AxisMoving
        /\ \A i \in 2..5 : s[i] \in Easy
    BY <2>1, <1>2, Named
  <2> HIDE DEF s
  <2>3. Len(s) > 1 /\ s[2].op \in {"active", "axismoving"} /\ \A i \in 2..Len(s) : s[i] \in Easy
    BY <1>2, <2>2
  <2>4. Fine(s)
    BY <2>1, <2>2, <2>3, SnapFine
  <2> QED BY <2>4 DEF s, x, TelescopeDeviceState
<1> QED BY <1>4, <1>5

\* The others, one by one.
LEMMA RotatorMoveRelativeListed ==
  ASSUME NEW s, s = RotatorMoveRelative
  PROVE  /\ s \in Seq(Instrs) /\ Len(s) = 8
         /\ s[1].op = "avail" /\ s[1].v = None /\ s[1].m = None /\ s[1].a = None /\ s[1].n = 0
         /\ s[2].op = "if" /\ s[2].v = "rel" /\ s[2].m = None /\ s[2].a = None /\ s[2].n = 3
         /\ s[3].op = "start" /\ s[3].v = None /\ s[3].m = "move" /\ s[3].a = None /\ s[3].n = 0
         /\ s[4].op = "send" /\ s[4].v = "rel" /\ s[4].m = "move" /\ s[4].a = "go" /\ s[4].n = 0
         /\ s[5].op = "return" /\ s[5].v = None /\ s[5].m = None /\ s[5].a = None /\ s[5].n = 0
         /\ s[6].op = "avail" /\ s[6].v = None /\ s[6].m = None /\ s[6].a = None /\ s[6].n = 0
         /\ s[7].op = "start" /\ s[7].v = None /\ s[7].m = "move" /\ s[7].a = None /\ s[7].n = 0
         /\ s[8].op = "write" /\ s[8].v = "abs" /\ s[8].m = "move" /\ s[8].a = "go" /\ s[8].n = 0
<1>1. {Available, IfHas("rel", 3), Start("move"), Send("rel", "move", "go"), Return, Write("abs", "move", "go")}
        \subseteq Instrs
  BY Named DEF Instr, Instrs, Ops, Args, None, Available, IfHas, Return, Send, Start, Write
<1>2. /\ s \in Seq(Instrs) /\ Len(s) = 8
      /\ s[1] = Available /\ s[2] = IfHas("rel", 3) /\ s[3] = Start("move")
      /\ s[4] = Send("rel", "move", "go") /\ s[5] = Return /\ s[6] = Available
      /\ s[7] = Start("move") /\ s[8] = Write("abs", "move", "go")
  BY <1>1 DEF RotatorMoveRelative, RotatorMoveAbsolute
<1> QED BY <1>2 DEF Instr, Available, IfHas, Return, Send, Start, Write

LEMMA RotatorMoveRelativeFine == Fine(RotatorMoveRelative)
<1> DEFINE s == RotatorMoveRelative
<1> HIDE DEF s
<1>1. s = RotatorMoveRelative
  BY DEF s
<1>2. s \in Seq(Instrs) /\ Len(s) = 8 /\ \A i \in 1..8 : i + s[i].n <= 8 /\ s[i].op # "snap"
  BY RotatorMoveRelativeListed, <1>1
<1>3. WellFormed(s)
  BY <1>2 DEF WellFormed
<1>4. Guards(s, 2, 4)
  BY RotatorMoveRelativeListed, <1>1 DEF Guards
<1>5. Spans(s, 3, 4)
  BY <1>4, RotatorMoveRelativeListed, <1>1, Named, WatchFacts DEF Spans, Commanding
<1>6. Spans(s, 7, 8)
  BY RotatorMoveRelativeListed, <1>1, Named, WatchFacts DEF Spans, Commanding
<1>7. \A i \in 1..8 : Aimed(s[i])
  BY RotatorMoveRelativeListed, <1>1, Named, WatchFacts DEF Aimed, Commanding, None
<1>8. \A i \in 1..8 : /\ s[i].op = "start" => i \in {3, 7}
                      /\ s[i].op = "send" /\ s[i].v = "eq" => i \in {}
                      /\ s[i].op = "send" /\ s[i].v = "commit" => i \in {}
                      /\ s[i].v # "az"
  BY RotatorMoveRelativeListed, <1>1 DEF None
<1>9. Good(s)
  BY <1>2, <1>3, <1>5, <1>6, <1>7, <1>8 DEF Good
<1>10. Keeps(s)
  BY RotatorMoveRelativeListed, <1>1, <1>2 DEF Keeps
<1> QED BY <1>1, <1>9, <1>10 DEF Fine

LEMMA CalibratorOnListed ==
  ASSUME NEW s, s = CalibratorOn
  PROVE  /\ s \in Seq(Instrs) /\ Len(s) = 5
         /\ s[1].op = "need" /\ s[1].v = "light" /\ s[1].m = None /\ s[1].a = None /\ s[1].n = 0
         /\ s[2].op = "start" /\ s[2].v = None /\ s[2].m = "calOp" /\ s[2].a = None /\ s[2].n = 0
         /\ s[3].op = "if" /\ s[3].v = "intensity" /\ s[3].m = None /\ s[3].a = None /\ s[3].n = 1
         /\ s[4].op = "write" /\ s[4].v = "intensity" /\ s[4].m = "calOp" /\ s[4].a = "go" /\ s[4].n = 0
         /\ s[5].op = "send" /\ s[5].v = "light" /\ s[5].m = "calOp" /\ s[5].a = "go" /\ s[5].n = 0
<1>1. {Need("light"), Start("calOp"), IfHas("intensity", 1), Write("intensity", "calOp", "go"), Send("light", "calOp", "go")}
        \subseteq Instrs
  BY Named DEF Instr, Instrs, Ops, Args, None, IfHas, Need, Send, Start, Write
<1>2. /\ s \in Seq(Instrs) /\ Len(s) = 5
      /\ s[1] = Need("light") /\ s[2] = Start("calOp") /\ s[3] = IfHas("intensity", 1)
      /\ s[4] = Write("intensity", "calOp", "go") /\ s[5] = Send("light", "calOp", "go")
  BY <1>1 DEF CalibratorOn
<1> QED BY <1>2 DEF Instr, IfHas, Need, Send, Start, Write

LEMMA CalibratorOnFine == Fine(CalibratorOn)
<1> DEFINE s == CalibratorOn
<1> HIDE DEF s
<1>1. s = CalibratorOn
  BY DEF s
<1>2. s \in Seq(Instrs) /\ Len(s) = 5 /\ \A i \in 1..5 : i + s[i].n <= 5 /\ s[i].op # "snap"
  BY CalibratorOnListed, <1>1
<1>3. WellFormed(s)
  BY <1>2 DEF WellFormed
<1>4. Guards(s, 1, 5)
  BY CalibratorOnListed, <1>1 DEF Guards
<1>5. Spans(s, 2, 5)
  BY <1>4, CalibratorOnListed, <1>1, Named, WatchFacts DEF Spans, Commanding
<1>6. \A i \in 1..5 : Aimed(s[i])
  BY CalibratorOnListed, <1>1, Named, WatchFacts DEF Aimed, Commanding, None
<1>7. \A i \in 1..5 : /\ s[i].op = "start" => i \in {2}
                      /\ s[i].op = "send" /\ s[i].v = "eq" => i \in {}
                      /\ s[i].op = "send" /\ s[i].v = "commit" => i \in {}
                      /\ s[i].v # "az"
  BY CalibratorOnListed, <1>1 DEF None
<1>8. Good(s)
  BY <1>2, <1>3, <1>5, <1>6, <1>7 DEF Good
<1>9. Keeps(s)
  BY CalibratorOnListed, <1>1, <1>2 DEF Keeps
<1> QED BY <1>1, <1>8, <1>9 DEF Fine

LEMMA DomeSlewToAzimuthListed ==
  ASSUME NEW s, s = DomeSlewToAzimuth
  PROVE  /\ s \in Seq(Instrs) /\ Len(s) = 10
         /\ s[1].op = "avail" /\ s[1].v = None /\ s[1].m = None /\ s[1].a = None /\ s[1].n = 0
         /\ s[2].op = "if" /\ s[2].v = "park" /\ s[2].m = None /\ s[2].a = None /\ s[2].n = 6
         /\ s[3].op = "if" /\ s[3].v = "park" /\ s[3].m = None /\ s[3].a = "PARK" /\ s[3].n = 5
         /\ s[4].op = "since" /\ s[4].v = None /\ s[4].m = None /\ s[4].a = None /\ s[4].n = 0
         /\ s[5].op = "start" /\ s[5].v = None /\ s[5].m = "parkOp" /\ s[5].a = None /\ s[5].n = 0
         /\ s[6].op = "send" /\ s[6].v = "park" /\ s[6].m = "parkOp" /\ s[6].a = "UNPARK" /\ s[6].n = 0
         /\ s[7].op = "settle" /\ s[7].v = "park" /\ s[7].m = "parkOp" /\ s[7].a = None /\ s[7].n = 0
         /\ s[8].op = "clear" /\ s[8].v = None /\ s[8].m = "parkOp" /\ s[8].a = None /\ s[8].n = 0
         /\ s[9].op = "start" /\ s[9].v = None /\ s[9].m = "azOp" /\ s[9].a = None /\ s[9].n = 0
         /\ s[10].op = "write" /\ s[10].v = "az" /\ s[10].m = "azOp" /\ s[10].a = "go" /\ s[10].n = 0
<1>1. {Available, IfHas("park", 6), IfOn("park", "PARK", 5), Since, Start("parkOp"), Send("park", "parkOp", "UNPARK"), Settle("park", "parkOp"), Clear("parkOp"), Start("azOp"), Write("az", "azOp", "go")}
        \subseteq Instrs
  BY Named DEF Instr, Instrs, Ops, Args, None, Available, Clear, IfHas, IfOn, Send, Settle, Since, Start, Write
<1>2. /\ s \in Seq(Instrs) /\ Len(s) = 10
      /\ s[1] = Available /\ s[2] = IfHas("park", 6) /\ s[3] = IfOn("park", "PARK", 5)
      /\ s[4] = Since /\ s[5] = Start("parkOp") /\ s[6] = Send("park", "parkOp", "UNPARK")
      /\ s[7] = Settle("park", "parkOp") /\ s[8] = Clear("parkOp") /\ s[9] = Start("azOp")
      /\ s[10] = Write("az", "azOp", "go")
  BY <1>1 DEF DomeSlewToAzimuth, UnparkForMotion
<1> QED BY <1>2 DEF Instr, Available, Clear, IfHas, IfOn, Send, Settle, Since, Start, Write

LEMMA DomeSlewToAzimuthFine == Fine(DomeSlewToAzimuth)
<1> DEFINE s == DomeSlewToAzimuth
<1> HIDE DEF s
<1>1. s = DomeSlewToAzimuth
  BY DEF s
<1>2. s \in Seq(Instrs) /\ Len(s) = 10 /\ \A i \in 1..10 : i + s[i].n <= 10 /\ s[i].op # "snap"
  <2>1. s \in Seq(Instrs) /\ Len(s) = 10
    BY DomeSlewToAzimuthListed, <1>1
  <2>2. \A i \in 1..10 : s[i].op # "snap"
    BY DomeSlewToAzimuthListed, <1>1
  <2>3. ASSUME NEW i \in 1..10 PROVE i + s[i].n <= 10
    <3>1. CASE i <= 5 BY <3>1, DomeSlewToAzimuthListed, <1>1
    <3>2. CASE i > 5 BY <3>2, DomeSlewToAzimuthListed, <1>1
    <3> QED BY <3>1, <3>2
  <2> QED BY <2>1, <2>2, <2>3
<1>3. WellFormed(s)
  BY <1>2 DEF WellFormed
<1>4. Spans(s, 5, 6)
  BY DomeSlewToAzimuthListed, <1>1, Named, WatchFacts DEF Spans, Commanding
<1>5. Spans(s, 9, 10)
  BY DomeSlewToAzimuthListed, <1>1, Named, WatchFacts DEF Spans, Commanding
<1>6. ASSUME NEW i \in 1..10 PROVE Aimed(s[i])
  <2>1. CASE i <= 5 BY <2>1, DomeSlewToAzimuthListed, <1>1 DEF Aimed, Commanding
  <2>2. CASE i = 6 BY <2>2, DomeSlewToAzimuthListed, <1>1, WatchFacts DEF Aimed, None
  <2>3. CASE i \in 7..9 BY <2>3, DomeSlewToAzimuthListed, <1>1, Named DEF Aimed, Commanding
  <2>4. CASE i = 10 BY <2>4, DomeSlewToAzimuthListed, <1>1, WatchFacts DEF Aimed, None
  <2> QED BY <2>1, <2>2, <2>3, <2>4
<1>7. \A i \in 1..10 : /\ s[i].op = "start" => i \in {5, 9}
                       /\ s[i].op = "send" /\ s[i].v = "eq" => i \in {}
                       /\ s[i].op = "send" /\ s[i].v = "commit" => i \in {}
  BY DomeSlewToAzimuthListed, <1>1 DEF None
<1>8. Good(s)
  BY <1>1, <1>2, <1>3, <1>4, <1>5, <1>6, <1>7 DEF Good
<1>9. Keeps(s)
  BY DomeSlewToAzimuthListed, <1>1, <1>2 DEF Keeps
<1> QED BY <1>1, <1>8, <1>9 DEF Fine

LEMMA SlewAsyncListed ==
  ASSUME NEW s, s = SlewAsync
  PROVE  /\ s \in Seq(Instrs) /\ Len(s) = 5
         /\ s[1].op = "avail" /\ s[1].v = None /\ s[1].m = None /\ s[1].a = None /\ s[1].n = 0
         /\ s[2].op = "if" /\ s[2].v = "mode" /\ s[2].m = None /\ s[2].a = None /\ s[2].n = 1
         /\ s[3].op = "send" /\ s[3].v = "mode" /\ s[3].m = None /\ s[3].a = "TRACK" /\ s[3].n = 0
         /\ s[4].op = "start" /\ s[4].v = None /\ s[4].m = "slew" /\ s[4].a = None /\ s[4].n = 0
         /\ s[5].op = "send" /\ s[5].v = "eq" /\ s[5].m = "slew" /\ s[5].a = "TRACK" /\ s[5].n = 0
<1>1. {Available, IfHas("mode", 1), Send("mode", None, "TRACK"), Start("slew"), Send("eq", "slew", "TRACK")}
        \subseteq Instrs
  BY Named DEF Instr, Instrs, Ops, Args, None, Available, IfHas, Send, Start
<1>2. /\ s \in Seq(Instrs) /\ Len(s) = 5
      /\ s[1] = Available /\ s[2] = IfHas("mode", 1) /\ s[3] = Send("mode", None, "TRACK")
      /\ s[4] = Start("slew") /\ s[5] = Send("eq", "slew", "TRACK")
  BY <1>1 DEF SlewAsync, SetCoordMode
<1> QED BY <1>2 DEF Instr, Available, IfHas, Send, Start

LEMMA SlewAsyncFine == Fine(SlewAsync)
<1> DEFINE s == SlewAsync
<1> HIDE DEF s
<1>1. s = SlewAsync
  BY DEF s
<1>2. s \in Seq(Instrs) /\ Len(s) = 5 /\ \A i \in 1..5 : i + s[i].n <= 5 /\ s[i].op # "snap"
  BY SlewAsyncListed, <1>1
<1>3. WellFormed(s)
  BY <1>2 DEF WellFormed
<1>4. Spans(s, 4, 5)
  BY SlewAsyncListed, <1>1, Named, WatchFacts DEF Spans, Commanding
<1>5. Chooses(s, 2, 5, "mode")
  BY SlewAsyncListed, <1>1 DEF Chooses
<1>6. \A i \in 1..5 : Aimed(s[i])
  BY SlewAsyncListed, <1>1, Named, WatchFacts DEF Aimed, Commanding, None
<1>7. \A i \in 1..5 : /\ s[i].op = "start" => i \in {4}
                      /\ s[i].op = "send" /\ s[i].v = "eq" => i \in {5}
                      /\ s[i].op = "send" /\ s[i].v = "commit" => i \in {}
                      /\ s[i].v # "az"
  BY SlewAsyncListed, <1>1 DEF None
<1>8. Good(s)
  BY <1>2, <1>3, <1>4, <1>5, <1>6, <1>7 DEF Good
<1>9. Keeps(s)
  BY SlewAsyncListed, <1>1, <1>2 DEF Keeps
<1> QED BY <1>1, <1>8, <1>9 DEF Fine

LEMMA SlewSyncListed ==
  ASSUME NEW s, s = SlewSync
  PROVE  /\ s \in Seq(Instrs) /\ Len(s) = 7
         /\ s[1].op = "since" /\ s[1].v = None /\ s[1].m = None /\ s[1].a = None /\ s[1].n = 0
         /\ s[2].op = "avail" /\ s[2].v = None /\ s[2].m = None /\ s[2].a = None /\ s[2].n = 0
         /\ s[3].op = "if" /\ s[3].v = "mode" /\ s[3].m = None /\ s[3].a = None /\ s[3].n = 1
         /\ s[4].op = "send" /\ s[4].v = "mode" /\ s[4].m = None /\ s[4].a = "TRACK" /\ s[4].n = 0
         /\ s[5].op = "start" /\ s[5].v = None /\ s[5].m = "slew" /\ s[5].a = None /\ s[5].n = 0
         /\ s[6].op = "send" /\ s[6].v = "eq" /\ s[6].m = "slew" /\ s[6].a = "TRACK" /\ s[6].n = 0
         /\ s[7].op = "settle" /\ s[7].v = "eq" /\ s[7].m = None /\ s[7].a = None /\ s[7].n = 0
<1>1. {Since, Available, IfHas("mode", 1), Send("mode", None, "TRACK"), Start("slew"), Send("eq", "slew", "TRACK"), Settle("eq", None)}
        \subseteq Instrs
  BY Named DEF Instr, Instrs, Ops, Args, None, Available, IfHas, Send, Settle, Since, Start
<1>2. /\ s \in Seq(Instrs) /\ Len(s) = 7
      /\ s[1] = Since /\ s[2] = Available /\ s[3] = IfHas("mode", 1)
      /\ s[4] = Send("mode", None, "TRACK") /\ s[5] = Start("slew") /\ s[6] = Send("eq", "slew", "TRACK")
      /\ s[7] = Settle("eq", None)
  BY <1>1 DEF SlewSync, SlewAsync, SetCoordMode
<1> QED BY <1>2 DEF Instr, Available, IfHas, Send, Settle, Since, Start

LEMMA SlewSyncFine == Fine(SlewSync)
<1> DEFINE s == SlewSync
<1> HIDE DEF s
<1>1. s = SlewSync
  BY DEF s
<1>2. s \in Seq(Instrs) /\ Len(s) = 7 /\ \A i \in 1..7 : i + s[i].n <= 7 /\ s[i].op # "snap"
  BY SlewSyncListed, <1>1
<1>3. WellFormed(s)
  BY <1>2 DEF WellFormed
<1>4. Spans(s, 5, 6)
  BY SlewSyncListed, <1>1, Named, WatchFacts DEF Spans, Commanding
<1>5. Chooses(s, 3, 6, "mode")
  BY SlewSyncListed, <1>1 DEF Chooses
<1>6. \A i \in 1..7 : Aimed(s[i])
  BY SlewSyncListed, <1>1, Named, WatchFacts DEF Aimed, Commanding, None
<1>7. \A i \in 1..7 : /\ s[i].op = "start" => i \in {5}
                      /\ s[i].op = "send" /\ s[i].v = "eq" => i \in {6}
                      /\ s[i].op = "send" /\ s[i].v = "commit" => i \in {}
                      /\ s[i].v # "az"
  BY SlewSyncListed, <1>1 DEF None
<1>8. Good(s)
  BY <1>2, <1>3, <1>4, <1>5, <1>6, <1>7 DEF Good
<1>9. Keeps(s)
  BY SlewSyncListed, <1>1, <1>2 DEF Keeps
<1> QED BY <1>1, <1>8, <1>9 DEF Fine

LEMMA SlewAltAzListed ==
  ASSUME NEW s, s = SlewAltAz
  PROVE  /\ s \in Seq(Instrs) /\ Len(s) = 5
         /\ s[1].op = "since" /\ s[1].v = None /\ s[1].m = None /\ s[1].a = None /\ s[1].n = 0
         /\ s[2].op = "need" /\ s[2].v = "hor" /\ s[2].m = None /\ s[2].a = None /\ s[2].n = 0
         /\ s[3].op = "start" /\ s[3].v = None /\ s[3].m = "slew" /\ s[3].a = None /\ s[3].n = 0
         /\ s[4].op = "send" /\ s[4].v = "hor" /\ s[4].m = "slew" /\ s[4].a = "go" /\ s[4].n = 0
         /\ s[5].op = "settle" /\ s[5].v = "hor" /\ s[5].m = None /\ s[5].a = None /\ s[5].n = 0
<1>1. {Since, Need("hor"), Start("slew"), Send("hor", "slew", "go"), Settle("hor", None)}
        \subseteq Instrs
  BY Named DEF Instr, Instrs, Ops, Args, None, Need, Send, Settle, Since, Start
<1>2. /\ s \in Seq(Instrs) /\ Len(s) = 5
      /\ s[1] = Since /\ s[2] = Need("hor") /\ s[3] = Start("slew")
      /\ s[4] = Send("hor", "slew", "go") /\ s[5] = Settle("hor", None)
  BY <1>1 DEF SlewAltAz, SlewAltAzAsync
<1> QED BY <1>2 DEF Instr, Need, Send, Settle, Since, Start

LEMMA SlewAltAzFine == Fine(SlewAltAz)
<1> DEFINE s == SlewAltAz
<1> HIDE DEF s
<1>1. s = SlewAltAz
  BY DEF s
<1>2. s \in Seq(Instrs) /\ Len(s) = 5 /\ \A i \in 1..5 : i + s[i].n <= 5 /\ s[i].op # "snap"
  BY SlewAltAzListed, <1>1
<1>3. WellFormed(s)
  BY <1>2 DEF WellFormed
<1>4. Guards(s, 2, 4)
  BY SlewAltAzListed, <1>1 DEF Guards
<1>5. Spans(s, 3, 4)
  BY <1>4, SlewAltAzListed, <1>1, Named, WatchFacts DEF Spans, Commanding
<1>6. \A i \in 1..5 : Aimed(s[i])
  BY SlewAltAzListed, <1>1, Named, WatchFacts DEF Aimed, Commanding, None
<1>7. \A i \in 1..5 : /\ s[i].op = "start" => i \in {3}
                      /\ s[i].op = "send" /\ s[i].v = "eq" => i \in {}
                      /\ s[i].op = "send" /\ s[i].v = "commit" => i \in {}
                      /\ s[i].v # "az"
  BY SlewAltAzListed, <1>1 DEF None
<1>8. Good(s)
  BY <1>2, <1>3, <1>5, <1>6, <1>7 DEF Good
<1>9. Keeps(s)
  BY SlewAltAzListed, <1>1, <1>2 DEF Keeps
<1> QED BY <1>1, <1>8, <1>9 DEF Fine

LEMMA StartExposureListed ==
  ASSUME NEW s, s = StartExposure
  PROVE  /\ s \in Seq(Instrs) /\ Len(s) = 5
         /\ s[1].op = "avail" /\ s[1].v = None /\ s[1].m = None /\ s[1].a = None /\ s[1].n = 0
         /\ s[2].op = "if" /\ s[2].v = "ftype" /\ s[2].m = None /\ s[2].a = None /\ s[2].n = 1
         /\ s[3].op = "send" /\ s[3].v = "ftype" /\ s[3].m = None /\ s[3].a = "go" /\ s[3].n = 0
         /\ s[4].op = "start" /\ s[4].v = None /\ s[4].m = "exposure" /\ s[4].a = None /\ s[4].n = 0
         /\ s[5].op = "write" /\ s[5].v = "exp" /\ s[5].m = "exposure" /\ s[5].a = "go" /\ s[5].n = 0
<1>1. {Available, IfHas("ftype", 1), Send("ftype", None, "go"), Start("exposure"), Write("exp", "exposure", "go")}
        \subseteq Instrs
  BY Named DEF Instr, Instrs, Ops, Args, None, Available, IfHas, Send, Start, Write
<1>2. /\ s \in Seq(Instrs) /\ Len(s) = 5
      /\ s[1] = Available /\ s[2] = IfHas("ftype", 1) /\ s[3] = Send("ftype", None, "go")
      /\ s[4] = Start("exposure") /\ s[5] = Write("exp", "exposure", "go")
  BY <1>1 DEF StartExposure
<1> QED BY <1>2 DEF Instr, Available, IfHas, Send, Start, Write

LEMMA StartExposureFine == Fine(StartExposure)
<1> DEFINE s == StartExposure
<1> HIDE DEF s
<1>1. s = StartExposure
  BY DEF s
<1>2. s \in Seq(Instrs) /\ Len(s) = 5 /\ \A i \in 1..5 : i + s[i].n <= 5 /\ s[i].op # "snap"
  BY StartExposureListed, <1>1
<1>3. WellFormed(s)
  BY <1>2 DEF WellFormed
<1>4. Spans(s, 4, 5)
  BY StartExposureListed, <1>1, Named, WatchFacts DEF Spans, Commanding
<1>5. \A i \in 1..5 : Aimed(s[i])
  BY StartExposureListed, <1>1, Named, WatchFacts DEF Aimed, Commanding, None
<1>6. \A i \in 1..5 : /\ s[i].op = "start" => i \in {4}
                      /\ s[i].op = "send" /\ s[i].v = "eq" => i \in {}
                      /\ s[i].op = "send" /\ s[i].v = "commit" => i \in {}
                      /\ s[i].v # "az"
  BY StartExposureListed, <1>1 DEF None
<1>7. Good(s)
  BY <1>2, <1>3, <1>4, <1>5, <1>6 DEF Good
<1>8. Keeps(s)
  BY StartExposureListed, <1>1, <1>2 DEF Keeps
<1> QED BY <1>1, <1>7, <1>8 DEF Fine

LEMMA SyncCoordsListed ==
  ASSUME NEW s, s = SyncCoords
  PROVE  /\ s \in Seq(Instrs) /\ Len(s) = 9
         /\ s[1].op = "if" /\ s[1].v = "align" /\ s[1].m = None /\ s[1].a = None /\ s[1].n = 2
         /\ s[2].op = "ifnot" /\ s[2].v = "align" /\ s[2].m = None /\ s[2].a = "go" /\ s[2].n = 1
         /\ s[3].op = "send" /\ s[3].v = "align" /\ s[3].m = None /\ s[3].a = "go" /\ s[3].n = 0
         /\ s[4].op = "if" /\ s[4].v = "mode" /\ s[4].m = None /\ s[4].a = None /\ s[4].n = 1
         /\ s[5].op = "send" /\ s[5].v = "mode" /\ s[5].m = None /\ s[5].a = "SYNC" /\ s[5].n = 0
         /\ s[6].op = "send" /\ s[6].v = "eq" /\ s[6].m = None /\ s[6].a = "SYNC" /\ s[6].n = 0
         /\ s[7].op = "syncseen" /\ s[7].v = "eq" /\ s[7].m = None /\ s[7].a = None /\ s[7].n = 0
         /\ s[8].op = "if" /\ s[8].v = "mode" /\ s[8].m = None /\ s[8].a = None /\ s[8].n = 1
         /\ s[9].op = "send" /\ s[9].v = "mode" /\ s[9].m = None /\ s[9].a = "TRACK" /\ s[9].n = 0
<1>1. {IfHas("align", 2), IfOff("align", "go", 1), Send("align", None, "go"), IfHas("mode", 1), Send("mode", None, "SYNC"), Send("eq", None, "SYNC"), SyncSeen("eq"), Send("mode", None, "TRACK")}
        \subseteq Instrs
  BY Named DEF Instr, Instrs, Ops, Args, None, IfHas, IfOff, Send, SyncSeen
<1>2. /\ s \in Seq(Instrs) /\ Len(s) = 9
      /\ s[1] = IfHas("align", 2) /\ s[2] = IfOff("align", "go", 1) /\ s[3] = Send("align", None, "go")
      /\ s[4] = IfHas("mode", 1) /\ s[5] = Send("mode", None, "SYNC") /\ s[6] = Send("eq", None, "SYNC")
      /\ s[7] = SyncSeen("eq") /\ s[8] = IfHas("mode", 1) /\ s[9] = Send("mode", None, "TRACK")
  BY <1>1 DEF SyncCoords, SetCoordMode
<1> QED BY <1>2 DEF Instr, IfHas, IfOff, Send, SyncSeen

LEMMA SyncCoordsFine == Good(SyncCoords)
<1> DEFINE s == SyncCoords
<1> HIDE DEF s
<1>1. s = SyncCoords
  BY DEF s
<1>2. s \in Seq(Instrs) /\ Len(s) = 9 /\ \A i \in 1..9 : i + s[i].n <= 9 /\ s[i].op # "snap"
  <2>1. s \in Seq(Instrs) /\ Len(s) = 9
    BY SyncCoordsListed, <1>1
  <2>2. \A i \in 1..9 : s[i].op # "snap"
    BY SyncCoordsListed, <1>1
  <2>3. ASSUME NEW i \in 1..9 PROVE i + s[i].n <= 9
    <3>1. CASE i <= 4 BY <3>1, SyncCoordsListed, <1>1
    <3>2. CASE i > 4 BY <3>2, SyncCoordsListed, <1>1
    <3> QED BY <3>1, <3>2
  <2> QED BY <2>1, <2>2, <2>3
<1>3. WellFormed(s)
  BY <1>2 DEF WellFormed
<1>4. Chooses(s, 4, 6, "mode")
  BY SyncCoordsListed, <1>1 DEF Chooses
<1>5. \A i \in 1..9 : Aimed(s[i])
  BY SyncCoordsListed, <1>1, Named, WatchFacts, SMTT(30) DEF Aimed, Commanding, None
<1>6. ASSUME NEW i \in 1..9
      PROVE  /\ s[i].op = "start" => i \in {}
             /\ s[i].op = "send" /\ s[i].v = "eq" => i \in {6}
             /\ s[i].op = "send" /\ s[i].v = "commit" => i \in {}
             /\ s[i].v # "az"
  <2>1. CASE i <= 4 BY <2>1, SyncCoordsListed, <1>1 DEF None
  <2>2. CASE i > 4 BY <2>2, SyncCoordsListed, <1>1 DEF None
  <2> QED BY <2>1, <2>2
<1>7. Good(s)
  BY <1>2, <1>3, <1>4, <1>5, <1>6 DEF Good
<1> QED BY <1>1, <1>7

LEMMA SetSiteListed ==
  ASSUME NEW s, s = SetSite
  PROVE  /\ s \in Seq(Instrs) /\ Len(s) = 7
         /\ s[1].op = "need" /\ s[1].v = "geo" /\ s[1].m = None /\ s[1].a = None /\ s[1].n = 0
         /\ s[2].op = "check" /\ s[2].v = None /\ s[2].m = None /\ s[2].a = None /\ s[2].n = 0
         /\ s[3].op = "send" /\ s[3].v = "geo" /\ s[3].m = None /\ s[3].a = "go" /\ s[3].n = 0
         /\ s[4].op = "if" /\ s[4].v = "points" /\ s[4].m = None /\ s[4].a = None /\ s[4].n = 3
         /\ s[5].op = "send" /\ s[5].v = "points" /\ s[5].m = None /\ s[5].a = "CLEAR" /\ s[5].n = 0
         /\ s[6].op = "send" /\ s[6].v = "commit" /\ s[6].m = None /\ s[6].a = "CLEAR" /\ s[6].n = 0
         /\ s[7].op = "send" /\ s[7].v = "points" /\ s[7].m = None /\ s[7].a = "APPEND" /\ s[7].n = 0
<1>1. {Need("geo"), Check, Send("geo", None, "go"), IfHas("points", 3), Send("points", None, "CLEAR"), Send("commit", None, "CLEAR"), Send("points", None, "APPEND")}
        \subseteq Instrs
  BY Named DEF Instr, Instrs, Ops, Args, None, Check, IfHas, Need, Send
<1>2. /\ s \in Seq(Instrs) /\ Len(s) = 7
      /\ s[1] = Need("geo") /\ s[2] = Check /\ s[3] = Send("geo", None, "go")
      /\ s[4] = IfHas("points", 3) /\ s[5] = Send("points", None, "CLEAR") /\ s[6] = Send("commit", None, "CLEAR")
      /\ s[7] = Send("points", None, "APPEND")
  BY <1>1 DEF SetSite, Setting
<1> QED BY <1>2 DEF Instr, Check, IfHas, Need, Send

LEMMA SetSiteFine == Good(SetSite)
<1> DEFINE s == SetSite
<1> HIDE DEF s
<1>1. s = SetSite
  BY DEF s
<1>2. s \in Seq(Instrs) /\ Len(s) = 7 /\ \A i \in 1..7 : i + s[i].n <= 7 /\ s[i].op # "snap"
  BY SetSiteListed, <1>1
<1>3. WellFormed(s)
  BY <1>2 DEF WellFormed
<1>4. Chooses(s, 4, 6, "points")
  BY SetSiteListed, <1>1 DEF Chooses
<1>5. \A i \in 1..7 : Aimed(s[i])
  BY SetSiteListed, <1>1, Named, WatchFacts DEF Aimed, Commanding, None
<1>6. \A i \in 1..7 : /\ s[i].op = "start" => i \in {}
                      /\ s[i].op = "send" /\ s[i].v = "eq" => i \in {}
                      /\ s[i].op = "send" /\ s[i].v = "commit" => i \in {6}
                      /\ s[i].v # "az"
  BY SetSiteListed, <1>1 DEF None
<1>7. Good(s)
  BY <1>2, <1>3, <1>4, <1>5, <1>6 DEF Good
<1> QED BY <1>1, <1>7

\* The table.
\* A program under its name: of the two that change a mode the text matters.
Sound(r, s) ==
  /\ Good(s)
  /\ r = "SyncCoords" => s = SyncCoords
  /\ r = "SetSite" => s = SetSite
  /\ r \notin {"SyncCoords", "SetSite"} => Keeps(s)

Ordinary(r, s) == r \notin {"SyncCoords", "SetSite"} /\ (Calm(s) \/ Fine(s))

LEMMA OrdinarySound ==
  \A r, s : Ordinary(r, s) => Sound(r, s)
BY CalmFine DEF Ordinary, Sound, Fine

LEMMA SmallTables ==
  /\ \A r \in DOMAIN FocuserRequests : Sound(r, FocuserRequests[r])
  /\ \A r \in DOMAIN RotatorRequests : Sound(r, RotatorRequests[r])
  /\ \A r \in DOMAIN FilterwheelRequests : Sound(r, FilterwheelRequests[r])
  /\ \A r \in DOMAIN CoverRequests : Sound(r, CoverRequests[r])
  /\ \A r \in DOMAIN CalibratorRequests : Sound(r, CalibratorRequests[r])
<1>1. \A r \in DOMAIN FocuserRequests : Ordinary(r, FocuserRequests[r])
  BY ListCalm, PollsCalm, SettingPrograms, MarkedPrograms, SnapPrograms DEF Ordinary, FocuserRequests
<1>2. \A r \in DOMAIN RotatorRequests : Ordinary(r, RotatorRequests[r])
  BY ListCalm, PollsCalm, SettingPrograms, MarkedPrograms, RotatorMoveRelativeFine DEF Ordinary, RotatorRequests
<1>3. \A r \in DOMAIN FilterwheelRequests : Ordinary(r, FilterwheelRequests[r])
  BY PollsCalm, MarkedPrograms DEF Ordinary, FilterwheelRequests
<1>4. \A r \in DOMAIN CoverRequests : Ordinary(r, CoverRequests[r])
  BY ListCalm, PollsCalm, MarkedPrograms DEF Ordinary, CoverRequests
<1>5. \A r \in DOMAIN CalibratorRequests : Ordinary(r, CalibratorRequests[r])
  BY PollsCalm, MarkedPrograms, CalibratorOnFine DEF Ordinary, CalibratorRequests
<1> QED BY <1>1, <1>2, <1>3, <1>4, <1>5, OrdinarySound

LEMMA LargeTables ==
  /\ \A r \in DOMAIN DomeRequests : Sound(r, DomeRequests[r])
  /\ \A r \in DOMAIN CameraRequests : Sound(r, CameraRequests[r])
  /\ \A r \in DOMAIN TelescopeRequests : Sound(r, TelescopeRequests[r])
<1>1. \A r \in DOMAIN DomeRequests : Ordinary(r, DomeRequests[r])
  BY ListCalm, PollsCalm, MarkedPrograms, SnapPrograms, DomeSlewToAzimuthFine DEF Ordinary, DomeRequests
<1>2. \A r \in DOMAIN CameraRequests : Ordinary(r, CameraRequests[r])
  BY ListCalm, PollsCalm, SettingPrograms, MarkedPrograms, SnapPrograms, StartExposureFine
     DEF Ordinary, CameraRequests, CameraPulseGuide, CameraIsPulseGuiding
<1>3. \A r \in DOMAIN TelescopeRequests :
        r \notin {"SyncCoords", "SetSite"} => Ordinary(r, TelescopeRequests[r])
  BY ListCalm, PollsCalm, SettingPrograms, MarkedPrograms, SnapPrograms, SlewAsyncFine, SlewSyncFine,
     SlewAltAzFine DEF Ordinary, TelescopeRequests
<1>4. TelescopeRequests["SyncCoords"] = SyncCoords /\ TelescopeRequests["SetSite"] = SetSite
  BY DEF TelescopeRequests
<1>5. Sound("SyncCoords", SyncCoords) /\ Sound("SetSite", SetSite)
  BY SyncCoordsFine, SetSiteFine DEF Sound
<1>6. ASSUME NEW r \in DOMAIN TelescopeRequests PROVE Sound(r, TelescopeRequests[r])
  <2>1. CASE r = "SyncCoords" BY <2>1, <1>4, <1>5
  <2>2. CASE r = "SetSite" BY <2>2, <1>4, <1>5
  <2>3. CASE r \notin {"SyncCoords", "SetSite"} BY <2>3, <1>3, OrdinarySound
  <2> QED BY <2>1, <2>2, <2>3
<1> QED BY <1>1, <1>2, <1>6, OrdinarySound

\* What every request of every driver runs.
LEMMA Table ==
  ASSUME NEW d \in Drivers, NEW r \in d.reqs
  PROVE  Sound(r, Program[d.kind][r])
<1>1. /\ Program["focuser"] = FocuserRequests /\ Program["rotator"] = RotatorRequests
      /\ Program["filterwheel"] = FilterwheelRequests /\ Program["cover"] = CoverRequests
      /\ Program["calibrator"] = CalibratorRequests /\ Program["dome"] = DomeRequests
      /\ Program["camera"] = CameraRequests /\ Program["telescope"] = TelescopeRequests
      /\ DOMAIN Program = {"focuser", "rotator", "filterwheel", "cover", "calibrator", "dome", "camera",
                           "telescope"}
  BY DEF Program
<1>2. d.kind \in DOMAIN Program /\ r \in DOMAIN Program[d.kind]
  BY MotionAssumption
<1> QED BY <1>1, <1>2, SmallTables, LargeTables

(***************************************************************************)
(* The state.                                                               *)
(***************************************************************************)
MarkersOrNone == Markers \cup {None}
Cmds    == [m : MarkersOrNone, a : Args]
Requests == (UNION {d.reqs : d \in Drivers}) \cup {None}
Records == [req : Requests, pc : Nat, err : MarkersOrNone,
            fresh : SUBSET MarkersOrNone, skip : SUBSET MarkersOrNone, since : SUBSET Props,
            loose : SUBSET Props, torn : SUBSET MarkersOrNone]

DriverTyped ==
  /\ drv \in Drivers /\ conn \in {"up", "gone", "down"}
  /\ vec \in [drv.props -> States \cup {"Busy", None}]
  /\ pend \in [drv.props -> Seq(Cmds)] /\ run \in [drv.props -> Cmds]
  /\ \A v \in drv.props : Len(pend[v]) <= MaxPend
  /\ mode \in [mode : {"TRACK", "SYNC"}, points : {"APPEND", "CLEAR"}]
MarkersTyped ==
  /\ active \subseteq Markers /\ acked \subseteq Markers \X Props
  /\ axis \in BOOLEAN /\ refused \in BOOLEAN
  /\ crossed \subseteq Markers /\ withdrawn \subseteq Markers
RequestsTyped ==
  /\ cl \in [Clients -> Records]
  /\ \A c \in Clients : cl[c].req # None => cl[c].req \in drv.reqs /\ cl[c].pc \in 1..Len(Code(c))
Typed == DriverTyped /\ MarkersTyped /\ RequestsTyped

LEMMA CodeSound ==
  ASSUME DriverTyped, RequestsTyped, NEW c \in Clients, cl[c].req # None
  PROVE  /\ Sound(cl[c].req, Code(c)) /\ Code(c) \in Seq(Instrs) /\ Len(Code(c)) \in Nat
         /\ cl[c].pc \in 1..Len(Code(c)) /\ Top(c) \in Instrs /\ Top(c).n \in Nat
         /\ cl[c].pc + Top(c).n <= Len(Code(c))
<1>1. Sound(cl[c].req, Code(c)) /\ cl[c].pc \in 1..Len(Code(c))
  BY Table DEF DriverTyped, RequestsTyped, Code
<1>2. Code(c) \in Seq(Instrs) /\ cl[c].pc + Top(c).n <= Len(Code(c))
  BY <1>1 DEF Sound, Good, WellFormed, Top
<1> QED BY <1>1, <1>2, InstrField DEF Top

LEMMA LeastElement ==
  ASSUME NEW T, T \subseteq Nat, T # {}
  PROVE  \E x \in T : \A y \in T : x <= y
<1>1. \E x \in T : \A y \in T : ~(<<y, x>> \in OpToRel(<, Nat))
  BY WFMin, NatLessThanWellFounded, Zenon
<1>2. PICK x \in T : \A y \in T : ~(<<y, x>> \in OpToRel(<, Nat))
  BY <1>1, Zenon
<1>3. \A y \in T : ~(y < x)
  BY <1>2 DEF OpToRel
<1> QED BY <1>3

\* Request c goes on at q, the first instruction from t on that is not blank.
Onward(c, t, q) ==
  /\ q \in t..Len(Code(c)) /\ ~Blank(Code(c)[q]) /\ Code(c)[q].op # "still"
  /\ \A r \in t..(q - 1) : Blank(Code(c)[r])

LEMMA ThenCases ==
  ASSUME DriverTyped, RequestsTyped, NEW c \in Clients, cl[c].req # None, NEW n \in Nat,
         cl[c].pc + n <= Len(Code(c)) + 1
  PROVE  \/ Then(c, n) = Idle
         \/ \E q \in Nat : Onward(c, cl[c].pc + n, q) /\ Then(c, n) = [cl[c] EXCEPT !.pc = q]
<1> DEFINE s == Code(c)
           p == cl[c].pc + n
           Stop(q) == /\ q \in DOMAIN s => ~Blank(s[q])
                      /\ \A r \in p..(q - 1) : Blank(s[r])
           T == {q \in p..(Len(s) + 1) : q \in DOMAIN s => ~Blank(s[q])}
<1>1. s \in Seq(Instrs) /\ DOMAIN s = 1..Len(s) /\ Len(s) \in Nat /\ p \in Nat /\ p >= 1 /\ p <= Len(s) + 1
  BY CodeSound
<1> HIDE DEF s, p
<1>2. T \subseteq Nat /\ Len(s) + 1 \in T
  BY <1>1
<1>3. PICK x \in T : \A y \in T : x <= y
  BY <1>2, LeastElement
<1>4. x \in p..(Len(s) + 1) /\ Stop(x)
  BY <1>1, <1>3
<1> DEFINE q == CHOOSE q \in p..(Len(s) + 1) : Stop(q)
<1>5. q \in p..(Len(s) + 1) /\ Stop(q)
  BY <1>4
<1>6. Then(c, n) = IF q > Len(s) \/ s[q].op = "still" THEN Idle ELSE [cl[c] EXCEPT !.pc = q]
  BY DEF Then, s, p
<1> HIDE DEF q
<1>7. q \in Nat /\ (q <= Len(s) => q \in DOMAIN s)
  BY <1>1, <1>5
<1> QED BY <1>1, <1>5, <1>6, <1>7, SMTT(30) DEF Onward, s, p

\* Nothing is skipped when the next instruction is not blank.
LEMMA ThenAt ==
  ASSUME DriverTyped, RequestsTyped, NEW c \in Clients, cl[c].req # None, NEW n \in Nat,
         cl[c].pc + n <= Len(Code(c)), ~Blank(Code(c)[cl[c].pc + n]),
         Code(c)[cl[c].pc + n].op # "still"
  PROVE  Then(c, n) = [cl[c] EXCEPT !.pc = cl[c].pc + n]
<1> DEFINE s == Code(c)
           p == cl[c].pc + n
           Stop(q) == /\ q \in DOMAIN s => ~Blank(s[q])
                      /\ \A r \in p..(q - 1) : Blank(s[r])
<1>1. DOMAIN s = 1..Len(s) /\ Len(s) \in Nat /\ p \in Nat /\ p >= 1 /\ p <= Len(s)
  BY CodeSound
<1> DEFINE q == CHOOSE q \in p..(Len(s) + 1) : Stop(q)
<1>2. Then(c, n) = IF q > Len(s) \/ s[q].op = "still" THEN Idle ELSE [cl[c] EXCEPT !.pc = q]
  BY DEF Then
<1>3. ~Blank(s[p]) /\ s[p].op # "still"
  OBVIOUS
<1> HIDE DEF s, p
<1>4. p \in p..(Len(s) + 1) /\ Stop(p)
  BY <1>1, <1>3
<1>5. q \in p..(Len(s) + 1) /\ Stop(q)
  BY <1>4
<1> HIDE DEF q
<1>6. q = p
  BY <1>1, <1>3, <1>5
<1>7. Then(c, n) = [cl[c] EXCEPT !.pc = p]
  BY <1>1, <1>2, <1>3, <1>6
<1> QED BY <1>7 DEF p

(***************************************************************************)
(* The inductive invariant.                                                 *)
(***************************************************************************)
\* Between a guard and what it guards, the property exists for this driver.
GuardInv ==
  \A c \in Clients : cl[c].req # None =>
    \A g, j \in 1..Len(Code(c)) :
      Guards(Code(c), g, j) /\ g < cl[c].pc /\ cl[c].pc <= j => Code(c)[g].v \in drv.props

\* A lost child has no properties and a new one has the first modes.
ChildInv ==
  /\ conn # "up" => \A v \in drv.props : vec[v] = None
  /\ \A p \in {"mode", "points"} : mode[p] # FirstMode[p] => State(p) # None

\* A request on its way to its coordinates (or commit) finds the mode it chose.
Meets(c, g, j, p) ==
  /\ cl[c].pc = g + 1 => p \in cl[c].loose \/ State(p) # None
  /\ g + 1 < cl[c].pc /\ cl[c].pc <= j => p \in cl[c].loose \/ mode[p] = Code(c)[j].a
Keeping(c) == cl[c].req # None =>
  \A p \in {"mode", "points"} : \A g, j \in 1..Len(Code(c)) :
    Chooses(Code(c), g, j, p) => Meets(c, g, j, p)
LooseInv == \A c \in Clients : Keeping(c)

\* Whoever has changed a mode is on its way to put it back.
Restoring(c, r, from, to) == cl[c].req = r /\ cl[c].err = None /\ cl[c].pc \in from..to
RestInv ==
  /\ mode["mode"] # "TRACK" => refused \/ \E c \in Clients : Restoring(c, "SyncCoords", 6, 9)
  /\ mode["points"] # "APPEND" => \E c \in Clients : Restoring(c, "SetSite", 6, 7)

\* The driver's commands are ones whose answer acknowledges their marker.
Watched(v, cmd) == /\ cmd.m = None \/ v \in Watch[cmd.m] \/ v \in {"rel", "hor"}
                   /\ cmd.m = "parkOp" => v = "park"
PendInv ==
  \A v \in drv.props : Watched(v, run[v]) /\ \A i \in 1..Len(pend[v]) : Watched(v, pend[v][i])

\* Request c has set m and will send its command or clear m.
Zone(c, m) ==
  /\ cl[c].req # None
  /\ \/ /\ cl[c].err = m
        /\ \E i \in 1..Len(Code(c)) : Code(c)[i].op = "start" /\ Code(c)[i].m = m /\ i < cl[c].pc
     \/ /\ cl[c].err = None
        /\ \E i, j \in 1..Len(Code(c)) : /\ Spans(Code(c), i, j) /\ Code(c)[i].m = m
                                         /\ i < cl[c].pc /\ cl[c].pc <= j
\* The marker is about another property, or it is or will be acknowledged.
Excused(m) ==
  \/ drv.props \cap {"rel", "hor"} # {} \/ Watch[m] \cap drv.props = {}
  \/ \E v \in Watch[m] \cap drv.props : vec[v] = None \/ <<m, v>> \in acked
MarkInv == \A m \in active : Excused(m) \/ Outstanding(m) \/ \E c \in Clients : Zone(c, m)

IndInv == Typed /\ GuardInv /\ ChildInv /\ LooseInv /\ RestInv /\ PendInv /\ MarkInv

(***************************************************************************)
(* What a step does to the requests.                                        *)
(***************************************************************************)
\* Request c goes on as y, after a look that let it.
Advance(c, y) ==
  /\ Running(c) /\ y.req = cl[c].req /\ y.err = None
  /\ \/ /\ Onward(c, cl[c].pc + 1, y.pc)
        /\ Top(c).op \in {"need", "if"} => State(Top(c).v) # None
     \/ /\ Onward(c, cl[c].pc + 1 + Top(c).n, y.pc)
        /\ Top(c).op \in {"if", "ifnot", "gate"}
        /\ Top(c).op = "if" /\ Top(c).v \in {"mode", "points", "park"} => Top(c).v \in y.loose
\* It ends, it has failed and still clears its marker, or it goes on.
Local(c, y) ==
  \/ y.req = None
  \/ y.req = cl[c].req /\ y.pc = cl[c].pc /\ y.err # None
  \/ Advance(c, y)
\* No other request moves, and none forgets that it has lost track of a property.
Others(c) ==
  \A d \in Clients \ {c} : /\ cl'[d].req = cl[d].req /\ cl'[d].pc = cl[d].pc /\ cl'[d].err = cl[d].err
                           /\ cl[d].loose \subseteq cl'[d].loose
Moves(c) == cl' \in [Clients -> Records] /\ Local(c, cl'[c]) /\ Others(c)
Stays(c) == cl'[c].req # None => cl[c].loose \subseteq cl'[c].loose

LEMMA IdleTyped == Idle \in Records /\ Idle.req = None
<1>1. None \in Requests /\ None \in MarkersOrNone
  BY DEF Requests, MarkersOrNone
<1> QED BY <1>1 DEF Idle, Records

LEMMA ThenFields ==
  ASSUME DriverTyped, RequestsTyped, NEW c \in Clients, Running(c), NEW n \in Nat,
         cl[c].pc + n <= Len(Code(c)) + 1
  PROVE  /\ Then(c, n) \in Records
         /\ \/ Then(c, n).req = None
            \/ /\ Then(c, n).req = cl[c].req /\ Then(c, n).err = None /\ Then(c, n).loose = cl[c].loose
               /\ Onward(c, cl[c].pc + n, Then(c, n).pc)
<1>1. cl[c] \in Records /\ cl[c].req # None /\ cl[c].err = None
  BY DEF RequestsTyped, Running
<1>2. CASE Then(c, n) = Idle
  BY <1>2, IdleTyped
<1>3. ASSUME NEW q \in Nat, Onward(c, cl[c].pc + n, q), Then(c, n) = [cl[c] EXCEPT !.pc = q]
      PROVE  /\ Then(c, n) \in Records /\ Then(c, n).pc = q
             /\ Then(c, n).req = cl[c].req /\ Then(c, n).err = None /\ Then(c, n).loose = cl[c].loose
  BY <1>1, <1>3 DEF Records
<1> QED BY <1>1, <1>2, <1>3, ThenCases

\* The same for the next instruction, and for a branch.
LEMMA ThenNext ==
  ASSUME DriverTyped, RequestsTyped, NEW c \in Clients, Running(c)
  PROVE  /\ Then(c, 1) \in Records
         /\ \/ Then(c, 1).req = None
            \/ /\ Then(c, 1).req = cl[c].req /\ Then(c, 1).err = None /\ Then(c, 1).loose = cl[c].loose
               /\ Onward(c, cl[c].pc + 1, Then(c, 1).pc)
<1>1. cl[c].req # None
  BY DEF Running
<1>2. cl[c].pc + 1 <= Len(Code(c)) + 1
  BY <1>1, CodeSound
<1> QED BY <1>2, ThenFields

LEMMA ThenBranch ==
  ASSUME DriverTyped, RequestsTyped, NEW c \in Clients, Running(c)
  PROVE  LET y == Then(c, 1 + Top(c).n) IN
         /\ y \in Records
         /\ \/ y.req = None
            \/ /\ y.req = cl[c].req /\ y.err = None /\ y.loose = cl[c].loose
               /\ Onward(c, cl[c].pc + 1 + Top(c).n, y.pc)
<1>1. cl[c].req # None
  BY DEF Running
<1>2. /\ 1 + Top(c).n \in Nat /\ cl[c].pc + (1 + Top(c).n) <= Len(Code(c)) + 1
      /\ cl[c].pc + (1 + Top(c).n) = cl[c].pc + 1 + Top(c).n
  BY <1>1, CodeSound
<1> HIDE DEF Top
<1> QED BY <1>2, ThenFields

\* A step that changes only its own request.
LEMMA OneMoves ==
  ASSUME RequestsTyped, NEW c \in Clients, NEW y \in Records, cl' = [cl EXCEPT ![c] = y],
         Local(c, y)
  PROVE  Moves(c) /\ cl'[c] = y
BY DEF Moves, Others, RequestsTyped, Local, Advance, Running

LEMMA GoesMoves ==
  ASSUME DriverTyped, RequestsTyped, NEW c \in Clients, Running(c), Goes(c, 1),
         Top(c).op \in {"need", "if"} => State(Top(c).v) # None
  PROVE  Moves(c) /\ Stays(c)
<1> DEFINE y == Then(c, 1)
<1>1. y \in Records /\ (y.req # None => y.loose = cl[c].loose)
  BY ThenNext
<1>2. Local(c, y)
  BY ThenNext DEF Local, Advance
<1>3. cl' = [cl EXCEPT ![c] = y]
  BY DEF Goes
<1> HIDE DEF y
<1> QED BY <1>1, <1>2, <1>3, OneMoves DEF Stays

LEMMA EndsMoves ==
  ASSUME RequestsTyped, NEW c \in Clients, Ends(c)
  PROVE  Moves(c) /\ Stays(c) /\ cl'[c].req = None
<1>1. Local(c, Idle)
  BY IdleTyped DEF Local
<1> QED BY <1>1, IdleTyped, OneMoves DEF Ends, Stays

LEMMA FailsMoves ==
  ASSUME DriverTyped, RequestsTyped, NEW c \in Clients, Running(c), Fails(c)
  PROVE  Moves(c) /\ Stays(c)
<1>1. CASE Top(c).m = None
  BY <1>1, EndsMoves DEF Fails
<1>2. CASE Top(c).m # None
  <2> DEFINE y == [cl[c] EXCEPT !.err = Top(c).m]
  <2>1. Top(c).m \in MarkersOrNone
    BY CodeSound DEF Running, Instrs, MarkersOrNone
  <2>2. cl[c] \in Records
    BY DEF RequestsTyped
  <2>3. y \in Records /\ y.req = cl[c].req /\ y.pc = cl[c].pc /\ y.err = Top(c).m /\ y.loose = cl[c].loose
    BY <2>1, <2>2 DEF Records
  <2>4. cl' = [cl EXCEPT ![c] = y]
    BY <1>2 DEF Fails
  <2> HIDE DEF y
  <2>5. Local(c, y)
    BY <1>2, <2>3 DEF Local
  <2> QED BY <2>3, <2>4, <2>5, OneMoves DEF Stays
<1> QED BY <1>1, <1>2

\* Only the parts of a request that steer it.
Alike(y, x) == y.req = x.req /\ y.pc = x.pc /\ y.err = x.err /\ y.loose = x.loose

LEMMA RecordUpdate ==
  ASSUME NEW x \in Records, NEW F \in SUBSET MarkersOrNone
  PROVE  /\ [x EXCEPT !.fresh = F] \in Records /\ Alike([x EXCEPT !.fresh = F], x)
         /\ [x EXCEPT !.torn = F] \in Records /\ Alike([x EXCEPT !.torn = F], x)
BY DEF Records, Alike

LEMMA WaitUpdate ==
  ASSUME NEW x \in Records, NEW F \in SUBSET MarkersOrNone, NEW G \in SUBSET Props
  PROVE  /\ [x EXCEPT !.since = G, !.torn = F] \in Records
         /\ Alike([x EXCEPT !.since = G, !.torn = F], x)
BY DEF Records, Alike

LEMMA LoosenUpdate ==
  ASSUME NEW x \in Records, NEW vs
  PROVE  /\ Loosen(x, vs) \in Records /\ Loosen(x, vs).req = x.req /\ Loosen(x, vs).pc = x.pc
         /\ Loosen(x, vs).err = x.err /\ x.loose \subseteq Loosen(x, vs).loose
         /\ \A p \in {"mode", "points", "park"} : x.req # None /\ p \in vs => p \in Loosen(x, vs).loose
<1>1. CASE x.req = None
  BY <1>1 DEF Loosen
<1>2. CASE x.req # None
  <2>1. x.loose \cup (vs \cap {"mode", "points", "park"}) \in SUBSET Props
    BY Named DEF Records
  <2> QED BY <1>2, <2>1 DEF Loosen, Records
<1> QED BY <1>1, <1>2

LEMMA AlikeLocal ==
  ASSUME NEW c, NEW x, NEW y, Local(c, x), Alike(y, x) PROVE Local(c, y)
BY DEF Local, Advance, Alike

LEMMA LookMoves ==
  ASSUME Typed, NEW c \in Clients, Look(c) PROVE Moves(c) /\ Stays(c)
<1> USE DEF Typed
<1>1. Running(c) /\ cl[c].req # None
  BY DEF Look, Running
<1>2. CASE At(c, "avail") /\ IF Avail THEN Goes(c, 1) ELSE Ends(c)
  BY <1>1, <1>2, GoesMoves, EndsMoves DEF At
<1>3. CASE At(c, "need") /\ IF Has(Top(c).v) /\ State(Top(c).v) # Top(c).a THEN Goes(c, 1) ELSE Ends(c)
  BY <1>1, <1>3, GoesMoves, EndsMoves DEF At, Has
<1>4. CASE /\ At(c, "if")
           /\ IF Has(Top(c).v) /\ Top(c).a \in {None, on[Top(c).v]}
              THEN Goes(c, 1)
              ELSE cl' = [cl EXCEPT ![c] = Loosen(Then(c, 1 + Top(c).n), {Top(c).v})]
  <2>1. CASE Goes(c, 1) /\ Has(Top(c).v)
    BY <1>1, <2>1, GoesMoves DEF Has
  <2>2. CASE cl' = [cl EXCEPT ![c] = Loosen(Then(c, 1 + Top(c).n), {Top(c).v})]
    <3> DEFINE z == Then(c, 1 + Top(c).n)
               y == Loosen(z, {Top(c).v})
    <3>1. /\ z \in Records
          /\ \/ z.req = None
             \/ /\ z.req = cl[c].req /\ z.err = None /\ z.loose = cl[c].loose
                /\ Onward(c, cl[c].pc + 1 + Top(c).n, z.pc)
      BY <1>1, ThenBranch
    <3>2. cl' = [cl EXCEPT ![c] = y]
      BY <2>2
    <3> HIDE DEF z
    <3>3. /\ y \in Records /\ y.req = z.req /\ y.pc = z.pc /\ y.err = z.err /\ z.loose \subseteq y.loose
          /\ Top(c).v \in {"mode", "points", "park"} /\ z.req # None => Top(c).v \in y.loose
      BY <3>1, LoosenUpdate
    <3> HIDE DEF y
    <3>4. Local(c, y)
      BY <1>1, <1>4, <3>1, <3>3 DEF Local, Advance, At
    <3>5. Moves(c) /\ cl'[c] = y
      BY <3>2, <3>3, <3>4, OneMoves
    <3> QED BY <3>1, <3>3, <3>5 DEF Stays
  <2> QED BY <1>4, <2>1, <2>2
<1>5. CASE /\ At(c, "ifnot")
           /\ Goes(c, IF Has(Top(c).v) /\ on[Top(c).v] = Top(c).a THEN 1 + Top(c).n ELSE 1)
  <2>1. CASE Goes(c, 1)
    BY <1>1, <1>5, <2>1, GoesMoves DEF At
  <2>2. CASE Goes(c, 1 + Top(c).n)
    <3> DEFINE y == Then(c, 1 + Top(c).n)
    <3>1. /\ y \in Records
          /\ \/ y.req = None
             \/ /\ y.req = cl[c].req /\ y.err = None /\ y.loose = cl[c].loose
                /\ Onward(c, cl[c].pc + 1 + Top(c).n, y.pc)
      BY <1>1, ThenBranch
    <3>2. cl' = [cl EXCEPT ![c] = y]
      BY <2>2 DEF Goes
    <3> HIDE DEF y
    <3>3. Local(c, y)
      BY <1>1, <1>5, <3>1 DEF Local, Advance, At
    <3>4. Moves(c) /\ cl'[c] = y
      BY <3>1, <3>2, <3>3, OneMoves
    <3> QED BY <3>1, <3>4 DEF Stays
  <2> QED BY <1>5, <2>1, <2>2
<1>6. CASE At(c, "check") /\ (Goes(c, 1) \/ Ends(c))
  BY <1>1, <1>6, GoesMoves, EndsMoves DEF At
<1>7. CASE At(c, "return") /\ Ends(c)
  BY <1>7, EndsMoves
<1>8. CASE At(c, "since") /\ cl' = [cl EXCEPT ![c] = [Then(c, 1) EXCEPT !.since = {}, !.torn = {}]]
  <2> DEFINE z == Then(c, 1)
             y == [z EXCEPT !.since = {}, !.torn = {}]
  <2>1. z \in Records /\ (z.req # None => z.loose = cl[c].loose) /\ Local(c, z)
    BY <1>1, <1>8, ThenNext DEF Local, Advance, At
  <2>2. cl' = [cl EXCEPT ![c] = y]
    BY <1>8
  <2> HIDE DEF z
  <2>3. y \in Records /\ Alike(y, z)
    BY <2>1, WaitUpdate
  <2> HIDE DEF y
  <2>4. Moves(c) /\ cl'[c] = y
    BY <2>1, <2>2, <2>3, AlikeLocal, OneMoves
  <2> QED BY <2>1, <2>3, <2>4 DEF Stays, Alike
<1> QED BY <1>2, <1>3, <1>4, <1>5, <1>6, <1>7, <1>8 DEF Look

LEMMA SmallMoves ==
  ASSUME Typed, NEW c \in Clients, cl[c].req # None,
         SetAxis(c) \/ SendFails(c) \/ SentToDead(c) \/ WaitSettle(c) \/ WaitEcho(c) \/ WaitSync(c)
  PROVE  Moves(c) /\ Stays(c)
<1> USE DEF Typed
<1>1. CASE SetAxis(c)
  BY <1>1, GoesMoves DEF SetAxis, At
<1>2. CASE SendFails(c)
  BY <1>2, FailsMoves DEF SendFails, At
<1>3. CASE SentToDead(c)
  BY <1>3, GoesMoves DEF SentToDead, At
<1>4. CASE WaitSettle(c)
  BY <1>4, GoesMoves, FailsMoves DEF WaitSettle, At
<1>5. CASE WaitEcho(c)
  BY <1>5, GoesMoves DEF WaitEcho, At
<1>6. CASE WaitSync(c)
  BY <1>6, GoesMoves, EndsMoves DEF WaitSync, At
<1> QED BY <1>1, <1>2, <1>3, <1>4, <1>5, <1>6

LEMMA PollMoves ==
  ASSUME Typed, NEW c \in Clients, Poll(c) PROVE Moves(c) /\ Stays(c)
<1> USE DEF Typed
<1>1. CASE At(c, "gate") /\ Goes(c, IF Avail THEN 1 ELSE 1 + Top(c).n)
  <2>0. Running(c) /\ Top(c).op = "gate"
    BY <1>1 DEF At
  <2>1. CASE Goes(c, 1)
    BY <2>0, <2>1, GoesMoves
  <2>2. CASE Goes(c, 1 + Top(c).n)
    <3> DEFINE y == Then(c, 1 + Top(c).n)
    <3>1. /\ y \in Records
          /\ \/ y.req = None
             \/ /\ y.req = cl[c].req /\ y.err = None /\ y.loose = cl[c].loose
                /\ Onward(c, cl[c].pc + 1 + Top(c).n, y.pc)
      BY <2>0, ThenBranch
    <3>2. cl' = [cl EXCEPT ![c] = y]
      BY <2>2 DEF Goes
    <3> HIDE DEF y
    <3>3. Local(c, y)
      BY <2>0, <3>1 DEF Local, Advance
    <3>4. Moves(c) /\ cl'[c] = y
      BY <3>1, <3>2, <3>3, OneMoves
    <3> QED BY <3>1, <3>4 DEF Stays
  <2> QED BY <1>1, <2>1, <2>2
<1>2. CASE /\ Running(c) /\ Top(c).op \in {"busy", "ison", "isok", "axismoving"}
           /\ Goes(c, 1) \/ Ends(c)
  BY <1>2, GoesMoves, EndsMoves
<1>3. CASE /\ At(c, "updated")
           /\ cl' = [cl EXCEPT ![c] = [Then(c, 1) EXCEPT !.fresh = @ \cup After(Top(c).v)]]
  <2> DEFINE z == Then(c, 1)
             F == z.fresh \cup After(Top(c).v)
             y == [z EXCEPT !.fresh = F]
  <2>1. z \in Records /\ (z.req # None => z.loose = cl[c].loose) /\ Local(c, z)
    BY <1>3, ThenNext DEF Local, Advance, At
  <2>2. F \in SUBSET MarkersOrNone
    BY <2>1 DEF After, Records, MarkersOrNone
  <2>3. cl' = [cl EXCEPT ![c] = y]
    BY <1>3
  <2> HIDE DEF z, F
  <2>4. y \in Records /\ Alike(y, z)
    BY <2>1, <2>2, RecordUpdate
  <2> HIDE DEF y
  <2>5. Moves(c) /\ cl'[c] = y
    BY <2>1, <2>3, <2>4, AlikeLocal, OneMoves
  <2> QED BY <2>1, <2>4, <2>5 DEF Stays, Alike
<1> QED BY <1>1, <1>2, <1>3 DEF Poll, At

LEMMA AsksTyped ==
  ASSUME Typed, NEW c \in Clients, cl[c].req # None
  PROVE  Asks(c) \subseteq MarkersOrNone
<1> USE DEF Typed
<1>1. Code(c) \in Seq(Instrs) /\ \A i \in 1..Len(Code(c)) : Code(c)[i].m \in MarkersOrNone
  <2>1. Code(c) \in Seq(Instrs)
    BY CodeSound
  <2>2. \A i \in 1..Len(Code(c)) : Code(c)[i] \in Instrs
    BY <2>1
  <2> QED BY <2>1, <2>2 DEF Instrs, MarkersOrNone
<1>2. drv.kind \in DOMAIN Program /\ cl[c].req \in DOMAIN Program[drv.kind]
  BY MotionAssumption DEF DriverTyped, RequestsTyped
<1>3. Asks(c) = {Code(c)[i].m : i \in {i \in 1..Len(Code(c)) : Code(c)[i].op = "active"}}
  BY <1>2 DEF Asks, Polls, Code
<1> QED BY <1>1, <1>3

LEMMA SnapMoves ==
  ASSUME Typed, NEW c \in Clients, TakeSnapshot(c) PROVE Moves(c) /\ Stays(c)
<1> USE DEF Typed
<1>1. Running(c) /\ cl[c].req # None /\ Top(c).op = "snap" /\ cl[c] \in Records
  BY DEF TakeSnapshot, At, Running, RequestsTyped
<1>2. CASE Ends(c)
  BY <1>2, EndsMoves
<1>3. ASSUME NEW F \in SUBSET Asks(c), NEW S \in SUBSET Asks(c),
             cl' = [cl EXCEPT ![c].pc = @ + 1, ![c].fresh = F, ![c].skip = S]
      PROVE  Moves(c) /\ Stays(c)
  <2> DEFINE y == [cl[c] EXCEPT !.pc = cl[c].pc + 1, !.fresh = F, !.skip = S]
  <2>0. cl[c].pc + 1 \in Nat
    BY <1>1 DEF Records
  <2>1. F \in SUBSET MarkersOrNone /\ S \in SUBSET MarkersOrNone
    BY <1>1, AsksTyped
  <2>2. /\ y \in Records /\ y.req = cl[c].req /\ y.err = cl[c].err /\ y.loose = cl[c].loose
        /\ y.pc = cl[c].pc + 1
    BY <1>1, <2>0, <2>1 DEF Records
  <2>3. cl' = [cl EXCEPT ![c] = y]
    BY <1>3 DEF RequestsTyped
  <2> HIDE DEF y
  <2>4. Onward(c, cl[c].pc + 1, cl[c].pc + 1)
    <3>1. /\ cl[c].pc \in 1..Len(Code(c)) /\ Len(Code(c)) \in Nat
          /\ cl[c].pc < Len(Code(c)) /\ Code(c)[cl[c].pc + 1].op \notin {"busy", "updated", "still"}
      BY <1>1, CodeSound DEF Sound, Good, WellFormed, Top
    <3> QED BY <3>1 DEF Onward, Blank
  <2>5. Local(c, y)
    BY <1>1, <2>2, <2>4 DEF Local, Advance, Running
  <2> QED BY <2>2, <2>3, <2>5, OneMoves DEF Stays
<1>4. TakeSnapshot(c) =>
        \/ Ends(c)
        \/ \E F, S \in SUBSET Asks(c) : cl' = [cl EXCEPT ![c].pc = @ + 1, ![c].fresh = F, ![c].skip = S]
  <2> DEFINE read == {Top(c).v} \cup Top(c).also
             F == {m \in Asks(c) : \E v \in read : <<m, v>> \in acked}
             S == {m \in Asks(c) : \A v \in read \cap Watch[m] : State(v) = None}
  <2>1. TakeSnapshot(c) => Ends(c) \/ cl' = [cl EXCEPT ![c].pc = @ + 1, ![c].fresh = F, ![c].skip = S]
    BY DEF TakeSnapshot
  <2>2. F \in SUBSET Asks(c) /\ S \in SUBSET Asks(c)
    OBVIOUS
  <2> QED BY <2>1, <2>2
<1> QED BY <1>2, <1>3, <1>4

\* Several requests change; c as y and the others as they were, but for history.
LEMMA ManyMove ==
  ASSUME RequestsTyped, NEW c \in Clients, NEW y \in Records, Local(c, y),
         cl' \in [Clients -> Records], Alike(cl'[c], y),
         \A d \in Clients \ {c} : Alike(cl'[d], cl[d])
  PROVE  Moves(c)
BY AlikeLocal DEF Moves, Others, Alike

LEMMA StartMoves ==
  ASSUME Typed, NEW c \in Clients, StartMarker(c) PROVE Moves(c) /\ Stays(c)
<1> USE DEF Typed
<1>1. Running(c) /\ Top(c).op = "start"
  BY DEF StartMarker, At
<1> DEFINE m == Top(c).m
           x(d) == IF d = c THEN Then(c, 1) ELSE cl[d]
<1>2. Then(c, 1) \in Records /\ Local(c, Then(c, 1)) /\ (Then(c, 1).req # None => Then(c, 1).loose = cl[c].loose)
  BY <1>1, ThenNext DEF Local, Advance
<1>3. cl' = [d \in Clients |-> [x(d) EXCEPT !.fresh = x(d).fresh \ {m}]]
  BY DEF StartMarker
<1>4. \A d \in Clients : x(d) \in Records
  BY <1>2 DEF RequestsTyped
<1> HIDE DEF m, x
<1>5. ASSUME NEW d \in Clients PROVE cl'[d] \in Records /\ Alike(cl'[d], x(d))
  <2>1. x(d).fresh \ {m} \in SUBSET MarkersOrNone
    BY <1>4 DEF Records
  <2>2. cl'[d] = [x(d) EXCEPT !.fresh = x(d).fresh \ {m}]
    BY <1>3
  <2> QED BY <1>4, <2>1, <2>2, RecordUpdate, ZenonT(40)
<1>6. cl' \in [Clients -> Records]
  BY <1>3, <1>5
<1>7. x(c) = Then(c, 1) /\ \A d \in Clients \ {c} : x(d) = cl[d]
  BY DEF x
<1>8. Moves(c)
  BY <1>2, <1>5, <1>6, <1>7, ManyMove
<1> QED BY <1>2, <1>5, <1>7, <1>8 DEF Stays, Alike

LEMMA ClearMoves ==
  ASSUME Typed, NEW c \in Clients, ClearMarker(c) PROVE Moves(c) /\ Stays(c)
<1> USE DEF Typed
<1>1. CASE cl[c].err # None
  BY <1>1, EndsMoves DEF ClearMarker
<1>2. CASE cl[c].err = None
  BY <1>2, GoesMoves DEF ClearMarker, At
<1> QED BY <1>1, <1>2

LEMMA ActiveMoves ==
  ASSUME Typed, NEW c \in Clients, ActiveMarker(c) PROVE Moves(c) /\ Stays(c)
<1> USE DEF Typed
<1>1. Running(c) /\ Top(c).op = "active"
  BY DEF ActiveMarker, At
<1>2. CASE Ends(c)
  BY <1>2, EndsMoves
<1> DEFINE m == Top(c).m
           y == Then(c, 1)
           new == [d \in Clients |->
                     IF d = c THEN [y EXCEPT !.fresh = y.fresh \ {m}]
                     ELSE IF m \in active /\ HasTime(d, m) THEN [cl[d] EXCEPT !.torn = cl[d].torn \cup {m}]
                     ELSE cl[d]]
<1>3. CASE cl' = new
  <2>1. y \in Records /\ Local(c, y) /\ (y.req # None => y.loose = cl[c].loose)
    BY <1>1, ThenNext DEF Local, Advance
  <2>2. m \in MarkersOrNone
    BY <1>1, CodeSound DEF Running, Instrs, MarkersOrNone
  <2> HIDE DEF y, m
  <2>3. cl'[c] \in Records /\ Alike(cl'[c], y)
    <3>1. y.fresh \ {m} \in SUBSET MarkersOrNone BY <2>1 DEF Records
    <3>2. cl'[c] = [y EXCEPT !.fresh = y.fresh \ {m}] BY <1>3
    <3> QED BY <2>1, <3>1, <3>2, RecordUpdate
  <2>4. ASSUME NEW d \in Clients \ {c} PROVE cl'[d] \in Records /\ Alike(cl'[d], cl[d])
    <3>0. cl[d] \in Records BY DEF RequestsTyped
    <3>1. cl[d].torn \cup {m} \in SUBSET MarkersOrNone BY <2>2, <3>0 DEF Records
    <3>2. cl'[d] = [cl[d] EXCEPT !.torn = cl[d].torn \cup {m}] \/ cl'[d] = cl[d] BY <1>3
    <3>3. CASE cl'[d] = cl[d] BY <3>0, <3>3 DEF Alike
    <3>4. CASE cl'[d] = [cl[d] EXCEPT !.torn = cl[d].torn \cup {m}] BY <3>0, <3>1, <3>4, RecordUpdate
    <3> QED BY <3>2, <3>3, <3>4
  <2>5. cl' \in [Clients -> Records]
    <3>1. DOMAIN cl' = Clients /\ cl' = [d \in Clients |-> cl'[d]] BY <1>3
    <3> QED BY <2>3, <2>4, <3>1
  <2>6. Moves(c)
    BY <2>1, <2>3, <2>4, <2>5, ManyMove
  <2> QED BY <2>1, <2>3, <2>6 DEF Stays, Alike
<1>4. ActiveMarker(c) => Ends(c) \/ cl' = new
  BY DEF ActiveMarker
<1> QED BY <1>2, <1>3, <1>4

\* A command that is written: every other request loses track of its property.
SentEffect(c) ==
  /\ cl'[c].req = Then(c, 1).req /\ cl'[c].pc = Then(c, 1).pc /\ cl'[c].err = Then(c, 1).err
  /\ cl'[c].req # None => \A p \in cl[c].loose : p \in cl'[c].loose \/ (p = Top(c).v /\ State(p) # None)
  /\ \A d \in Clients \ {c} : \A p \in {"mode", "points", "park"} :
       cl[d].req # None /\ p = Top(c).v => p \in cl'[d].loose

LEMMA SentMoves ==
  ASSUME Typed, NEW c \in Clients, Sent(c) PROVE Moves(c) /\ SentEffect(c)
<1> USE DEF Typed
<1>1. Running(c) /\ Top(c).op \in Commanding
  BY DEF Sent, At, Commanding
<1> DEFINE v == Top(c).v
           y == Then(c, 1)
           z == IF y.req = None \/ State(v) = None THEN y ELSE [y EXCEPT !.loose = y.loose \ {v}]
           new == [d \in Clients |-> IF d # c THEN Loosen(cl[d], {v}) ELSE z]
<1>2. cl' = new
  BY DEF Sent
<1>3. y \in Records /\ Local(c, y) /\ (y.req # None => y.loose = cl[c].loose)
  BY <1>1, ThenNext DEF Local, Advance, Commanding
<1> HIDE DEF y
<1>4. /\ z \in Records /\ z.req = y.req /\ z.pc = y.pc /\ z.err = y.err
      /\ y.req # None => \A p \in y.loose : p \in z.loose \/ (p = v /\ State(v) # None)
  <2>1. y.loose \ {v} \in SUBSET Props
    BY <1>3 DEF Records
  <2> QED BY <1>3, <2>1 DEF Records
<1>5. cl'[c] = z /\ \A d \in Clients \ {c} : cl'[d] = Loosen(cl[d], {v})
  BY <1>2
<1> HIDE DEF z
<1>6. ASSUME NEW d \in Clients \ {c}
      PROVE  /\ cl'[d] \in Records /\ cl'[d].req = cl[d].req /\ cl'[d].pc = cl[d].pc
             /\ cl'[d].err = cl[d].err /\ cl[d].loose \subseteq cl'[d].loose
             /\ \A p \in {"mode", "points", "park"} : cl[d].req # None /\ p = v => p \in cl'[d].loose
  <2>1. cl[d] \in Records
    BY DEF RequestsTyped
  <2> QED BY <1>5, <2>1, LoosenUpdate
<1>7. cl' \in [Clients -> Records]
  <2>1. DOMAIN cl' = Clients /\ cl' = [d \in Clients |-> cl'[d]] BY <1>2
  <2> QED BY <1>4, <1>5, <1>6, <2>1
<1>8. Local(c, z)
  BY <1>1, <1>3, <1>4 DEF Local, Advance, Commanding
<1>9. Moves(c)
  BY <1>5, <1>6, <1>7, <1>8 DEF Moves, Others
<1>10. SentEffect(c)
  BY <1>3, <1>4, <1>5, <1>6 DEF SentEffect, y
<1> QED BY <1>9, <1>10

\* Every step of a request.
LEMMA StepMoves ==
  ASSUME Typed, NEW c \in Clients, cl[c].req # None, Step(c)
  PROVE  Moves(c) /\ (Stays(c) \/ (Sent(c) /\ SentEffect(c)))
BY LookMoves, SmallMoves, PollMoves, SnapMoves, StartMoves, ClearMoves, ActiveMoves, SentMoves DEF Step

\* The driver's steps move no request.
AllStay == cl' \in [Clients -> Records] /\ \A d \in Clients :
             /\ cl'[d].req = cl[d].req /\ cl'[d].pc = cl[d].pc /\ cl'[d].err = cl[d].err
             /\ cl[d].loose \subseteq cl'[d].loose

LEMMA PublishStays ==
  ASSUME Typed, NEW v \in drv.props, NEW state, Publish(v, state)
  PROVE  AllStay
<1> USE DEF Typed
<1>1. v \in Props /\ MarkersOf[v] \subseteq MarkersOrNone
  BY MotionAssumption DEF DriverTyped, MarkersOf, MarkersOrNone
<1> DEFINE G(c) == IF Waits(c, v) THEN cl[c].since \cup {v} ELSE cl[c].since
           F(c) == IF \/ state = "Busy" /\ Looked(c, v)
                      \/ Waits(c, v) /\ Early(c, v)
                   THEN cl[c].torn \cup MarkersOf[v] ELSE cl[c].torn
<1>2. cl' = [c \in Clients |-> [cl[c] EXCEPT !.since = G(c), !.torn = F(c)]]
  BY DEF Publish
<1>3. \A c \in Clients : cl[c] \in Records /\ F(c) \in SUBSET MarkersOrNone /\ G(c) \in SUBSET Props
  <2>1. \A c \in Clients : cl[c] \in Records
    BY DEF RequestsTyped
  <2>2. \A c \in Clients : cl[c].torn \in SUBSET MarkersOrNone /\ cl[c].since \in SUBSET Props
    BY <2>1 DEF Records
  <2> QED BY <1>1, <2>1, <2>2
<1> HIDE DEF F, G
<1>4. ASSUME NEW c \in Clients PROVE cl'[c] \in Records /\ Alike(cl'[c], cl[c])
  <2>1. cl'[c] = [cl[c] EXCEPT !.since = G(c), !.torn = F(c)]
    BY <1>2
  <2>2. cl[c] \in Records /\ F(c) \in SUBSET MarkersOrNone /\ G(c) \in SUBSET Props
    BY <1>3
  <2>3. /\ [cl[c] EXCEPT !.since = G(c), !.torn = F(c)] \in Records
        /\ Alike([cl[c] EXCEPT !.since = G(c), !.torn = F(c)], cl[c])
    BY <2>2, WaitUpdate
  <2> QED BY <2>1, <2>3
<1>5. cl' \in [Clients -> Records]
  <2>1. DOMAIN cl' = Clients /\ cl' = [d \in Clients |-> cl'[d]] BY <1>2
  <2> QED BY <1>4, <2>1
<1> QED BY <1>4, <1>5 DEF AllStay, Alike

LEMMA DriverStays ==
  ASSUME Typed, Driver PROVE AllStay
<1> USE DEF Typed
<1>1. CASE \E v \in drv.props : Define(v) \/ Accept(v) \/ Finish(v) \/ Report(v)
  BY <1>1, PublishStays DEF Define, Accept, Finish, Report
<1>2. CASE Lose
  <2>1. cl' = [c \in Clients |-> Loosen(cl[c], drv.props)] /\ \A c \in Clients : cl[c] \in Records
    BY <1>2 DEF Lose, RequestsTyped
  <2>2. \A c \in Clients : cl'[c] = Loosen(cl[c], drv.props)
    BY <2>1
  <2>3. ASSUME NEW c \in Clients
        PROVE  /\ cl'[c] \in Records /\ cl'[c].req = cl[c].req /\ cl'[c].pc = cl[c].pc
               /\ cl'[c].err = cl[c].err /\ cl[c].loose \subseteq cl'[c].loose
    BY <2>1, <2>2, LoosenUpdate
  <2>4. cl' \in [Clients -> Records]
    <3>1. DOMAIN cl' = Clients /\ cl' = [d \in Clients |-> cl'[d]] BY <2>1
    <3> QED BY <2>3, <3>1
  <2> QED BY <2>3, <2>4 DEF AllStay
<1>3. CASE GoDown \/ Serve
  BY <1>3 DEF GoDown, Serve, AllStay, RequestsTyped
<1> QED BY <1>1, <1>2, <1>3 DEF Driver

LEMMA BeginMoves ==
  ASSUME Typed, NEW c \in Clients, Begin(c)
  PROVE  /\ cl' \in [Clients -> Records] /\ Others(c)
         /\ cl'[c].req \in drv.reqs /\ cl'[c].pc = 1 /\ cl'[c].err = None
<1> USE DEF Typed
<1>1. PICK r \in drv.reqs : cl' = [cl EXCEPT ![c] = [Idle EXCEPT !.req = r]]
  BY DEF Begin
<1> DEFINE y == [Idle EXCEPT !.req = r]
<1>2. r \in Requests
  BY DEF DriverTyped, Requests
<1>3. y \in Records /\ y.req = r /\ y.pc = 1 /\ y.err = None
  BY <1>2, IdleTyped DEF Records, Idle
<1>4. cl' = [cl EXCEPT ![c] = y]
  BY <1>1
<1> HIDE DEF y
<1> QED BY <1>3, <1>4 DEF Others, RequestsTyped

LEMMA SameCode ==
  ASSUME drv' = drv, NEW d, cl'[d].req = cl[d].req PROVE Code(d)' = Code(d)
BY DEF Code

\* Where a request is after a step.
LEMMA LocalPc ==
  ASSUME Typed, NEW c \in Clients, cl[c].req # None, Local(c, cl'[c]), cl'[c].req # None
  PROVE  /\ cl'[c].req = cl[c].req /\ cl'[c].pc \in 1..Len(Code(c)) /\ cl'[c].pc >= cl[c].pc
         /\ cl'[c].err = None => /\ cl[c].err = None /\ cl'[c].pc > cl[c].pc /\ Advance(c, cl'[c])
<1> USE DEF Typed
<1>1. cl[c].pc \in 1..Len(Code(c)) /\ Len(Code(c)) \in Nat /\ Top(c).n \in Nat
  BY CodeSound
<1>2. CASE cl'[c].req = cl[c].req /\ cl'[c].pc = cl[c].pc /\ cl'[c].err # None
  BY <1>1, <1>2
<1>3. CASE Advance(c, cl'[c])
  BY <1>1, <1>3 DEF Advance, Onward, Running
<1> QED BY <1>2, <1>3 DEF Local

LEMMA RequestsStep ==
  ASSUME Typed, drv' = drv,
         \/ AllStay
         \/ \E c \in Clients : Begin(c) \/ (cl[c].req # None /\ Moves(c))
  PROVE  RequestsTyped'
<1> USE DEF Typed
<1>1. CASE AllStay
  BY <1>1, SameCode DEF AllStay, RequestsTyped
<1>2. ASSUME NEW c \in Clients, Begin(c) PROVE RequestsTyped'
  <2>1. /\ cl' \in [Clients -> Records] /\ Others(c)
        /\ cl'[c].req \in drv.reqs /\ cl'[c].pc = 1
    BY <1>2, BeginMoves
  <2>2. 1 \in 1..Len(Code(c)')
    <3>1. Sound(cl'[c].req, Code(c)')
      BY <2>1, Table DEF Code, DriverTyped
    <3> QED BY <3>1 DEF Sound, Good, WellFormed
  <2>3. \A d \in Clients \ {c} : Code(d)' = Code(d)
    BY <2>1, SameCode DEF Others
  <2> QED BY <2>1, <2>2, <2>3 DEF RequestsTyped, Others
<1>3. ASSUME NEW c \in Clients, cl[c].req # None, Moves(c) PROVE RequestsTyped'
  <2>1. cl' \in [Clients -> Records] /\ Others(c) /\ Local(c, cl'[c])
    BY <1>3 DEF Moves
  <2>2. cl'[c].req # None => cl'[c].req \in drv.reqs /\ cl'[c].pc \in 1..Len(Code(c)')
    BY <1>3, <2>1, LocalPc, SameCode DEF RequestsTyped
  <2>3. \A d \in Clients \ {c} : Code(d)' = Code(d)
    BY <2>1, SameCode DEF Others
  <2> QED BY <2>1, <2>2, <2>3 DEF RequestsTyped, Others
<1> QED BY <1>1, <1>2, <1>3

LEMMA GuardStep ==
  ASSUME Typed, GuardInv, drv' = drv,
         \/ AllStay
         \/ \E c \in Clients : Begin(c) \/ (cl[c].req # None /\ Moves(c))
  PROVE  GuardInv'
<1> USE DEF Typed
<1> DEFINE Held(d) == cl[d].req # None =>
                        \A g, j \in 1..Len(Code(d)) :
                          Guards(Code(d), g, j) /\ g < cl[d].pc /\ cl[d].pc <= j => Code(d)[g].v \in drv.props
<1>1. \A d \in Clients : Held(d)
  BY DEF GuardInv
<1>2. ASSUME NEW d \in Clients, cl'[d].req = cl[d].req, cl'[d].pc = cl[d].pc PROVE Held(d)'
  BY <1>1, <1>2, SameCode
<1>3. CASE AllStay
  BY <1>2, <1>3 DEF AllStay, GuardInv
<1>4. ASSUME NEW c \in Clients, Begin(c) PROVE GuardInv'
  <2>1. Others(c) /\ cl'[c].pc = 1
    BY <1>4, BeginMoves
  <2>2. Held(c)'
    BY <2>1
  <2>3. \A d \in Clients \ {c} : Held(d)'
    BY <1>2, <2>1 DEF Others
  <2> QED BY <2>2, <2>3 DEF GuardInv
<1>5. ASSUME NEW c \in Clients, cl[c].req # None, Moves(c) PROVE GuardInv'
  <2>1. Others(c) /\ Local(c, cl'[c])
    BY <1>5 DEF Moves
  <2>2. \A d \in Clients \ {c} : Held(d)'
    BY <1>2, <2>1 DEF Others
  <2>3. ASSUME cl'[c].req # None, cl'[c].pc # cl[c].pc,
               NEW g \in 1..Len(Code(c)), NEW j \in 1..Len(Code(c)),
               Guards(Code(c), g, j), g < cl'[c].pc, cl'[c].pc <= j
        PROVE  Code(c)[g].v \in drv.props
    <3>0. /\ cl[c].pc \in 1..Len(Code(c)) /\ Len(Code(c)) \in Nat /\ Top(c).n \in Nat
          /\ cl'[c].pc \in 1..Len(Code(c)) /\ cl'[c].pc >= cl[c].pc /\ cl'[c].req = cl[c].req
      BY <1>5, <2>1, <2>3, LocalPc, CodeSound
    <3>1. Advance(c, cl'[c])
      BY <2>1, <2>3 DEF Local
    <3>2. CASE g < cl[c].pc
      BY <1>1, <1>5, <2>3, <3>0, <3>2
    <3>3. CASE cl[c].pc < g
      <4>1. Top(c).n = 0
        BY <2>3, <3>0, <3>3 DEF Guards, Top
      <4>2. Onward(c, cl[c].pc + 1, cl'[c].pc)
        BY <3>0, <3>1, <4>1 DEF Advance
      <4>3. Blank(Code(c)[g])
        BY <2>3, <3>0, <3>3, <4>2 DEF Onward
      <4> QED BY <2>3, <4>3 DEF Guards, Blank
    <3>4. CASE cl[c].pc = g
      <4>1. Top(c) = Code(c)[g] /\ Top(c).op \in {"need", "if"}
        BY <2>3, <3>4 DEF Guards, Top
      <4>2. CASE State(Top(c).v) # None
        BY <4>1, <4>2 DEF State
      <4>3. CASE Onward(c, cl[c].pc + 1 + Top(c).n, cl'[c].pc) /\ Top(c).op = "if"
        <5>1. j <= g + Top(c).n
          BY <2>3, <4>1, <4>3 DEF Guards
        <5>2. cl'[c].pc >= g + 1 + Top(c).n
          BY <3>0, <3>4, <4>3 DEF Onward
        <5> QED BY <2>3, <3>0, <5>1, <5>2
      <4> QED BY <3>1, <4>1, <4>2, <4>3 DEF Advance
    <3> QED BY <3>0, <3>2, <3>3, <3>4
  <2>4. Held(c)'
    <3>1. CASE cl'[c].req = None
      BY <3>1
    <3>2. CASE cl'[c].req # None
      <4>1. cl'[c].req = cl[c].req
        BY <1>5, <2>1, <3>2, LocalPc
      <4>2. Code(c)' = Code(c)
        BY <4>1, SameCode
      <4>3. CASE cl'[c].pc = cl[c].pc BY <4>1, <4>3, <1>2
      <4>4. CASE cl'[c].pc # cl[c].pc BY <2>3, <3>2, <4>2, <4>4
      <4> QED BY <4>3, <4>4
    <3> QED BY <3>1, <3>2
  <2> QED BY <2>2, <2>4 DEF GuardInv
<1> QED BY <1>3, <1>4, <1>5

(***************************************************************************)
(* What a step does to the driver and the markers.                          *)
(***************************************************************************)
LEMMA StepEffects ==
  ASSUME Typed, NEW c \in Clients, cl[c].req # None, Step(c)
  PROVE  /\ drv' = drv /\ conn' = conn /\ vec' = vec /\ run' = run
         /\ (pend' = pend /\ mode' = mode) \/ Sent(c)
         /\ (active' \subseteq active /\ acked' = acked) \/ StartMarker(c)
         /\ refused' = refused \/ refused' = TRUE
<1> USE DEF driverVars, markerVars
<1>1. CASE Look(c) BY <1>1 DEF Look
<1>2. CASE StartMarker(c) BY <1>2 DEF StartMarker
<1>3. CASE ClearMarker(c) BY <1>3 DEF ClearMarker
<1>4. CASE SetAxis(c) BY <1>4 DEF SetAxis
<1>5. CASE Sent(c) BY <1>5 DEF Sent
<1>6. CASE SendFails(c) BY <1>6 DEF SendFails
<1>7. CASE SentToDead(c) BY <1>7 DEF SentToDead
<1>8. CASE WaitSettle(c) BY <1>8 DEF WaitSettle
<1>9. CASE WaitEcho(c) BY <1>9 DEF WaitEcho
<1>10. CASE WaitSync(c) BY <1>10 DEF WaitSync
<1>11. CASE Poll(c) BY <1>11 DEF Poll
<1>12. CASE TakeSnapshot(c) BY <1>12 DEF TakeSnapshot
<1>13. CASE ActiveMarker(c) BY <1>13 DEF ActiveMarker
<1> QED BY <1>1, <1>2, <1>3, <1>4, <1>5, <1>6, <1>7, <1>8, <1>9, <1>10, <1>11, <1>12, <1>13 DEF Step

LEMMA DriverKept == ASSUME Next PROVE drv' = drv
<1>1. CASE Driver
  BY <1>1 DEF Driver, Define, Accept, Finish, Report, Lose, GoDown, Serve
<1>2. ASSUME NEW c \in Clients, Begin(c) PROVE drv' = drv
  BY <1>2 DEF Begin
<1>3. ASSUME NEW c \in Clients, cl[c].req # None, Step(c) PROVE drv' = drv
  BY <1>3 DEF Step, Look, StartMarker, ClearMarker, SetAxis, Sent, SendFails, SentToDead, WaitSettle,
              WaitEcho, WaitSync, Poll, TakeSnapshot, ActiveMarker
<1> QED BY <1>1, <1>2, <1>3 DEF Next, Request

\* The requests after any step.
LEMMA NextMoves ==
  ASSUME Typed, Next
  PROVE  /\ drv' = drv
         /\ \/ AllStay
            \/ \E c \in Clients : Begin(c) \/ (cl[c].req # None /\ Moves(c))
BY DriverKept, DriverStays, StepMoves DEF Next, Request

\* The commands of the two programs that change a mode.
LEMMA SyncCoordsSends ==
  ASSUME NEW s, s = SyncCoords, NEW i \in 1..Len(s), s[i].op = "send"
  PROVE  /\ s[i].v # "points"
         /\ s[i].v = "mode" => (i = 5 /\ s[i].a = "SYNC") \/ (i = 9 /\ s[i].a = "TRACK")
<1>1. i \in 1..9
  BY SyncCoordsListed
<1>2. i \in {3, 5, 6, 9}
  BY <1>1, SyncCoordsListed
<1>3. s[3].v = "align" /\ s[6].v = "eq" /\ s[5].v = "mode" /\ s[5].a = "SYNC" /\ s[9].v = "mode" /\ s[9].a = "TRACK"
  BY SyncCoordsListed
<1> QED BY <1>2, <1>3

LEMMA SetSiteSends ==
  ASSUME NEW s, s = SetSite, NEW i \in 1..Len(s), s[i].op = "send"
  PROVE  /\ s[i].v # "mode"
         /\ s[i].v = "points" => (i = 5 /\ s[i].a = "CLEAR") \/ (i = 7 /\ s[i].a = "APPEND")
<1>1. i \in 1..7
  BY SetSiteListed
<1>2. i \in {3, 5, 6, 7}
  BY <1>1, SetSiteListed
<1>3. /\ s[3].v = "geo" /\ s[6].v = "commit" /\ s[5].v = "points" /\ s[5].a = "CLEAR"
      /\ s[7].v = "points" /\ s[7].a = "APPEND"
  BY SetSiteListed
<1> QED BY <1>2, <1>3

\* What a command is, by the shape of the programs.
LEMMA SentCommand ==
  ASSUME Typed, NEW c \in Clients, Sent(c)
  PROVE  /\ [m |-> Top(c).m, a |-> Top(c).a] \in Cmds /\ Aimed(Top(c)) /\ conn = "up"
         /\ Top(c).v \in {"mode", "points"} => /\ Top(c).op = "send" /\ Top(c).m = None
                                               /\ \/ Top(c).v = "mode" /\ Top(c).a \in {"TRACK", "SYNC"}
                                                  \/ Top(c).v = "points" /\ Top(c).a \in {"APPEND", "CLEAR"}
<1> USE DEF Typed
<1>1. /\ cl[c].req # None /\ conn = "up" /\ Top(c).op \in Commanding
  BY DEF Sent, At, Running, Commanding
<1>2. /\ Sound(cl[c].req, Code(c)) /\ cl[c].pc \in 1..Len(Code(c)) /\ Top(c) \in Instrs
  BY <1>1, CodeSound
<1>3. [m |-> Top(c).m, a |-> Top(c).a] \in Cmds
  BY <1>2 DEF Instrs, Cmds, MarkersOrNone
<1>4. Aimed(Top(c))
  BY <1>2 DEF Sound, Good, Top
<1>5. ASSUME Top(c).v \in {"mode", "points"}
      PROVE  /\ Top(c).op = "send" /\ Top(c).m = None
             /\ \/ Top(c).v = "mode" /\ Top(c).a \in {"TRACK", "SYNC"}
                \/ Top(c).v = "points" /\ Top(c).a \in {"APPEND", "CLEAR"}
  <2>1. Top(c).op = "send"
    BY <1>1, <1>4, <1>5 DEF Aimed, Commanding
  <2>2. Top(c).m = None
    <3>1. Top(c).m \in Markers \cup {None}
      BY <1>2 DEF Instrs
    <3> QED BY <1>1, <1>4, <1>5, <3>1, WatchFacts DEF Aimed
  <2>3. CASE cl[c].req = "SyncCoords"
    BY <1>2, <1>5, <2>1, <2>2, <2>3, SyncCoordsSends DEF Sound, Top
  <2>4. CASE cl[c].req = "SetSite"
    BY <1>2, <1>5, <2>1, <2>2, <2>4, SetSiteSends DEF Sound, Top
  <2>5. CASE cl[c].req \notin {"SyncCoords", "SetSite"}
    BY <1>2, <1>5, <2>1, <2>2, <2>5 DEF Sound, Keeps, Top
  <2> QED BY <2>1, <2>2, <2>3, <2>4, <2>5
<1> QED BY <1>1, <1>3, <1>4, <1>5

LEMMA PublishTyped ==
  ASSUME Typed, NEW v \in drv.props, NEW state \in States \cup {"Busy", None}, Publish(v, state), drv' = drv
  PROVE  /\ vec' \in [drv.props -> States \cup {"Busy", None}]
         /\ acked' \subseteq Markers \X Props /\ crossed' \subseteq Markers
<1>1. v \in Props /\ MarkersOf[v] \subseteq Markers
  BY MotionAssumption DEF Typed, DriverTyped, MarkersOf
<1>2. vec' = [vec EXCEPT ![v] = state] /\ acked' = acked \cup {<<m, v>> : m \in MarkersOf[v]}
  BY DEF Publish
<1>3. crossed' \subseteq Markers
  BY <1>1 DEF Publish, Typed, MarkersTyped
<1>4. acked' \subseteq Markers \X Props
  BY <1>1, <1>2 DEF Typed, MarkersTyped
<1>5. vec' \in [drv.props -> States \cup {"Busy", None}]
  BY <1>2 DEF Typed, DriverTyped
<1> QED BY <1>3, <1>4, <1>5

LEMMA DriverTypedStep ==
  ASSUME Typed, Next PROVE DriverTyped'
<1> USE DEF Typed
<1>0. drv' = drv
  BY DriverKept
<1>1. ASSUME NEW v \in drv.props, Define(v) PROVE DriverTyped'
  BY <1>0, <1>1, PublishTyped DEF Define, DriverTyped, States
<1>2. ASSUME NEW v \in drv.props, Accept(v) PROVE DriverTyped'
  <2>1. Head(pend[v]) \in Cmds /\ Tail(pend[v]) \in Seq(Cmds) /\ Len(Tail(pend[v])) <= MaxPend
    BY <1>2, MotionAssumption DEF Accept, DriverTyped
  <2>2. vec' \in [drv.props -> States \cup {"Busy", None}]
    BY <1>0, <1>2, PublishTyped DEF Accept
  <2> QED BY <1>0, <1>2, <2>1, <2>2 DEF Accept, DriverTyped
<1>3. ASSUME NEW v \in drv.props, Finish(v) PROVE DriverTyped'
  <2>1. pend[v] # << >> => Tail(pend[v]) \in Seq(Cmds) /\ Len(Tail(pend[v])) <= MaxPend
    BY MotionAssumption DEF DriverTyped
  <2>2. vec' \in [drv.props -> States \cup {"Busy", None}]
    BY <1>0, <1>3, PublishTyped DEF Finish
  <2>3. NoCommand \in Cmds
    BY DEF NoCommand, Cmds, MarkersOrNone, Args
  <2>4. /\ conn' = conn /\ mode' = mode /\ run' = [run EXCEPT ![v] = NoCommand]
        /\ pend' = pend \/ (pend[v] # << >> /\ pend' = [pend EXCEPT ![v] = Tail(@)])
    BY <1>3 DEF Finish
  <2> QED BY <1>0, <2>1, <2>2, <2>3, <2>4 DEF DriverTyped
<1>4. ASSUME NEW v \in drv.props, Report(v) PROVE DriverTyped'
  <2>1. vec' \in [drv.props -> States \cup {"Busy", None}]
    BY <1>0, <1>4, PublishTyped DEF Report, States
  <2> QED BY <1>0, <1>4, <2>1 DEF Report, DriverTyped
<1>5. CASE Lose
  <2>1. NoCommand \in Cmds /\ << >> \in Seq(Cmds)
    BY DEF NoCommand, Cmds, MarkersOrNone, Args
  <2>2. FirstMode \in [mode : {"TRACK", "SYNC"}, points : {"APPEND", "CLEAR"}]
    BY DEF FirstMode
  <2> QED BY <1>0, <1>5, <2>1, <2>2, MotionAssumption DEF Lose, DriverTyped
<1>6. CASE GoDown \/ Serve
  BY <1>6 DEF GoDown, Serve, DriverTyped
<1>7. ASSUME NEW c \in Clients, Begin(c) PROVE DriverTyped'
  BY <1>7 DEF Begin, DriverTyped, driverVars
<1>8. ASSUME NEW c \in Clients, cl[c].req # None, Step(c), ~Sent(c) PROVE DriverTyped'
  BY <1>8, StepEffects DEF DriverTyped
<1>9. ASSUME NEW c \in Clients, Sent(c) PROVE DriverTyped'
  <2> DEFINE v == Top(c).v
             cmd == [m |-> Top(c).m, a |-> Top(c).a]
  <2>1. cmd \in Cmds
    BY <1>9, SentCommand
  <2>2. /\ conn' = conn /\ vec' = vec /\ run' = run
        /\ v \in drv.props => Len(pend[v]) < MaxPend
        /\ pend' = pend \/ (State(v) # None /\ pend' = [pend EXCEPT ![v] = Append(@, cmd)])
        /\ mode' = mode \/ (v \in DOMAIN mode /\ mode' = [mode EXCEPT ![v] = Top(c).a])
    BY <1>9 DEF Sent
  <2>3. pend' \in [drv.props -> Seq(Cmds)] /\ \A u \in drv.props : Len(pend'[u]) <= MaxPend
    <3>1. State(v) # None => v \in drv.props
      BY DEF State
    <3> HIDE DEF v, cmd
    <3>2. CASE pend' = pend
      BY <3>2 DEF DriverTyped
    <3>3. CASE v \in drv.props /\ pend' = [pend EXCEPT ![v] = Append(@, cmd)]
      <4>1. Append(pend[v], cmd) \in Seq(Cmds) /\ Len(Append(pend[v], cmd)) = Len(pend[v]) + 1
            /\ Len(pend[v]) \in Nat
        BY <2>1, <3>3 DEF DriverTyped
      <4>2. Len(Append(pend[v], cmd)) <= MaxPend
        BY <2>2, <3>3, <4>1, MotionAssumption
      <4> QED BY <3>3, <4>1, <4>2 DEF DriverTyped
    <3> QED BY <2>2, <3>1, <3>2, <3>3
  <2>4. mode' \in [mode : {"TRACK", "SYNC"}, points : {"APPEND", "CLEAR"}]
    <3>1. CASE mode' = mode
      BY <3>1 DEF DriverTyped
    <3>2. CASE v \in DOMAIN mode /\ mode' = [mode EXCEPT ![v] = Top(c).a]
      <4>1. v \in {"mode", "points"}
        BY <3>2 DEF DriverTyped
      <4>2. \/ v = "mode" /\ Top(c).a \in {"TRACK", "SYNC"}
            \/ v = "points" /\ Top(c).a \in {"APPEND", "CLEAR"}
        BY <1>9, <4>1, SentCommand
      <4> HIDE DEF v
      <4> QED BY <3>2, <4>2 DEF DriverTyped
    <3> QED BY <2>2, <3>1, <3>2
  <2> QED BY <1>0, <2>2, <2>3, <2>4 DEF DriverTyped
<1> QED BY <1>1, <1>2, <1>3, <1>4, <1>5, <1>6, <1>7, <1>8, <1>9 DEF Next, Driver, Request

LEMMA MarkersTypedStep ==
  ASSUME Typed, Next PROVE MarkersTyped'
<1> USE DEF Typed
<1>0. drv' = drv
  BY DriverKept
<1>1. ASSUME NEW v \in drv.props, Define(v) \/ Accept(v) \/ Finish(v) \/ Report(v) PROVE MarkersTyped'
  <2>1. \E s \in States \cup {"Busy", None} : Publish(v, s)
    BY <1>1 DEF Define, Accept, Finish, Report, States
  <2>2. acked' \subseteq Markers \X Props /\ crossed' \subseteq Markers
    BY <1>0, <2>1, PublishTyped
  <2>3. active' = active /\ axis' = axis /\ withdrawn' = withdrawn /\ refused' = refused
    BY <1>1 DEF Define, Accept, Finish, Report
  <2> QED BY <2>2, <2>3 DEF MarkersTyped
<1>2. CASE Lose \/ GoDown \/ Serve
  BY <1>2 DEF Lose, GoDown, Serve, MarkersTyped
<1>3. ASSUME NEW c \in Clients, Begin(c) PROVE MarkersTyped'
  BY <1>3 DEF Begin, MarkersTyped, markerVars
<1>4. ASSUME NEW c \in Clients, cl[c].req # None, StartMarker(c) PROVE MarkersTyped'
  <2>1. Top(c).m \in Markers
    <3>1. Sound(cl[c].req, Code(c)) /\ cl[c].pc \in 1..Len(Code(c)) /\ Top(c).op = "start"
      BY <1>4, CodeSound DEF StartMarker, At
    <3> QED BY <3>1 DEF Sound, Good, Spans, Top
  <2> QED BY <1>4, <2>1 DEF StartMarker, MarkersTyped
<1>5. ASSUME NEW c \in Clients, cl[c].req # None, ClearMarker(c) PROVE MarkersTyped'
  <2>1. cl[c].err # None => cl[c].err \in Markers
    BY DEF RequestsTyped, Records, MarkersOrNone
  <2>2. cl[c].err = None => Top(c).m \in Markers
    <3>1. Sound(cl[c].req, Code(c)) /\ cl[c].pc \in 1..Len(Code(c))
      BY <1>5, CodeSound
    <3>2. cl[c].err = None => Top(c).op = "clear"
      BY <1>5 DEF ClearMarker, At
    <3> QED BY <3>1, <3>2 DEF Sound, Good, Aimed, Top
  <2>3. PICK m : /\ m = IF cl[c].err # None THEN cl[c].err ELSE Top(c).m
                 /\ active' = active \ {m} /\ withdrawn' = withdrawn \cup ({m} \cap Polled)
    BY <1>5 DEF ClearMarker
  <2>4. m \in Markers
    BY <2>1, <2>2, <2>3
  <2>5. acked' = acked /\ axis' = axis /\ crossed' = crossed /\ refused' = refused
    BY <1>5 DEF ClearMarker
  <2> QED BY <2>3, <2>4, <2>5 DEF MarkersTyped
<1>6. ASSUME NEW c \in Clients, SetAxis(c) \/ WaitSync(c) \/ ActiveMarker(c) PROVE MarkersTyped'
  BY <1>6 DEF SetAxis, WaitSync, ActiveMarker, MarkersTyped, markerVars
<1>7. ASSUME NEW c \in Clients, \/ Look(c) \/ Sent(c) \/ SendFails(c) \/ SentToDead(c) \/ WaitSettle(c)
                                \/ WaitEcho(c) \/ Poll(c) \/ TakeSnapshot(c)
      PROVE  MarkersTyped'
  <2>1. UNCHANGED <<markerVars, refused>>
    BY <1>7 DEF Look, Sent, SendFails, SentToDead, WaitSettle, WaitEcho, Poll, TakeSnapshot
  <2> QED BY <2>1 DEF MarkersTyped, markerVars
<1> QED BY <1>1, <1>2, <1>3, <1>4, <1>5, <1>6, <1>7 DEF Next, Driver, Request, Step

LEMMA TypedStep ==
  ASSUME Typed, Next PROVE Typed'
BY NextMoves, RequestsStep, DriverTypedStep, MarkersTypedStep DEF Typed

LEMMA ChildStep ==
  ASSUME Typed, ChildInv, Next PROVE ChildInv'
<1> USE DEF Typed
<1>0. drv' = drv
  BY DriverKept
<1>1. ASSUME NEW v \in drv.props, Define(v) \/ Accept(v) \/ Finish(v) \/ Report(v) PROVE ChildInv'
  <2>1. \E s \in States \cup {"Busy"} : Publish(v, s)
    BY <1>1 DEF Define, Accept, Finish, Report, States
  <2>2. PICK s \in States \cup {"Busy"} : vec' = [vec EXCEPT ![v] = s]
    BY <2>1 DEF Publish
  <2>3. conn = "up" /\ conn' = conn /\ mode' = mode /\ s # None
    BY <1>1, <2>2 DEF Define, Accept, Finish, Report, States, None
  <2>4. \A p \in {"mode", "points"} : State(p) # None => State(p)' # None
    BY <1>0, <2>2, <2>3 DEF State, DriverTyped
  <2> QED BY <2>3, <2>4 DEF ChildInv
<1>2. CASE Lose
  BY <1>0, <1>2 DEF Lose, ChildInv
<1>3. CASE GoDown \/ Serve
  BY <1>3 DEF GoDown, Serve, ChildInv, State
<1>4. ASSUME NEW c \in Clients, Begin(c) PROVE ChildInv'
  BY <1>4 DEF Begin, ChildInv, State, driverVars
<1>5. ASSUME NEW c \in Clients, cl[c].req # None, Step(c), ~Sent(c) PROVE ChildInv'
  BY <1>5, StepEffects DEF ChildInv, State
<1>6. ASSUME NEW c \in Clients, Sent(c) PROVE ChildInv'
  <2>1. /\ conn' = conn /\ vec' = vec
        /\ mode' = mode \/ (State(Top(c).v) # None /\ mode' = [mode EXCEPT ![Top(c).v] = Top(c).a])
    BY <1>6 DEF Sent
  <2>2. \A p : State(p)' = State(p)
    BY <1>0, <2>1 DEF State
  <2> HIDE DEF Top
  <2>3. \A p \in {"mode", "points"} : mode'[p] # mode[p] => State(p) # None
    BY <2>1 DEF DriverTyped
  <2> QED BY <1>0, <2>1, <2>2, <2>3 DEF ChildInv
<1> QED BY <1>1, <1>2, <1>3, <1>4, <1>5, <1>6 DEF Next, Driver, Request

LEMMA PendStep ==
  ASSUME Typed, PendInv, Next PROVE PendInv'
<1> USE DEF Typed
<1>0. drv' = drv
  BY DriverKept
<1>1. ASSUME NEW v \in drv.props, Accept(v) PROVE PendInv'
  <2>1. /\ pend[v] \in Seq(Cmds) /\ pend[v] # << >>
        /\ pend' = [pend EXCEPT ![v] = Tail(pend[v])] /\ run' = [run EXCEPT ![v] = Head(pend[v])]
    BY <1>1 DEF Accept, DriverTyped
  <2>2. Watched(v, Head(pend[v])) /\ \A i \in 1..Len(Tail(pend[v])) : Watched(v, Tail(pend[v])[i])
    <3>1. Head(pend[v]) = pend[v][1] /\ 1 \in 1..Len(pend[v])
      BY <2>1
    <3>2. \A i \in 1..Len(Tail(pend[v])) : i + 1 \in 1..Len(pend[v]) /\ Tail(pend[v])[i] = pend[v][i + 1]
      BY <2>1
    <3> QED BY <3>1, <3>2 DEF PendInv
  <2> QED BY <1>0, <2>1, <2>2 DEF PendInv, DriverTyped
<1>2. ASSUME NEW v \in drv.props, Finish(v) PROVE PendInv'
  <2>1. /\ pend[v] \in Seq(Cmds) /\ run' = [run EXCEPT ![v] = NoCommand]
        /\ pend' = pend \/ (pend[v] # << >> /\ pend' = [pend EXCEPT ![v] = Tail(pend[v])])
    BY <1>2 DEF Finish, DriverTyped
  <2>2. pend[v] # << >> => \A i \in 1..Len(Tail(pend[v])) : Watched(v, Tail(pend[v])[i])
    <3>1. pend[v] # << >> =>
            \A i \in 1..Len(Tail(pend[v])) : i + 1 \in 1..Len(pend[v]) /\ Tail(pend[v])[i] = pend[v][i + 1]
      BY <2>1
    <3> QED BY <3>1 DEF PendInv
  <2>3. Watched(v, NoCommand)
    BY DEF Watched, NoCommand, None
  <2> QED BY <1>0, <2>1, <2>2, <2>3 DEF PendInv, DriverTyped
<1>3. CASE Lose
  <2>1. \A v : Watched(v, NoCommand)
    BY DEF Watched, NoCommand, None
  <2> QED BY <1>0, <1>3, <2>1 DEF PendInv, Lose
<1>4. CASE pend' = pend /\ run' = run
  BY <1>0, <1>4 DEF PendInv
<1>5. ASSUME NEW c \in Clients, Sent(c) PROVE PendInv'
  <2> DEFINE v == Top(c).v
             cmd == [m |-> Top(c).m, a |-> Top(c).a]
  <2>1. /\ run' = run
        /\ pend' = pend \/ (State(v) # None /\ pend' = [pend EXCEPT ![v] = Append(pend[v], cmd)])
    BY <1>5 DEF Sent
  <2>2. cmd \in Cmds /\ Watched(v, cmd)
    BY <1>5, SentCommand DEF Aimed, Watched, Sent, At, Commanding
  <2>3. State(v) # None => v \in drv.props
    BY DEF State
  <2> HIDE DEF v, cmd
  <2>4. CASE v \in drv.props /\ pend' = [pend EXCEPT ![v] = Append(pend[v], cmd)]
    <3>1. \A i \in 1..Len(Append(pend[v], cmd)) : Watched(v, Append(pend[v], cmd)[i])
      <4>1. pend[v] \in Seq(Cmds)
        BY <2>4 DEF DriverTyped
      <4>2. \A i \in 1..Len(Append(pend[v], cmd)) :
              Append(pend[v], cmd)[i] = cmd \/ (i \in 1..Len(pend[v]) /\ Append(pend[v], cmd)[i] = pend[v][i])
        BY <2>2, <4>1
      <4> QED BY <2>2, <2>4, <4>2 DEF PendInv
    <3> QED BY <1>0, <2>1, <2>4, <3>1 DEF PendInv, DriverTyped
  <2> QED BY <1>4, <2>1, <2>3, <2>4
<1>6. ASSUME NEW c \in Clients, Begin(c) \/ (cl[c].req # None /\ Step(c) /\ ~Sent(c))
      PROVE  pend' = pend /\ run' = run
  BY <1>6, StepEffects DEF Begin, driverVars
<1>7. ASSUME \/ \E v \in drv.props : Define(v) \/ Report(v)
             \/ GoDown \/ Serve
      PROVE  pend' = pend /\ run' = run
  BY <1>7 DEF Define, Report, GoDown, Serve
<1> QED BY <1>1, <1>2, <1>3, <1>4, <1>5, <1>6, <1>7 DEF Next, Driver, Request

\* How a command ends: it is written, the dead pipe takes it, or it fails.
LEMMA CommandOutcome ==
  ASSUME Typed, NEW c \in Clients, Running(c), Top(c).op \in Commanding, Step(c)
  PROVE  \/ Sent(c)
         \/ Top(c).op = "send" /\ conn = "gone" /\ Goes(c, 1)
         \/ /\ Top(c).op = "send" => conn # "up"
            /\ \/ Top(c).m = None /\ cl'[c].req = None
               \/ /\ Top(c).m # None /\ cl'[c].req = cl[c].req /\ cl'[c].pc = cl[c].pc
                  /\ cl'[c].err = Top(c).m
<1> USE DEF Typed
<1>1. Top(c).op \in {"send", "write"} /\ cl[c].err = None
  BY DEF Commanding, Running
<1>2. Sent(c) \/ SendFails(c) \/ SentToDead(c)
  <2>1. ~Look(c) BY <1>1 DEF Look, Looks
  <2>2. ~StartMarker(c) BY <1>1 DEF StartMarker, At
  <2>3. ~ClearMarker(c) BY <1>1 DEF ClearMarker, At
  <2>4. ~SetAxis(c) BY <1>1 DEF SetAxis, At
  <2>5. ~WaitSettle(c) /\ ~WaitEcho(c) /\ ~WaitSync(c) BY <1>1 DEF WaitSettle, WaitEcho, WaitSync, At
  <2>6. ~Poll(c) BY <1>1 DEF Poll, At
  <2>7. ~TakeSnapshot(c) /\ ~ActiveMarker(c) BY <1>1 DEF TakeSnapshot, ActiveMarker, At
  <2> QED BY <2>1, <2>2, <2>3, <2>4, <2>5, <2>6, <2>7 DEF Step
<1>3. CASE SendFails(c)
  <2>1. Fails(c) /\ (Top(c).op = "send" => conn # "up")
    BY <1>3 DEF SendFails, At
  <2>2. CASE Top(c).m = None
    BY <2>1, <2>2, EndsMoves DEF Fails
  <2>3. CASE Top(c).m # None
    <3>1. cl' = [cl EXCEPT ![c] = [cl[c] EXCEPT !.err = Top(c).m]] /\ cl[c] \in Records
      BY <2>1, <2>3 DEF Fails, RequestsTyped
    <3>2. cl'[c] = [cl[c] EXCEPT !.err = Top(c).m]
      BY <3>1 DEF RequestsTyped
    <3>3. cl'[c].req = cl[c].req /\ cl'[c].pc = cl[c].pc /\ cl'[c].err = Top(c).m
      BY <3>1, <3>2 DEF Records
    <3> QED BY <2>1, <2>3, <3>3
  <2> QED BY <2>2, <2>3
<1>4. CASE SentToDead(c)
  BY <1>4 DEF SentToDead, At
<1> QED BY <1>2, <1>3, <1>4

\* The request goes to the instruction after this one.
LEMMA NextAt ==
  ASSUME Typed, NEW c \in Clients, Running(c), cl[c].pc + 1 <= Len(Code(c)),
         Code(c)[cl[c].pc + 1].op \notin {"busy", "updated", "still"}
  PROVE  /\ Then(c, 1).req = cl[c].req /\ Then(c, 1).pc = cl[c].pc + 1 /\ Then(c, 1).err = None
         /\ Goes(c, 1) => cl'[c] = Then(c, 1)
<1> USE DEF Typed
<1>1. cl[c] \in Records /\ cl[c].req # None /\ cl[c].err = None
  BY DEF Running, RequestsTyped
<1>2. Then(c, 1) = [cl[c] EXCEPT !.pc = cl[c].pc + 1]
  BY <1>1, ThenAt DEF Blank
<1>3. Goes(c, 1) => cl'[c] = Then(c, 1)
  BY DEF Goes, RequestsTyped
<1> QED BY <1>1, <1>2, <1>3 DEF Records

(***************************************************************************)
(* A request finds the mode it chose.                                       *)
(***************************************************************************)
\* A request that does not move keeps it, while it loses track of what changes.
LEMMA KeepingKept ==
  ASSUME NEW d \in Clients, Keeping(d), drv' = drv,
         cl'[d].req = cl[d].req, cl'[d].pc = cl[d].pc, cl[d].loose \subseteq cl'[d].loose,
         \A p \in {"mode", "points"} : cl[d].req # None =>
           \/ p \in cl'[d].loose
           \/ mode'[p] = mode[p] /\ (State(p) # None => State(p)' # None)
  PROVE  Keeping(d)'
<1>1. Code(d)' = Code(d)
  BY SameCode
<1>2. ASSUME cl[d].req # None, NEW p \in {"mode", "points"}, NEW g \in 1..Len(Code(d)), NEW j \in 1..Len(Code(d)),
             Chooses(Code(d), g, j, p)
      PROVE  Meets(d, g, j, p)'
  <2>1. Meets(d, g, j, p)
    BY <1>2 DEF Keeping
  <2> QED BY <1>1, <1>2, <2>1 DEF Meets
<1> QED BY <1>1, <1>2 DEF Keeping

LEMMA Before ==
  ASSUME NEW x \in Nat, NEW y \in Nat, NEW z \in Nat, x + y < z
  PROVE  x + 1 \in Nat /\ x + 1 <= z /\ x + 1 + y \in Nat /\ x + 1 + y <= z
OBVIOUS

\* A request that moves.
LEMMA KeepingMoves ==
  ASSUME Typed, ChildInv, NEW c \in Clients, cl[c].req # None, Keeping(c), Step(c),
         cl'[c].req # None, Advance(c, cl'[c]),
         NEW p \in {"mode", "points"}, NEW g \in 1..Len(Code(c)), NEW j \in 1..Len(Code(c)),
         Chooses(Code(c), g, j, p)
  PROVE  Meets(c, g, j, p)'
<1> USE DEF Typed
<1> DEFINE s == Code(c)
           q == cl'[c].pc
<1>1. /\ s \in Seq(Instrs) /\ Len(s) \in Nat /\ cl[c].pc \in 1..Len(s) /\ Top(c).n \in Nat
      /\ Running(c) /\ cl'[c].req = cl[c].req /\ cl'[c].err = None /\ Top(c) = s[cl[c].pc]
  BY CodeSound DEF Advance, Top
<1>11. g \in Nat /\ j \in Nat /\ cl[c].pc \in Nat /\ 1 <= g /\ 1 <= cl[c].pc
  BY <1>1
<1>12. Local(c, cl'[c])
  BY DEF Local
<1>2. /\ drv' = drv /\ conn' = conn /\ vec' = vec /\ Code(c)' = s
  BY <1>1, StepEffects, SameCode
<1>3. State(p)' = State(p)
  BY <1>2 DEF State
<1>4. Meets(c, g, j, p)
  BY DEF Keeping
<1>5. /\ g + 1 < j /\ s[g].op = "if" /\ s[g].v = p
      /\ s[g + 1].op = "send" /\ s[g + 1].v = p /\ s[g + 1].a = s[j].a
      /\ \A k \in 1..(g - 1) : k + s[k].n < g
      /\ \A k \in (g + 2)..(j - 1) : s[k].op = "start"
  BY DEF Chooses
<1> HIDE DEF s
<1>6. q \in Nat /\ q > cl[c].pc
  BY <1>1, <1>12, LocalPc
<1>7. CASE cl[c].pc < g
  <2>1. cl[c].pc + Top(c).n < g
    BY <1>1, <1>5, <1>7, <1>11
  <2>2. PICK t \in Nat : t <= g /\ Onward(c, t, q)
    <3>1. cl[c].pc + 1 \in Nat /\ cl[c].pc + 1 <= g /\ cl[c].pc + 1 + Top(c).n \in Nat /\ cl[c].pc + 1 + Top(c).n <= g
      BY <1>1, <1>11, <2>1, Before
    <3> QED BY <3>1 DEF Advance
  <2>3. ~Blank(s[g])
    BY <1>5 DEF Blank
  <2>4. q <= g
    BY <1>6, <2>2, <2>3 DEF Onward, s
  <2> QED BY <1>6, <2>4 DEF Meets
<1>8. CASE cl[c].pc = g
  <2>1. Top(c).op = "if" /\ Top(c).v = p
    BY <1>1, <1>5, <1>8
  <2>2. CASE p \in cl'[c].loose
    BY <2>2 DEF Meets
  <2>3. CASE Onward(c, cl[c].pc + 1, q) /\ State(p) # None
    <3>1. ~Blank(s[g + 1])
      BY <1>5 DEF Blank
    <3>2. q <= g + 1
      BY <1>6, <1>8, <2>3, <3>1 DEF Onward, s
    <3> QED BY <1>3, <1>6, <2>3, <3>2 DEF Meets
  <2> QED BY <2>1, <2>2, <2>3 DEF Advance
<1>9. CASE cl[c].pc = g + 1
  <2>1. Top(c).op = "send" /\ Top(c).v = p /\ Top(c).a = s[j].a /\ Top(c).op \in Commanding
    BY <1>1, <1>5, <1>9 DEF Commanding
  <2>2. p \in cl[c].loose \/ State(p) # None
    BY <1>4, <1>9 DEF Meets
  <2>3. CASE Sent(c)
    <3>1. SentEffect(c) BY <2>3, SentMoves
    <3>2. CASE State(p) = None
      BY <1>1, <2>2, <3>1, <3>2 DEF SentEffect, Meets
    <3>3. CASE State(p) # None
      <4>1. mode' = [mode EXCEPT ![p] = Top(c).a] /\ p \in DOMAIN mode
        BY <2>1, <2>3, <3>3 DEF Sent, DriverTyped
      <4>2. mode'[p] = s[j].a
        BY <2>1, <4>1
      <4> QED BY <1>2, <1>6, <1>9, <4>2 DEF Meets
    <3> QED BY <3>2, <3>3
  <2>4. CASE ~Sent(c) /\ conn = "gone"
    <3>1. State(p) = None
      BY <2>4 DEF ChildInv, State
    <3>2. p \in cl'[c].loose
      BY <2>2, <2>4, <3>1, StepMoves DEF Stays
    <3> QED BY <3>2 DEF Meets
  <2>5. CASE ~Sent(c) /\ conn # "gone"
    BY <1>1, <2>1, <2>5, CommandOutcome
  <2> QED BY <2>3, <2>4, <2>5
<1>10. CASE cl[c].pc > g + 1
  <2>1. CASE q <= j
    <3>0. cl[c].pc \in (g + 2)..(j - 1) /\ cl[c].pc <= j
      BY <1>6, <1>10, <1>11, <2>1
    <3>1. Top(c).op = "start"
      BY <1>1, <1>5, <3>0
    <3>2. ~Sent(c)
      BY <3>1 DEF Sent, At
    <3>3. mode' = mode /\ cl[c].loose \subseteq cl'[c].loose
      BY <3>2, StepEffects, StepMoves DEF Stays
    <3>4. p \in cl[c].loose \/ mode[p] = s[j].a
      BY <1>4, <1>10, <3>0 DEF Meets, s
    <3>5. p \in cl'[c].loose \/ mode'[p] = s[j].a
      BY <3>3, <3>4
    <3> QED BY <1>2, <1>6, <1>10, <1>11, <3>5 DEF Meets
  <2>2. CASE q > j
    BY <1>2, <1>5, <1>6, <2>2 DEF Meets
  <2> QED BY <1>6, <1>1, <2>1, <2>2
<1> QED BY <1>1, <1>7, <1>8, <1>9, <1>10

LEMMA LooseStep ==
  ASSUME Typed, ChildInv, LooseInv, Next PROVE LooseInv'
<1> USE DEF Typed
<1>0. drv' = drv
  BY DriverKept
<1>1. ASSUME NEW v \in drv.props, Define(v) \/ Accept(v) \/ Finish(v) \/ Report(v) PROVE LooseInv'
  <2>1. AllStay /\ mode' = mode
    BY <1>1, DriverStays DEF Driver, Define, Accept, Finish, Report
  <2>2. PICK s \in States \cup {"Busy"} : vec' = [vec EXCEPT ![v] = s]
    BY <1>1 DEF Define, Accept, Finish, Report, Publish, States
  <2>3. \A p : State(p) # None => State(p)' # None
    BY <1>0, <2>2 DEF State, DriverTyped, States, None
  <2> QED BY <1>0, <2>1, <2>3, KeepingKept DEF LooseInv, AllStay
<1>2. CASE Lose
  <2>1. AllStay /\ mode' = FirstMode
    BY <1>2, DriverStays DEF Driver, Lose
  <2>2. ASSUME NEW d \in Clients, NEW p \in {"mode", "points"}, cl[d].req # None
        PROVE  \/ p \in cl'[d].loose
               \/ mode'[p] = mode[p] /\ (State(p) # None => State(p)' # None)
    <3>1. CASE p \in drv.props
      <4>1. cl[d] \in Records /\ cl'[d] = Loosen(cl[d], drv.props)
        BY <1>2 DEF Lose, RequestsTyped
      <4> QED BY <2>2, <3>1, <4>1, LoosenUpdate
    <3>2. CASE p \notin drv.props
      BY <2>1, <3>2 DEF ChildInv, State
    <3> QED BY <3>1, <3>2
  <2> QED BY <1>0, <2>1, <2>2, KeepingKept DEF LooseInv, AllStay
<1>3. CASE GoDown \/ Serve
  BY <1>0, <1>3, KeepingKept DEF GoDown, Serve, LooseInv, State
<1>4. ASSUME NEW c \in Clients, Begin(c) PROVE LooseInv'
  <2>1. Others(c) /\ cl'[c].pc = 1 /\ mode' = mode /\ vec' = vec
    BY <1>4, BeginMoves DEF Begin, driverVars
  <2>2. Keeping(c)'
    BY <2>1 DEF Keeping, Meets
  <2>3. \A p : State(p)' = State(p)
    BY <1>0, <2>1 DEF State
  <2>4. \A d \in Clients \ {c} : Keeping(d)'
    BY <1>0, <2>1, <2>3, KeepingKept DEF Others, LooseInv
  <2> QED BY <2>2, <2>4 DEF LooseInv
<1>5. ASSUME NEW c \in Clients, cl[c].req # None, Step(c) PROVE LooseInv'
  <2>1. Moves(c) /\ Others(c) /\ Local(c, cl'[c]) /\ Keeping(c)
    BY <1>5, StepMoves DEF Moves, LooseInv
  <2>2. vec' = vec /\ (mode' = mode \/ Sent(c))
    BY <1>5, StepEffects
  <2>3. \A p : State(p)' = State(p)
    BY <1>0, <2>2 DEF State
  <2>4. ASSUME NEW d \in Clients \ {c} PROVE Keeping(d)'
    <3>1. ASSUME NEW p \in {"mode", "points"}, cl[d].req # None, mode'[p] # mode[p] PROVE p \in cl'[d].loose
      <4>1. Sent(c)
        BY <2>2, <3>1
      <4>2. mode' = mode \/ mode' = [mode EXCEPT ![Top(c).v] = Top(c).a]
        BY <4>1 DEF Sent
      <4> HIDE DEF Top
      <4>3. Top(c).v = p
        BY <3>1, <4>2 DEF DriverTyped
      <4> QED BY <3>1, <4>1, <4>3, SentMoves DEF SentEffect
    <3> QED BY <1>0, <2>1, <2>3, <3>1, KeepingKept DEF Others, LooseInv
  <2>5. Keeping(c)'
    <3>1. CASE cl'[c].req = None
      BY <3>1 DEF Keeping
    <3>2. CASE cl'[c].req # None /\ Advance(c, cl'[c])
      <4>1. cl'[c].req = cl[c].req
        BY <3>2 DEF Advance
      <4>2. Code(c)' = Code(c)
        BY <1>0, <4>1, SameCode
      <4> QED BY <1>5, <2>1, <3>2, <4>2, KeepingMoves DEF Keeping
    <3>3. CASE cl'[c].req = cl[c].req /\ cl'[c].pc = cl[c].pc /\ cl'[c].err # None
      <4>1. ~Sent(c)
        <5>1. ASSUME Sent(c) PROVE FALSE
          <6>1. cl'[c].req = Then(c, 1).req /\ cl'[c].err = Then(c, 1).err /\ Running(c)
            BY <5>1, SentMoves DEF SentEffect, Sent, At
          <6> QED BY <1>5, <3>3, <6>1, ThenNext
        <5> QED BY <5>1
      <4>2. mode' = mode /\ cl[c].loose \subseteq cl'[c].loose
        BY <1>5, <2>2, <3>3, <4>1, StepMoves DEF Stays
      <4> QED BY <1>0, <2>1, <2>3, <3>3, <4>2, KeepingKept
    <3> QED BY <2>1, <3>1, <3>2, <3>3 DEF Local
  <2> QED BY <2>4, <2>5 DEF LooseInv
<1> QED BY <1>1, <1>2, <1>3, <1>4, <1>5 DEF Next, Driver, Request

(***************************************************************************)
(* A mode is put back.                                                      *)
(***************************************************************************)
\* Request c has changed mode p and goes on to put it back.
Back(c, p) == IF p = "mode" THEN Restoring(c, "SyncCoords", 6, 9) ELSE Restoring(c, "SetSite", 6, 7)

\* A command that leaves a mode changed is followed by one that puts it back.
LEMMA SentChanges ==
  ASSUME Typed, NEW c \in Clients, Sent(c), NEW p \in {"mode", "points"},
         mode'[p] # mode[p], mode'[p] # FirstMode[p]
  PROVE  Back(c, p)'
<1> USE DEF Typed
<1>1. Running(c) /\ cl[c].req # None /\ SentEffect(c)
  BY SentMoves DEF Sent, At, Running
<1>2. Sound(cl[c].req, Code(c)) /\ cl[c].pc \in 1..Len(Code(c)) /\ Len(Code(c)) \in Nat
  BY <1>1, CodeSound
<1>3. mode' = [mode EXCEPT ![Top(c).v] = Top(c).a]
  BY DEF Sent
<1>4. Top(c).v = p /\ Top(c).a # FirstMode[p]
  <2> HIDE DEF Top
  <2> QED BY <1>3 DEF DriverTyped
<1>5. Top(c).op = "send" /\ Top(c) = Code(c)[cl[c].pc]
  BY <1>4, SentCommand DEF Top
<1>6. CASE cl[c].req = "SyncCoords"
  <2>1. Code(c) = SyncCoords
    BY <1>2, <1>6 DEF Sound
  <2>2. p = "mode" /\ cl[c].pc = 5
    BY <1>2, <1>4, <1>5, <2>1, SyncCoordsSends DEF FirstMode
  <2>3. Len(Code(c)) = 9 /\ Code(c)[6].op = "send"
    BY <2>1, SyncCoordsListed
  <2>4. Then(c, 1).req = "SyncCoords" /\ Then(c, 1).pc = 6 /\ Then(c, 1).err = None
    BY <1>1, <1>6, <2>2, <2>3, NextAt
  <2> QED BY <1>1, <2>2, <2>4 DEF SentEffect, Back, Restoring
<1>7. CASE cl[c].req = "SetSite"
  <2>1. Code(c) = SetSite
    BY <1>2, <1>7 DEF Sound
  <2>2. p = "points" /\ cl[c].pc = 5
    BY <1>2, <1>4, <1>5, <2>1, SetSiteSends DEF FirstMode
  <2>3. Len(Code(c)) = 7 /\ Code(c)[6].op = "send"
    BY <2>1, SetSiteListed
  <2>4. Then(c, 1).req = "SetSite" /\ Then(c, 1).pc = 6 /\ Then(c, 1).err = None
    <3>1. cl[c].pc + 1 = 6 /\ cl[c].pc + 1 <= Len(Code(c))
      BY <2>2, <2>3
    <3>2. Code(c)[cl[c].pc + 1].op \notin {"busy", "updated", "still"}
      BY <2>3, <3>1
    <3> QED BY <1>1, <1>7, <3>1, <3>2, NextAt
  <2> QED BY <1>1, <2>2, <2>4 DEF SentEffect, Back, Restoring
<1>8. CASE cl[c].req \notin {"SyncCoords", "SetSite"}
  BY <1>2, <1>4, <1>5, <1>8 DEF Sound, Keeps, FirstMode
<1> QED BY <1>6, <1>7, <1>8

\* Whoever is on its way puts it back, unless the sync is refused.
LEMMA BackMoves ==
  ASSUME Typed, ChildInv, NEW c \in Clients, cl[c].req # None, Step(c), NEW p \in {"mode", "points"},
         mode[p] # FirstMode[p], mode'[p] # FirstMode[p], Back(c, p)
  PROVE  Back(c, p)' \/ (p = "mode" /\ refused' = TRUE)
<1> USE DEF Typed
<1>1. State(p) # None /\ conn = "up"
  BY DEF ChildInv, State, DriverTyped
<1>2. /\ Running(c) /\ Sound(cl[c].req, Code(c)) /\ Top(c) = Code(c)[cl[c].pc] /\ cl[c].pc \in Nat
      /\ cl[c].pc \in 1..Len(Code(c))
  BY CodeSound DEF Back, Restoring, Running, Top
<1>3. ASSUME Top(c).op = "send" PROVE Sent(c) /\ SentEffect(c)
  BY <1>1, <1>2, <1>3, CommandOutcome, SentMoves DEF Commanding
<1>4. ASSUME Top(c).op = "send", Top(c).v = p PROVE mode'[p] = Top(c).a
  <2>1. mode' = [mode EXCEPT ![p] = Top(c).a] /\ p \in DOMAIN mode
    BY <1>1, <1>3, <1>4 DEF Sent, DriverTyped
  <2> QED BY <2>1
<1>5. CASE p = "mode"
  <2>1. cl[c].req = "SyncCoords" /\ cl[c].pc \in {6, 7, 8, 9} /\ Code(c) = SyncCoords
    BY <1>2, <1>5 DEF Back, Restoring, Sound
  <2>2. /\ Len(Code(c)) = 9 /\ Code(c)[6].op = "send" /\ Code(c)[7].op = "syncseen"
        /\ Code(c)[8].op = "if" /\ Code(c)[8].v = "mode" /\ Code(c)[8].a = None
        /\ Code(c)[9].op = "send" /\ Code(c)[9].v = "mode" /\ Code(c)[9].a = "TRACK"
    BY <2>1, SyncCoordsListed
  <2>3. ASSUME cl[c].pc # 9
        PROVE  /\ Then(c, 1).req = "SyncCoords" /\ Then(c, 1).pc = cl[c].pc + 1 /\ Then(c, 1).err = None
               /\ Goes(c, 1) => cl'[c] = Then(c, 1)
    <3>1. cl[c].pc + 1 <= Len(Code(c)) /\ Code(c)[cl[c].pc + 1].op \notin {"busy", "updated", "still"}
      BY <2>1, <2>2, <2>3
    <3> QED BY <1>2, <2>1, <3>1, NextAt
  <2>4. CASE cl[c].pc = 6
    BY <1>2, <1>3, <1>5, <2>2, <2>3, <2>4 DEF SentEffect, Back, Restoring
  <2>5. CASE cl[c].pc = 7
    <3>1. Top(c).op = "syncseen" /\ cl[c].err = None
      BY <1>2, <2>2, <2>5 DEF Running
    <3>2. Goes(c, 1) \/ refused' = TRUE
      <4>1. WaitSync(c)
        <5>1. ~Look(c) /\ ~StartMarker(c) /\ ~SetAxis(c) /\ ~Sent(c) /\ ~SendFails(c) /\ ~SentToDead(c)
          BY <3>1 DEF Look, Looks, StartMarker, SetAxis, Sent, SendFails, SentToDead, At
        <5>2. ~ClearMarker(c) /\ ~WaitSettle(c) /\ ~WaitEcho(c) /\ ~Poll(c) /\ ~TakeSnapshot(c) /\ ~ActiveMarker(c)
          BY <3>1 DEF ClearMarker, WaitSettle, WaitEcho, Poll, TakeSnapshot, ActiveMarker, At
        <5> QED BY <5>1, <5>2 DEF Step
      <4> QED BY <4>1 DEF WaitSync
    <3> QED BY <1>5, <2>3, <2>5, <3>2 DEF Back, Restoring
  <2>6. CASE cl[c].pc = 8
    <3>1. Top(c).op = "if" /\ Top(c).v = "mode" /\ Top(c).a = None /\ cl[c].err = None
      BY <1>2, <2>2, <2>6 DEF Running
    <3>2. Look(c)
      <5>1. /\ ~StartMarker(c) /\ ~SetAxis(c) /\ ~Sent(c) /\ ~SendFails(c) /\ ~SentToDead(c)
            /\ ~WaitSync(c)
        BY <3>1 DEF StartMarker, SetAxis, Sent, SendFails, SentToDead, WaitSync, At
      <5>2. ~ClearMarker(c) /\ ~WaitSettle(c) /\ ~WaitEcho(c) /\ ~Poll(c) /\ ~TakeSnapshot(c) /\ ~ActiveMarker(c)
        BY <3>1 DEF ClearMarker, WaitSettle, WaitEcho, Poll, TakeSnapshot, ActiveMarker, At
      <5> QED BY <5>1, <5>2 DEF Step
    <3>3. Has("mode")
      BY <1>1, <1>5 DEF Has, Avail
    <3>4. Goes(c, 1)
      BY <3>1, <3>2, <3>3 DEF Look, At
    <3> QED BY <1>5, <2>3, <2>6, <3>4 DEF Back, Restoring
  <2>7. CASE cl[c].pc = 9
    BY <1>2, <1>4, <1>5, <2>2, <2>7 DEF FirstMode
  <2> QED BY <2>1, <2>4, <2>5, <2>6, <2>7
<1>6. CASE p = "points"
  <2>1. cl[c].req = "SetSite" /\ cl[c].pc \in {6, 7} /\ Code(c) = SetSite
    BY <1>2, <1>6 DEF Back, Restoring, Sound
  <2>2. /\ Len(Code(c)) = 7 /\ Code(c)[6].op = "send"
        /\ Code(c)[7].op = "send" /\ Code(c)[7].v = "points" /\ Code(c)[7].a = "APPEND"
    BY <2>1, SetSiteListed
  <2>3. CASE cl[c].pc = 6
    <3>1. Then(c, 1).req = "SetSite" /\ Then(c, 1).pc = 7 /\ Then(c, 1).err = None
      BY <1>2, <2>1, <2>2, <2>3, NextAt
    <3> QED BY <1>2, <1>3, <1>6, <2>2, <2>3, <3>1 DEF SentEffect, Back, Restoring
  <2>4. CASE cl[c].pc = 7
    BY <1>2, <1>4, <1>6, <2>2, <2>4 DEF FirstMode
  <2> QED BY <2>1, <2>3, <2>4
<1> QED BY <1>5, <1>6

LEMMA RestStep ==
  ASSUME Typed, ChildInv, RestInv, Next PROVE RestInv'
<1> USE DEF Typed
<1> DEFINE Rest(p) == mode[p] # FirstMode[p] => (p = "mode" /\ refused) \/ \E c \in Clients : Back(c, p)
<1>1. RestInv <=> Rest("mode") /\ Rest("points")
  BY DEF RestInv, Back, FirstMode
<1>2. RestInv' <=> Rest("mode")' /\ Rest("points")'
  BY DEF RestInv, Back, FirstMode
<1>3. ASSUME NEW p \in {"mode", "points"} PROVE Rest(p)'
  <2>1. Rest(p)
    BY <1>1
  <2>2. ASSUME NEW d, Back(d, p), cl'[d].req = cl[d].req, cl'[d].pc = cl[d].pc, cl'[d].err = cl[d].err
        PROVE  Back(d, p)'
    BY <2>2 DEF Back, Restoring
  <2>3. CASE mode' = mode /\ refused' = refused /\ AllStay
    BY <2>1, <2>2, <2>3 DEF AllStay
  <2>4. CASE Lose
    BY <2>4 DEF Lose
  <2>5. ASSUME NEW c \in Clients, Begin(c) PROVE Rest(p)'
    <3>1. Others(c) /\ mode' = mode /\ refused' = refused /\ cl[c].req = None
      BY <2>5, BeginMoves DEF Begin, driverVars
    <3>2. ~Back(c, p)
      BY <3>1 DEF Back, Restoring, None
    <3> QED BY <2>1, <2>2, <3>1, <3>2 DEF Others
  <2>6. ASSUME NEW c \in Clients, cl[c].req # None, Step(c), mode'[p] # FirstMode[p]
        PROVE  (p = "mode" /\ refused') \/ \E d \in Clients : Back(d, p)'
    <3>1. Others(c) /\ (mode' = mode \/ Sent(c)) /\ (refused' = refused \/ refused' = TRUE)
      BY <2>6, StepMoves, StepEffects DEF Moves
    <3>2. CASE mode'[p] # mode[p]
      BY <2>6, <3>1, <3>2, SentChanges
    <3>3. CASE mode[p] # FirstMode[p]
      <4>1. CASE p = "mode" /\ refused
        BY <3>1, <4>1
      <4>2. ASSUME NEW d \in Clients, Back(d, p) PROVE (p = "mode" /\ refused') \/ Back(d, p)'
        <5>1. CASE d # c
          BY <2>2, <3>1, <4>2, <5>1 DEF Others
        <5>2. CASE d = c
          BY <2>6, <3>3, <4>2, <5>2, BackMoves
        <5> QED BY <5>1, <5>2
      <4> QED BY <2>1, <3>3, <4>1, <4>2
    <3> QED BY <2>6, <3>2, <3>3
  <2>7. Driver => Lose \/ (mode' = mode /\ refused' = refused /\ AllStay)
    BY DriverStays DEF Driver, Define, Accept, Finish, Report, GoDown, Serve
  <2> QED BY <2>3, <2>4, <2>5, <2>6, <2>7 DEF Next, Request
<1> QED BY <1>1, <1>2, <1>3

(***************************************************************************)
(* A marker has a cause.                                                    *)
(***************************************************************************)
Caused(m) == Excused(m) \/ Outstanding(m) \/ \E c \in Clients : Zone(c, m)

\* Inside the span of a marker a request stops at every instruction.
LEMMA SpanNext ==
  ASSUME Typed, NEW c \in Clients, Running(c), NEW i \in 1..Len(Code(c)), NEW j \in 1..Len(Code(c)),
         Spans(Code(c), i, j), NEW n \in Nat, i < cl[c].pc + n, cl[c].pc + n <= j
  PROVE  Then(c, n).req = cl[c].req /\ Then(c, n).pc = cl[c].pc + n /\ Then(c, n).err = None
<1> USE DEF Typed
<1>1. cl[c] \in Records /\ cl[c].req # None /\ cl[c].err = None
  BY DEF Running, RequestsTyped
<1>2. cl[c].pc \in 1..Len(Code(c)) /\ Len(Code(c)) \in Nat /\ cl[c].pc + n \in Nat /\ cl[c].pc + n <= Len(Code(c))
  BY <1>1, CodeSound
<1>3. Code(c)[cl[c].pc + n].op \in {"if", "send", "write"}
  <2>1. CASE cl[c].pc + n = j
    BY <2>1 DEF Spans, Commanding
  <2>2. CASE cl[c].pc + n # j
    <3>1. cl[c].pc + n \in (i + 1)..(j - 1)
      BY <1>2, <2>2
    <3> QED BY <3>1 DEF Spans, Commanding
  <2> QED BY <2>1, <2>2
<1>4. Then(c, n) = [cl[c] EXCEPT !.pc = cl[c].pc + n]
  BY <1>1, <1>2, <1>3, ThenAt DEF Blank
<1> QED BY <1>1, <1>2, <1>4 DEF Records

\* A branch goes one of two ways.
LEMMA IfMoves ==
  ASSUME Typed, NEW c \in Clients, Running(c), Top(c).op = "if", Step(c)
  PROVE  \E n \in {1, 1 + Top(c).n} : /\ cl'[c].req = Then(c, n).req /\ cl'[c].pc = Then(c, n).pc
                                      /\ cl'[c].err = Then(c, n).err
<1> USE DEF Typed
<1>1. cl[c].err = None
  BY DEF Running
<1>2. Look(c)
  <2>1. /\ ~StartMarker(c) /\ ~SetAxis(c) /\ ~Sent(c) /\ ~SendFails(c) /\ ~SentToDead(c) /\ ~WaitSync(c)
    BY DEF StartMarker, SetAxis, Sent, SendFails, SentToDead, WaitSync, At
  <2>2. /\ ~ClearMarker(c) /\ ~WaitSettle(c) /\ ~WaitEcho(c) /\ ~Poll(c) /\ ~TakeSnapshot(c)
        /\ ~ActiveMarker(c)
    BY <1>1 DEF ClearMarker, WaitSettle, WaitEcho, Poll, TakeSnapshot, ActiveMarker, At
  <2> QED BY <2>1, <2>2 DEF Step
<1> DEFINE y == Then(c, 1 + Top(c).n)
<1>3. Goes(c, 1) \/ cl' = [cl EXCEPT ![c] = Loosen(y, {Top(c).v})]
  BY <1>2 DEF Look, At
<1>4. CASE Goes(c, 1)
  BY <1>4 DEF Goes, RequestsTyped
<1>5. CASE cl' = [cl EXCEPT ![c] = Loosen(y, {Top(c).v})]
  <2>1. y \in Records
    BY ThenBranch
  <2>2. cl'[c] = Loosen(y, {Top(c).v})
    BY <1>5 DEF RequestsTyped
  <2> HIDE DEF y
  <2>3. cl'[c].req = y.req /\ cl'[c].pc = y.pc /\ cl'[c].err = y.err
    BY <2>1, <2>2, LoosenUpdate
  <2> QED BY <2>3 DEF y
<1> QED BY <1>3, <1>4, <1>5

\* The driver publishes v: it answers the commands it had on v.
LEMMA PublishCaused ==
  ASSUME Typed, PendInv, NEW m \in Markers, Caused(m), NEW v \in drv.props, drv' = drv, AllStay,
         NEW s, s # None, Publish(v, s),
         \A u \in drv.props \ {v} : pend'[u] = pend[u] /\ run'[u] = run[u],
         DOMAIN pend' = DOMAIN pend
  PROVE  Caused(m)'
<1> USE DEF Typed
<1>1. /\ vec' = [vec EXCEPT ![v] = s] /\ acked' = acked \cup {<<x, v>> : x \in MarkersOf[v]}
      /\ v \in Props
  BY MotionAssumption DEF Publish, DriverTyped
<1>2. v \in Watch[m] => Excused(m)'
  BY <1>1 DEF Excused, MarkersOf
<1>3. v \in {"rel", "hor"} => Excused(m)'
  BY DEF Excused
<1>4. CASE Excused(m)
  <2>1. \A u \in drv.props : (vec[u] = None \/ <<m, u>> \in acked) =>
           u = v \/ vec'[u] = None \/ <<m, u>> \in acked'
    BY <1>1 DEF DriverTyped
  <2>2. Excused(m)'
    BY <1>2, <1>4, <2>1 DEF Excused
  <2> QED BY <2>2 DEF Caused
<1>5. CASE Outstanding(m)
  <2>1. m # None
    BY DEF Markers, None
  <2>2. PICK u \in drv.props : run[u].m = m \/ \E i \in 1..Len(pend[u]) : pend[u][i].m = m
    BY <1>5 DEF Outstanding, Waiting, DriverTyped
  <2>3. CASE u = v
    <3>1. v \in Watch[m] \/ v \in {"rel", "hor"}
      BY <2>1, <2>2, <2>3 DEF PendInv, Watched
    <3> QED BY <1>2, <1>3, <3>1 DEF Caused
  <2>4. CASE u # v
    <3>1. pend'[u] = pend[u] /\ run'[u] = run[u] /\ u \in DOMAIN pend'
      BY <2>4 DEF DriverTyped
    <3>2. Outstanding(m)'
      BY <2>2, <3>1 DEF Outstanding, Waiting
    <3> QED BY <3>2 DEF Caused
  <2> QED BY <2>3, <2>4
<1>6. ASSUME NEW d \in Clients, Zone(d, m) PROVE Zone(d, m)'
  BY <1>6, SameCode DEF AllStay, Zone
<1> QED BY <1>4, <1>5, <1>6 DEF Caused

\* The last command of a span.
LEMMA SpanEnds ==
  ASSUME Typed, GuardInv, ChildInv, NEW c \in Clients, Sent(c), NEW m \in Markers, Top(c).m = m,
         NEW i \in 1..Len(Code(c)), Spans(Code(c), i, cl[c].pc), drv' = drv
  PROVE  Excused(m)' \/ Outstanding(m)'
<1> USE DEF Typed
<1> DEFINE v == Top(c).v
           cmd == [m |-> Top(c).m, a |-> Top(c).a]
<1>1. /\ Running(c) /\ cl[c].req # None /\ Top(c).op \in Commanding /\ Top(c) = Code(c)[cl[c].pc] /\ m # None
      /\ cl[c].pc \in 1..Len(Code(c)) /\ Len(Code(c)) \in Nat
  BY CodeSound DEF Sent, At, Running, Commanding, Top, Markers, None
<1>2. v \in Watch[m] \cup {"rel", "hor"}
  BY <1>1, SentCommand DEF Aimed
<1>3. vec' = vec /\ acked' = acked
  BY DEF Sent, markerVars
<1>4. v \in drv.props \/ Watch[m] = {v}
  <2>1. CASE Top(c).op = "write"
    BY <2>1 DEF Sent, At, Has, State
  <2>2. CASE \E g \in 1..(cl[c].pc - 1) : Guards(Code(c), g, cl[c].pc)
    <3>1. PICK g \in 1..(cl[c].pc - 1) : Guards(Code(c), g, cl[c].pc)
      BY <2>2
    <3>2. g \in 1..Len(Code(c)) /\ g < cl[c].pc /\ cl[c].pc <= cl[c].pc
      BY <1>1, <3>1
    <3>3. Code(c)[g].v \in drv.props /\ Code(c)[g].v = v
      BY <1>1, <3>1, <3>2 DEF GuardInv, Guards
    <3> QED BY <3>3
  <2> QED BY <1>1, <2>1, <2>2 DEF Spans
<1>5. CASE v \in {"rel", "hor"}
  <2>1. v \in drv.props => Excused(m)'
    BY <1>5 DEF Excused
  <2>2. v \notin drv.props => Watch[m] \cap drv.props = {}
    BY <1>4
  <2> QED BY <2>1, <2>2 DEF Excused
<1>6. CASE v \in Watch[m] /\ State(v) = None
  BY <1>3, <1>4, <1>6 DEF Excused, State
<1>7. CASE v \in Watch[m] /\ State(v) # None
  <2>1. v \in drv.props
    BY <1>7 DEF State
  <2>2. v \notin DOMAIN mode \cup {"abort", "commit"}
    BY <1>7, WatchFacts DEF DriverTyped
  <2>3. pend' = [pend EXCEPT ![v] = Append(pend[v], cmd)]
    BY <1>7, <2>2 DEF Sent
  <2>4. cmd.m = m /\ cmd \in Cmds
    BY SentCommand
  <2> HIDE DEF v, cmd
  <2>5. pend[v] \in Seq(Cmds) /\ pend'[v] = Append(pend[v], cmd) /\ v \in DOMAIN pend'
    BY <2>1, <2>3 DEF DriverTyped
  <2>6. Len(pend'[v]) \in 1..Len(pend'[v]) /\ pend'[v][Len(pend'[v])] = cmd
    BY <2>4, <2>5
  <2>7. Outstanding(m)'
    BY <2>4, <2>5, <2>6 DEF Outstanding, Waiting
  <2> QED BY <2>7
<1> QED BY <1>2, <1>5, <1>6, <1>7

\* What a step of a request leaves as it was.
LEMMA CausedElsewhere ==
  ASSUME Typed, NEW c \in Clients, cl[c].req # None, Step(c), NEW m \in Markers,
         StartMarker(c) => m # Top(c).m,
         Excused(m) \/ Outstanding(m) \/ \E d \in Clients \ {c} : Zone(d, m)
  PROVE  Caused(m)'
<1> USE DEF Typed
<1>1. /\ drv' = drv /\ vec' = vec /\ run' = run /\ (pend' = pend \/ Sent(c)) /\ Others(c)
      /\ acked' = acked \/ StartMarker(c)
  BY StepEffects, StepMoves DEF Moves
<1>2. CASE Excused(m)
  <2>1. \A v : <<m, v>> \in acked => <<m, v>> \in acked'
    BY <1>1 DEF StartMarker
  <2>2. Excused(m)'
    BY <1>1, <1>2, <2>1 DEF Excused
  <2> QED BY <2>2 DEF Caused
<1>3. CASE Outstanding(m)
  <2> DEFINE v == Top(c).v
             cmd == [m |-> Top(c).m, a |-> Top(c).a]
  <2>1. \/ pend' = pend
        \/ v \in drv.props /\ cmd \in Cmds /\ pend' = [pend EXCEPT ![v] = Append(pend[v], cmd)]
    BY <1>1, SentCommand DEF Sent, State
  <2> HIDE DEF v, cmd
  <2>2. DOMAIN pend' = DOMAIN pend
    BY <2>1 DEF DriverTyped
  <2>3. ASSUME NEW u \in drv.props, NEW i \in 1..Len(pend[u])
        PROVE  i \in 1..Len(pend'[u]) /\ pend'[u][i] = pend[u][i]
    <3>1. pend[u] \in Seq(Cmds)
      BY DEF DriverTyped
    <3>2. CASE pend'[u] = pend[u]
      BY <3>2
    <3>3. CASE cmd \in Cmds /\ pend'[u] = Append(pend[u], cmd)
      BY <3>1, <3>3
    <3>4. pend'[u] = pend[u] \/ (cmd \in Cmds /\ pend'[u] = Append(pend[u], cmd))
      BY <2>1 DEF DriverTyped
    <3> QED BY <3>2, <3>3, <3>4
  <2>4. Outstanding(m)'
    BY <1>1, <1>3, <2>2, <2>3 DEF Outstanding, Waiting, DriverTyped
  <2> QED BY <2>4 DEF Caused
<1>4. ASSUME NEW d \in Clients \ {c}, Zone(d, m) PROVE Caused(m)'
  <2>1. Code(d)' = Code(d)
    BY <1>1, SameCode DEF Others
  <2>2. Zone(d, m)'
    BY <1>1, <1>4, <2>1 DEF Others, Zone
  <2> QED BY <2>2 DEF Caused
<1> QED BY <1>2, <1>3, <1>4

\* The request that has set the marker goes on.
LEMMA CausedOwn ==
  ASSUME Typed, GuardInv, ChildInv, NEW c \in Clients, cl[c].req # None, Step(c), NEW m \in Markers,
         m \in active', Zone(c, m)
  PROVE  Caused(m)'
<1> USE DEF Typed
<1>1. /\ drv' = drv /\ vec' = vec /\ conn' = conn /\ m # None
      /\ cl[c].pc \in 1..Len(Code(c)) /\ Len(Code(c)) \in Nat /\ Top(c) = Code(c)[cl[c].pc] /\ Top(c).n \in Nat
  BY StepEffects, CodeSound DEF Markers, None, Top
<1>2. cl[c].err = None
  <2>1. ASSUME cl[c].err # None PROVE FALSE
    <3>1. cl[c].err = m
      BY <2>1 DEF Zone
    <3>2. ClearMarker(c)
      <4>1. /\ ~Look(c) /\ ~StartMarker(c) /\ ~SetAxis(c) /\ ~Sent(c) /\ ~SendFails(c) /\ ~SentToDead(c)
            /\ ~WaitSync(c)
        BY <2>1 DEF Look, StartMarker, SetAxis, Sent, SendFails, SentToDead, WaitSync, At, Running
      <4>2. ~WaitSettle(c) /\ ~WaitEcho(c) /\ ~Poll(c) /\ ~TakeSnapshot(c) /\ ~ActiveMarker(c)
        BY <2>1 DEF WaitSettle, WaitEcho, Poll, TakeSnapshot, ActiveMarker, At, Running
      <4> QED BY <4>1, <4>2 DEF Step
    <3> QED BY <1>1, <3>1, <3>2 DEF ClearMarker
  <2> QED BY <2>1
<1>3. PICK i \in 1..Len(Code(c)), j \in 1..Len(Code(c)) :
        Spans(Code(c), i, j) /\ Code(c)[i].m = m /\ i < cl[c].pc /\ cl[c].pc <= j
  BY <1>1, <1>2 DEF Zone
<1>4. Running(c)
  BY <1>2 DEF Running
<1>5. ASSUME NEW n \in Nat, i < cl[c].pc + n, cl[c].pc + n <= j,
             cl'[c].req = Then(c, n).req, cl'[c].pc = Then(c, n).pc, cl'[c].err = Then(c, n).err
      PROVE  Caused(m)'
  <2>1. cl'[c].req = cl[c].req /\ cl'[c].pc = cl[c].pc + n /\ cl'[c].err = None
    BY <1>3, <1>4, <1>5, SpanNext
  <2>2. Code(c)' = Code(c)
    BY <1>1, <2>1, SameCode
  <2>3. Zone(c, m)'
    BY <1>3, <1>5, <2>1, <2>2 DEF Zone
  <2> QED BY <2>3 DEF Caused
<1>6. CASE Top(c).op = "if"
  <2>1. cl[c].pc \in (i + 1)..(j - 1)
    <3>1. Code(c)[j].op # "if"
      BY <1>3 DEF Spans, Commanding
    <3>2. cl[c].pc # j
      BY <1>1, <1>6, <3>1
    <3> QED BY <1>1, <1>3, <3>2
  <2>2. cl[c].pc + Top(c).n < j
    BY <1>1, <1>3, <1>6, <2>1 DEF Spans, Commanding
  <2>3. \A n \in {1, 1 + Top(c).n} : n \in Nat /\ i < cl[c].pc + n /\ cl[c].pc + n <= j
    BY <1>1, <1>3, <2>1, <2>2, SMTT(30)
  <2> QED BY <1>4, <1>5, <1>6, <2>3, IfMoves
<1>7. CASE Top(c).op \in Commanding /\ Top(c).m = m
  <2>1. CASE conn = "gone"
    <3>1. Excused(m)'
      BY <1>1, <2>1 DEF ChildInv, Excused
    <3> QED BY <3>1 DEF Caused
  <2>2. CASE cl'[c].req = cl[c].req /\ cl'[c].pc = cl[c].pc /\ cl'[c].err = m
    <3>1. Code(c)' = Code(c)
      BY <1>1, <2>2, SameCode
    <3>2. Zone(c, m)'
      BY <1>3, <2>2, <3>1 DEF Zone, Spans
    <3> QED BY <3>2 DEF Caused
  <2>3. CASE Sent(c)
    <3>1. CASE cl[c].pc = j
      BY <1>1, <1>3, <1>7, <2>3, <3>1, SpanEnds DEF Caused
    <3>2. CASE cl[c].pc # j
      <4>1. i < cl[c].pc + 1 /\ cl[c].pc + 1 <= j
        BY <1>1, <1>3, <3>2
      <4> QED BY <1>5, <2>3, <4>1, SentMoves DEF SentEffect
    <3> QED BY <3>1, <3>2
  <2> QED BY <1>1, <1>4, <1>7, <2>1, <2>2, <2>3, CommandOutcome
<1>8. Top(c).op = "if" \/ (Top(c).op \in Commanding /\ Top(c).m = m)
  <2>1. CASE cl[c].pc = j
    BY <1>1, <1>3, <2>1 DEF Spans
  <2>2. CASE cl[c].pc # j
    <3>1. cl[c].pc \in (i + 1)..(j - 1)
      BY <1>1, <1>3, <2>2
    <3> QED BY <1>1, <1>3, <3>1 DEF Spans
  <2> QED BY <2>1, <2>2
<1> QED BY <1>6, <1>7, <1>8

\* The request that sets the marker.
LEMMA CausedStart ==
  ASSUME Typed, NEW c \in Clients, cl[c].req # None, Step(c), StartMarker(c), NEW m, m = Top(c).m
  PROVE  Caused(m)'
<1> USE DEF Typed
<1> DEFINE s == Code(c)
<1>1. /\ drv' = drv /\ Sound(cl[c].req, s) /\ cl[c].pc \in 1..Len(s) /\ Len(s) \in Nat
      /\ Top(c).op = "start" /\ Top(c) = s[cl[c].pc] /\ Running(c)
  BY StepEffects, CodeSound DEF StartMarker, At, Top
<1>2. PICK j \in 1..Len(s) : Spans(s, cl[c].pc, j)
  BY <1>1 DEF Sound, Good
<1>3. cl[c].pc < cl[c].pc + 1 /\ cl[c].pc + 1 <= j
  BY <1>1, <1>2 DEF Spans
<1>4. Then(c, 1).req = cl[c].req /\ Then(c, 1).pc = cl[c].pc + 1 /\ Then(c, 1).err = None
  BY <1>1, <1>2, <1>3, SpanNext
<1>5. Then(c, 1) \in Records
  BY <1>1, ThenNext
<1>6. cl'[c] = [Then(c, 1) EXCEPT !.fresh = Then(c, 1).fresh \ {m}]
  BY DEF StartMarker
<1>7. cl'[c].req = cl[c].req /\ cl'[c].pc = cl[c].pc + 1 /\ cl'[c].err = None
  <2>1. Then(c, 1).fresh \ {m} \in SUBSET MarkersOrNone
    BY <1>5 DEF Records
  <2> QED BY <1>4, <1>5, <1>6, <2>1, RecordUpdate DEF Alike
<1>8. Code(c)' = s
  BY <1>1, <1>7, SameCode
<1>9. Zone(c, m)'
  BY <1>1, <1>2, <1>3, <1>7, <1>8 DEF Zone
<1> QED BY <1>9 DEF Caused

LEMMA MarkStep ==
  ASSUME Typed, GuardInv, ChildInv, PendInv, MarkInv, Next PROVE MarkInv'
<1> USE DEF Typed
<1>0. drv' = drv /\ MarkInv = (\A m \in active : Caused(m)) /\ active \subseteq Markers
      /\ active' \subseteq Markers
  BY DriverKept, TypedStep DEF MarkInv, Caused, MarkersTyped
<1>1. ASSUME NEW v \in drv.props, Define(v) \/ Accept(v) \/ Finish(v) \/ Report(v) PROVE MarkInv'
  <2>1. AllStay /\ active' = active
    BY <1>1, DriverStays DEF Driver, Define, Accept, Finish, Report
  <2>2. PICK s \in States \cup {"Busy"} : Publish(v, s)
    BY <1>1 DEF Define, Accept, Finish, Report, States
  <2>3. /\ pend' = pend \/ pend' = [pend EXCEPT ![v] = Tail(pend[v])]
        /\ run' = run \/ run' = [run EXCEPT ![v] = Head(pend[v])] \/ run' = [run EXCEPT ![v] = NoCommand]
    BY <1>1 DEF Define, Accept, Finish, Report
  <2>4. \A u \in drv.props \ {v} : pend'[u] = pend[u] /\ run'[u] = run[u]
    BY <2>3 DEF DriverTyped
  <2>5. DOMAIN pend' = DOMAIN pend /\ s # None
    BY <2>3 DEF DriverTyped, States, None
  <2>6. \A m \in active' : Caused(m)'
    BY <1>0, <2>1, <2>2, <2>4, <2>5, PublishCaused
  <2> QED BY <2>6 DEF MarkInv, Caused
<1>2. CASE Lose
  BY <1>0, <1>2 DEF Lose, MarkInv, Excused
<1>3. CASE GoDown \/ Serve
  <2>1. active' = active /\ vec' = vec /\ acked' = acked /\ pend' = pend /\ run' = run /\ cl' = cl
    BY <1>3 DEF GoDown, Serve
  <2>2. \A m : Excused(m)' = Excused(m) /\ Outstanding(m)' = Outstanding(m)
    BY <1>0, <2>1, SMTT(30) DEF Excused, Outstanding
  <2>3. \A d, m : Zone(d, m) => Zone(d, m)'
    BY <1>0, <2>1, ZenonT(40) DEF Zone, Code
  <2> QED BY <2>1, <2>2, <2>3 DEF MarkInv
<1>4. ASSUME NEW c \in Clients, Begin(c) PROVE MarkInv'
  <2>1. /\ Others(c) /\ active' = active /\ vec' = vec /\ acked' = acked /\ pend' = pend /\ run' = run
        /\ cl[c].req = None
    BY <1>4, BeginMoves DEF Begin, driverVars, markerVars
  <2>2. \A m : Excused(m)' = Excused(m) /\ Outstanding(m)' = Outstanding(m)
    BY <1>0, <2>1 DEF Excused, Outstanding
  <2>3. ASSUME NEW d \in Clients, NEW m, Zone(d, m) PROVE Zone(d, m)'
    <3>1. d # c
      BY <2>1, <2>3 DEF Zone
    <3>2. Code(d)' = Code(d)
      BY <1>0, <2>1, <3>1, SameCode DEF Others
    <3> QED BY <2>1, <2>3, <3>1, <3>2 DEF Others, Zone
  <2> QED BY <2>1, <2>2, <2>3 DEF MarkInv
<1>5. ASSUME NEW c \in Clients, cl[c].req # None, Step(c), NEW m \in active' PROVE Caused(m)'
  <2>1. CASE StartMarker(c) /\ m = Top(c).m
    BY <1>5, <2>1, CausedStart
  <2>2. CASE StartMarker(c) => m # Top(c).m
    <3>0. StartMarker(c) => active' = active \cup {Top(c).m}
      BY DEF StartMarker
    <3>1. m \in active /\ m \in Markers
      BY <1>0, <1>5, <2>2, <3>0, StepEffects
    <3>2. Caused(m)
      BY <1>0, <3>1
    <3>3. CASE Zone(c, m)
      BY <1>5, <3>1, <3>3, CausedOwn
    <3>4. CASE ~Zone(c, m)
      BY <1>5, <2>2, <3>1, <3>2, <3>4, CausedElsewhere DEF Caused
    <3> QED BY <3>3, <3>4
  <2> QED BY <2>1, <2>2
<1>6. ASSUME NEW c \in Clients, cl[c].req # None, Step(c) PROVE MarkInv'
  BY <1>5, <1>6 DEF MarkInv, Caused
<1> QED BY <1>1, <1>2, <1>3, <1>4, <1>6 DEF Next, Driver, Request

(***************************************************************************)
(* A dome is unparked first.                                                *)
(***************************************************************************)
\* A property that is not Busy runs no command.
RunBusy == \A v \in drv.props : vec[v] # "Busy" => run[v] = NoCommand

\* A slew of the dome that unparks it first: it has seen the park property since
\* its second instruction; an update before its UNPARK is on the way is torn; one
\* that it waits for finds nothing pending; and when it has settled nothing is
\* outstanding.
Unparking(c) ==
  cl[c].req # None /\ cl[c].err = None /\ Code(c) = DomeSlewToAzimuth =>
    /\ cl[c].pc \in 3..10 => "park" \in cl[c].loose \/ State("park") # None
    /\ "parkOp" \notin cl[c].torn =>
         /\ cl[c].pc \in {5, 6} => "park" \notin cl[c].since
         /\ cl[c].pc = 7 => "park" \in cl[c].loose \/ "park" \notin cl[c].since \/ pend["park"] = << >>
         /\ cl[c].pc \in 8..10 => "park" \in cl[c].loose \/ ~Outstanding("parkOp")
ParkInv == RunBusy /\ \A c \in Clients : Unparking(c)

LEMMA BusyStep ==
  ASSUME Typed, RunBusy, Next PROVE RunBusy'
<1> USE DEF Typed
<1>0. drv' = drv
  BY DriverKept
<1>1. ASSUME NEW v \in drv.props, Define(v) PROVE RunBusy'
  <2>1. run' = run /\ vec' = [vec EXCEPT ![v] = "Ok"] /\ vec[v] = None
    BY <1>1 DEF Define, Publish
  <2> QED BY <1>0, <2>1 DEF RunBusy, DriverTyped, None
<1>2. ASSUME NEW v \in drv.props, Accept(v) PROVE RunBusy'
  <2>1. run' = [run EXCEPT ![v] = Head(pend[v])] /\ vec' = [vec EXCEPT ![v] = "Busy"]
    BY <1>2 DEF Accept, Publish
  <2> QED BY <1>0, <2>1 DEF RunBusy, DriverTyped
<1>3. ASSUME NEW v \in drv.props, Finish(v) PROVE RunBusy'
  <2>1. /\ run' = [run EXCEPT ![v] = NoCommand]
        /\ \E s \in States : vec' = [vec EXCEPT ![v] = s]
    BY <1>3 DEF Finish, Publish
  <2> QED BY <1>0, <2>1 DEF RunBusy, DriverTyped
<1>4. ASSUME NEW v \in drv.props, Report(v) PROVE RunBusy'
  <2>1. run' = run /\ vec' = [vec EXCEPT ![v] = IF run[v] # NoCommand THEN "Busy" ELSE "Ok"]
    BY <1>4 DEF Report, Publish
  <2> QED BY <1>0, <2>1 DEF RunBusy, DriverTyped
<1>5. CASE Lose
  BY <1>0, <1>5 DEF Lose, RunBusy
<1>6. CASE run' = run /\ vec' = vec
  BY <1>0, <1>6 DEF RunBusy
<1>7. ASSUME \/ GoDown \/ Serve
             \/ \E c \in Clients : Begin(c) \/ (cl[c].req # None /\ Step(c))
      PROVE  run' = run /\ vec' = vec
  BY <1>7, StepEffects DEF GoDown, Serve, Begin, driverVars
<1> QED BY <1>1, <1>2, <1>3, <1>4, <1>5, <1>6, <1>7 DEF Next, Driver, Request

\* The commands of parkOp are commands on park.
LEMMA ParkOutstanding ==
  ASSUME Typed, PendInv
  PROVE  Outstanding("parkOp") <=>
           /\ "park" \in drv.props
           /\ \/ run["park"].m = "parkOp"
              \/ \E i \in 1..Len(pend["park"]) : pend["park"][i].m = "parkOp"
<1>1. DOMAIN pend = drv.props
  BY DEF Typed, DriverTyped
<1> QED BY <1>1 DEF Outstanding, Waiting, PendInv, Watched

\* Only a command on park makes one of them outstanding, or a command on park pend.
LEMMA ParkSent ==
  ASSUME Typed, PendInv, Next, State("park") # None
  PROVE  \/ \E c \in Clients : cl[c].req # None /\ Sent(c) /\ Top(c).v = "park"
         \/ /\ Outstanding("parkOp")' => Outstanding("parkOp")
            /\ pend["park"] = << >> => pend'["park"] = << >>
<1> USE DEF Typed
<1>0. drv' = drv /\ Typed' /\ PendInv' /\ "park" \in drv.props
  BY DriverKept, TypedStep, PendStep DEF State
<1> DEFINE has(r, q) == r.m = "parkOp" \/ \E i \in 1..Len(q) : q[i].m = "parkOp"
<1>1. /\ Outstanding("parkOp") <=> has(run["park"], pend["park"])
      /\ Outstanding("parkOp")' <=> has(run'["park"], pend'["park"])
  <2>1. Outstanding("parkOp") <=> has(run["park"], pend["park"])
    BY <1>0, ParkOutstanding
  <2>2. /\ Typed' /\ PendInv'
        /\ DOMAIN pend' = drv'.props
    BY <1>0 DEF DriverTyped
  <2>3. Outstanding("parkOp")' <=>
           \/ \E v \in drv.props : \E i \in 1..Len(pend'[v]) : pend'[v][i].m = "parkOp"
           \/ \E v \in drv.props : run'[v].m = "parkOp"
    BY <1>0, <2>2 DEF Outstanding, Waiting
  <2>4. \A v \in drv.props : /\ run'[v].m = "parkOp" => v = "park"
                             /\ \A i \in 1..Len(pend'[v]) : pend'[v][i].m = "parkOp" => v = "park"
    BY <1>0, <2>2 DEF PendInv, Watched
  <2> QED BY <1>0, <2>1, <2>3, <2>4
<1>2. NoCommand.m # "parkOp" /\ pend["park"] \in Seq(Cmds)
  BY <1>0 DEF NoCommand, None, DriverTyped
<1>3. ASSUME pend["park"] # << >>
      PROVE  /\ Head(pend["park"]).m = "parkOp" => has(run["park"], pend["park"])
             /\ (\E i \in 1..Len(Tail(pend["park"])) : Tail(pend["park"])[i].m = "parkOp")
                  => has(run["park"], pend["park"])
  <2>1. Head(pend["park"]) = pend["park"][1] /\ 1 \in 1..Len(pend["park"])
    BY <1>2, <1>3
  <2>2. \A i \in 1..Len(Tail(pend["park"])) :
          i + 1 \in 1..Len(pend["park"]) /\ Tail(pend["park"])[i] = pend["park"][i + 1]
    BY <1>2, <1>3
  <2> QED BY <2>1, <2>2
<1>4. ASSUME NEW v \in drv.props, Accept(v)
      PROVE  /\ has(run'["park"], pend'["park"]) => has(run["park"], pend["park"])
             /\ pend["park"] = << >> => pend'["park"] = << >>
  <2>1. /\ pend[v] # << >> /\ pend' = [pend EXCEPT ![v] = Tail(pend[v])]
        /\ run' = [run EXCEPT ![v] = Head(pend[v])]
    BY <1>4 DEF Accept
  <2>2. CASE v = "park"
    <3>1. pend'["park"] = Tail(pend["park"]) /\ run'["park"] = Head(pend["park"])
      BY <1>0, <2>1, <2>2 DEF DriverTyped
    <3> QED BY <1>3, <2>1, <2>2, <3>1
  <2>3. CASE v # "park"
    BY <1>0, <2>1, <2>3 DEF DriverTyped
  <2> QED BY <2>2, <2>3
<1>5. ASSUME NEW v \in drv.props, Finish(v)
      PROVE  /\ has(run'["park"], pend'["park"]) => has(run["park"], pend["park"])
             /\ pend["park"] = << >> => pend'["park"] = << >>
  <2>1. /\ pend' = pend \/ (pend[v] # << >> /\ pend' = [pend EXCEPT ![v] = Tail(pend[v])])
        /\ run' = [run EXCEPT ![v] = NoCommand]
    BY <1>5 DEF Finish
  <2>2. CASE v = "park"
    <3>1. /\ pend'["park"] = pend["park"] \/ (pend["park"] # << >> /\ pend'["park"] = Tail(pend["park"]))
          /\ run'["park"] = NoCommand
      BY <1>0, <2>1, <2>2 DEF DriverTyped
    <3> QED BY <1>2, <1>3, <3>1
  <2>3. CASE v # "park"
    BY <1>0, <2>1, <2>3 DEF DriverTyped
  <2> QED BY <2>2, <2>3
<1>6. CASE Lose
  <2>1. pend'["park"] = << >> /\ run'["park"] = NoCommand
    BY <1>0, <1>6 DEF Lose
  <2> QED BY <1>1, <1>2, <2>1
<1>7. CASE pend' = pend /\ run' = run
  BY <1>1, <1>7
<1>8. ASSUME NEW c \in Clients, cl[c].req # None, Sent(c), Top(c).v # "park"
      PROVE  pend'["park"] = pend["park"] /\ run' = run
  <2> DEFINE w == Top(c).v
  <2>1. /\ run' = run
        /\ pend' = pend \/ pend' = [pend EXCEPT ![w] = Append(pend[w], [m |-> Top(c).m, a |-> Top(c).a])]
    BY <1>8 DEF Sent
  <2> QED BY <1>0, <1>8, <2>1 DEF DriverTyped
<1>9. ASSUME \/ \E v \in drv.props : Define(v) \/ Report(v)
             \/ GoDown \/ Serve
             \/ \E c \in Clients : Begin(c) \/ (cl[c].req # None /\ Step(c) /\ ~Sent(c))
      PROVE  pend' = pend /\ run' = run
  BY <1>9, StepEffects DEF Define, Report, GoDown, Serve, Begin, driverVars
<1> QED BY <1>1, <1>4, <1>5, <1>6, <1>7, <1>8, <1>9 DEF Next, Driver, Request

\* What the waits of request c remember: what was published since, what is torn.
Remembers(y, x) == y.since = x.since /\ x.torn \subseteq y.torn

\* A step of another request only adds to what is torn.
LEMMA OthersRemember ==
  ASSUME Typed, NEW c \in Clients, cl[c].req # None, Step(c), NEW d \in Clients \ {c}
  PROVE  Remembers(cl'[d], cl[d])
<1> USE DEF Typed
<1>0. cl[d] \in Records /\ DOMAIN cl = Clients
  BY DEF RequestsTyped
<1>1. CASE cl'[d] = cl[d]
  BY <1>1 DEF Remembers
<1>2. CASE StartMarker(c)
  <2>1. PICK m : cl'[d] = [cl[d] EXCEPT !.fresh = cl[d].fresh \ {m}]
    BY <1>2 DEF StartMarker
  <2> QED BY <1>0, <2>1 DEF Remembers, Records
<1>3. CASE Sent(c)
  <2>1. cl'[d] = Loosen(cl[d], {Top(c).v})
    BY <1>3 DEF Sent
  <2>2. CASE cl[d].req = None
    BY <2>1, <2>2 DEF Loosen, Remembers
  <2>3. CASE cl[d].req # None
    <3> DEFINE L == cl[d].loose \cup ({Top(c).v} \cap {"mode", "points", "park"})
    <3>1. cl'[d] = [cl[d] EXCEPT !.loose = L]
      BY <2>1, <2>3 DEF Loosen
    <3> HIDE DEF L
    <3> QED BY <1>0, <3>1 DEF Remembers, Records
  <2> QED BY <2>2, <2>3
<1>4. CASE ActiveMarker(c)
  <2>1. \/ cl'[d] = cl[d]
        \/ \E m : cl'[d] = [cl[d] EXCEPT !.torn = cl[d].torn \cup {m}]
    BY <1>0, <1>4 DEF ActiveMarker, Ends
  <2>2. ASSUME NEW m, cl'[d] = [cl[d] EXCEPT !.torn = cl[d].torn \cup {m}] PROVE Remembers(cl'[d], cl[d])
    BY <1>0, <2>2 DEF Remembers, Records
  <2> QED BY <1>1, <2>1, <2>2
<1>5. CASE \E y : cl' = [cl EXCEPT ![c] = y]
  BY <1>0, <1>1, <1>5
<1>6. CASE Look(c) \/ Poll(c)
  BY <1>5, <1>6 DEF Look, Poll, Goes, Ends
<1>7. CASE ClearMarker(c) \/ SetAxis(c) \/ SentToDead(c) \/ WaitEcho(c) \/ WaitSync(c)
  BY <1>5, <1>7 DEF ClearMarker, SetAxis, SentToDead, WaitEcho, WaitSync, Goes, Ends
<1>8. CASE SendFails(c) \/ WaitSettle(c)
  <2>1. Goes(c, 1) \/ Fails(c)
    BY <1>8 DEF SendFails, WaitSettle
  <2>2. Fails(c) => Ends(c) \/ cl' = [cl EXCEPT ![c] = [cl[c] EXCEPT !.err = Top(c).m]]
    BY <1>0 DEF Fails
  <2> QED BY <1>5, <2>1, <2>2 DEF Goes, Ends
<1>9. CASE TakeSnapshot(c)
  BY <1>0, <1>1, <1>9 DEF TakeSnapshot, Ends
<1> QED BY <1>2, <1>3, <1>4, <1>6, <1>7, <1>8, <1>9 DEF Step

\* A request that goes on to the next instruction.
LEMMA ThenRemembers ==
  ASSUME Typed, NEW c \in Clients, Running(c)
  PROVE  Then(c, 1).req = None \/ (Then(c, 1).since = cl[c].since /\ Then(c, 1).torn = cl[c].torn)
<1> USE DEF Typed
<1>1. cl[c] \in Records /\ cl[c].req # None
  BY DEF RequestsTyped, Running
<1>2. cl[c].pc + 1 <= Len(Code(c)) + 1
  BY <1>1, CodeSound
<1>3. Then(c, 1) = Idle \/ \E q \in Nat : Then(c, 1) = [cl[c] EXCEPT !.pc = q]
  BY <1>1, <1>2, ThenCases
<1> QED BY <1>1, <1>3, IdleTyped DEF Records

\* A request that fails does not go on.
LEMMA FailsEnds ==
  ASSUME Typed, NEW c \in Clients, Fails(c)
  PROVE  cl'[c].req = None \/ cl'[c].err # None
<1> USE DEF Typed
<1>1. CASE Top(c).m = None
  BY <1>1, EndsMoves DEF Fails
<1>2. CASE Top(c).m # None
  <2>1. cl'[c] = [cl[c] EXCEPT !.err = Top(c).m] /\ cl[c] \in Records
    BY <1>2 DEF Fails, RequestsTyped
  <2> QED BY <1>2, <2>1 DEF Records
<1> QED BY <1>1, <1>2

\* The instructions of a command and its wait leave that memory alone; "since" empties it.
LEMMA OwnRemembers ==
  ASSUME Typed, NEW c \in Clients, Running(c), Step(c), cl'[c].req # None, cl'[c].err = None
  PROVE  /\ Top(c).op = "since" => cl'[c].since = {}
         /\ Top(c).op \in {"start", "send", "settle", "clear"} =>
              cl'[c].since = cl[c].since /\ cl'[c].torn = cl[c].torn
         /\ Top(c).op = "settle" =>
              Has(Top(c).v) /\ Top(c).v \in cl[c].since /\ vec[Top(c).v] = "Ok"
<1> USE DEF Typed
<1>0. cl[c] \in Records /\ DOMAIN cl = Clients /\ cl[c].err = None
  BY DEF RequestsTyped, Running
<1> DEFINE y == Then(c, 1)
<1>1. y \in Records /\ (y.req # None => y.since = cl[c].since /\ y.torn = cl[c].torn)
  BY ThenNext, ThenRemembers
<1>2. CASE Top(c).op = "since"
  <2>1. Look(c)
    BY <1>0, <1>2 DEF Step, StartMarker, ClearMarker, SetAxis, Sent, SendFails, SentToDead, WaitSettle,
                      WaitEcho, WaitSync, Poll, TakeSnapshot, ActiveMarker, At
  <2>2. cl' = [cl EXCEPT ![c] = [y EXCEPT !.since = {}, !.torn = {}]]
    BY <1>2, <2>1 DEF Look, At
  <2> HIDE DEF y
  <2>3. cl'[c] = [y EXCEPT !.since = {}, !.torn = {}]
    BY <1>0, <2>2
  <2>4. cl'[c].since = {}
    BY <1>1, <2>3 DEF Records
  <2> QED BY <1>2, <2>4
<1>3. CASE Top(c).op = "start"
  <2>1. StartMarker(c)
    BY <1>0, <1>3 DEF Step, Look, Looks, ClearMarker, SetAxis, Sent, SendFails, SentToDead, WaitSettle,
                      WaitEcho, WaitSync, Poll, TakeSnapshot, ActiveMarker, At
  <2>2. cl'[c] = [y EXCEPT !.fresh = y.fresh \ {Top(c).m}]
    BY <2>1 DEF StartMarker
  <2> HIDE DEF y
  <2>3. cl'[c].req = y.req /\ cl'[c].since = y.since /\ cl'[c].torn = y.torn
    BY <1>1, <2>2 DEF Records
  <2> QED BY <1>1, <1>3, <2>3
<1>4. CASE Top(c).op = "send"
  <2>1. Sent(c) \/ SendFails(c) \/ SentToDead(c)
    BY <1>0, <1>4 DEF Step, Look, Looks, StartMarker, ClearMarker, SetAxis, WaitSettle,
                      WaitEcho, WaitSync, Poll, TakeSnapshot, ActiveMarker, At
  <2>2. CASE Sent(c)
    <3>1. cl'[c] = y \/ cl'[c] = [y EXCEPT !.loose = y.loose \ {Top(c).v}]
      BY <2>2 DEF Sent
    <3> HIDE DEF y
    <3>2. cl'[c].req = y.req /\ cl'[c].since = y.since /\ cl'[c].torn = y.torn
      BY <1>1, <3>1 DEF Records
    <3> QED BY <1>1, <1>4, <3>2
  <2>3. CASE SendFails(c)
    BY <2>3, FailsEnds DEF SendFails
  <2>4. CASE SentToDead(c)
    <3>1. cl'[c] = y
      BY <1>0, <2>4 DEF SentToDead, Goes
    <3> QED BY <1>1, <1>4, <3>1
  <2> QED BY <2>1, <2>2, <2>3, <2>4
<1>5. CASE Top(c).op = "settle"
  <2>1. WaitSettle(c)
    BY <1>0, <1>5 DEF Step, Look, Looks, StartMarker, ClearMarker, SetAxis, Sent, SendFails, SentToDead,
                      WaitEcho, WaitSync, Poll, TakeSnapshot, ActiveMarker, At
  <2>2. CASE Fails(c)
    BY <2>2, FailsEnds
  <2>3. CASE Has(Top(c).v) /\ Top(c).v \in cl[c].since /\ vec[Top(c).v] = "Ok" /\ Goes(c, 1)
    <3>1. cl'[c] = y
      BY <1>0, <2>3 DEF Goes
    <3> QED BY <1>1, <1>5, <2>3, <3>1
  <2> QED BY <2>1, <2>2, <2>3 DEF WaitSettle
<1>6. CASE Top(c).op = "clear"
  <2>1. ClearMarker(c)
    BY <1>0, <1>6 DEF Step, Look, Looks, StartMarker, SetAxis, Sent, SendFails, SentToDead, WaitSettle,
                      WaitEcho, WaitSync, Poll, TakeSnapshot, ActiveMarker, At
  <2>2. cl'[c] = y
    BY <1>0, <2>1 DEF ClearMarker, Goes
  <2> QED BY <1>1, <1>6, <2>2
<1> QED BY <1>2, <1>3, <1>4, <1>5, <1>6

\* A publication, as the waits remember it.
LEMMA PublishRemembers ==
  ASSUME Typed, NEW v \in drv.props, NEW state, Publish(v, state), NEW c \in Clients
  PROVE  /\ cl'[c].since = IF Waits(c, v) THEN cl[c].since \cup {v} ELSE cl[c].since
         /\ cl[c].torn \subseteq cl'[c].torn
         /\ Waits(c, v) /\ Early(c, v) => MarkersOf[v] \subseteq cl'[c].torn
<1> DEFINE G == IF Waits(c, v) THEN cl[c].since \cup {v} ELSE cl[c].since
           F == IF \/ state = "Busy" /\ Looked(c, v)
                   \/ Waits(c, v) /\ Early(c, v)
                THEN cl[c].torn \cup MarkersOf[v] ELSE cl[c].torn
<1>1. cl'[c] = [cl[c] EXCEPT !.since = G, !.torn = F]
  BY DEF Publish
<1>2. cl[c] \in Records
  BY DEF Typed, RequestsTyped
<1>3. cl[c].torn \subseteq F /\ (Waits(c, v) /\ Early(c, v) => MarkersOf[v] \subseteq F)
  OBVIOUS
<1> HIDE DEF F
<1>4. cl'[c].since = G /\ cl'[c].torn = F
  <2> HIDE DEF G
  <2> QED BY <1>1, <1>2 DEF Records
<1> QED BY <1>3, <1>4

\* The slew of the dome goes on to the next instruction or past the unpark.
LEMMA DomeNext ==
  ASSUME Typed, NEW c \in Clients, Code(c) = DomeSlewToAzimuth, Advance(c, cl'[c])
  PROVE  /\ cl[c].pc \in 1..10 /\ cl'[c].req = cl[c].req
         /\ \/ cl'[c].pc = cl[c].pc + 1 /\ (cl[c].pc = 2 => State("park") # None)
            \/ cl'[c].pc = 9 /\ "park" \in cl'[c].loose
<1> USE DEF Typed
<1> DEFINE s == Code(c)
           q == cl'[c].pc
<1>1. Running(c) /\ cl[c].req # None /\ cl'[c].req = cl[c].req
  BY DEF Advance, Running
<1>2. s = DomeSlewToAzimuth /\ Len(s) = 10 /\ cl[c].pc \in 1..10 /\ Top(c) = s[cl[c].pc]
  BY <1>1, CodeSound, DomeSlewToAzimuthListed DEF Top
<1> HIDE DEF s
<1>3. \A i \in 1..10 : ~Blank(s[i])
  <2>1. \A i \in 1..10 : s[i].op \notin {"busy", "updated"}
    BY <1>2, DomeSlewToAzimuthListed
  <2> QED BY <2>1 DEF Blank
<1>4. ASSUME NEW t \in Nat, t >= 1, Onward(c, t, q) PROVE q = t
  <2>1. q \in t..10 /\ \A r \in t..(q - 1) : Blank(s[r])
    BY <1>2, <1>4 DEF Onward, s
  <2>2. CASE q # t
    <3>1. t \in t..(q - 1) /\ t \in 1..10
      BY <1>4, <2>1, <2>2
    <3> QED BY <1>3, <2>1, <3>1
  <2> QED BY <2>2
<1>5. CASE Onward(c, cl[c].pc + 1, q) /\ (Top(c).op \in {"need", "if"} => State(Top(c).v) # None)
  <2>1. q = cl[c].pc + 1
    BY <1>2, <1>4, <1>5
  <2>2. cl[c].pc = 2 => Top(c).op = "if" /\ Top(c).v = "park"
    BY <1>2, DomeSlewToAzimuthListed
  <2> QED BY <1>1, <1>2, <1>5, <2>1, <2>2
<1>6. CASE /\ Onward(c, cl[c].pc + 1 + Top(c).n, q)
           /\ Top(c).op \in {"if", "ifnot", "gate"}
           /\ Top(c).op = "if" /\ Top(c).v \in {"mode", "points", "park"} => Top(c).v \in cl'[c].loose
  <2>1. cl[c].pc \in {2, 3}
    <3>1. \A i \in 1..10 : s[i].op \in {"if", "ifnot", "gate"} => i \in {2, 3}
      BY <1>2, DomeSlewToAzimuthListed
    <3> QED BY <1>2, <1>6, <3>1
  <2>2. Top(c).op = "if" /\ Top(c).v = "park" /\ cl[c].pc + 1 + Top(c).n = 9
    BY <1>2, <2>1, DomeSlewToAzimuthListed
  <2>3. q = 9
    BY <1>4, <1>6, <2>2
  <2> QED BY <1>1, <1>2, <1>6, <2>2, <2>3
<1> QED BY <1>5, <1>6 DEF Advance

\* What the waits of such a slew see of it.
LEMMA DomeWaits ==
  ASSUME Typed, NEW c \in Clients, cl[c].req # None, Code(c) = DomeSlewToAzimuth
  PROVE  /\ cl[c].pc \in 1..10
         /\ cl[c].pc <= 7 => Waits(c, "park")
         /\ cl[c].pc <= 6 => Early(c, "park")
         /\ \A v : Waits(c, v) => v = "park"
         /\ "parkOp" \in MarkersOf["park"]
<1> USE DEF Typed
<1> DEFINE s == Code(c)
<1>1. s = DomeSlewToAzimuth /\ Len(s) = 10 /\ cl[c].pc \in 1..10
  BY CodeSound, DomeSlewToAzimuthListed, ZenonT(40)
<1>2. s[7].op = "settle" /\ s[7].v = "park" /\ s[6].op = "send" /\ s[6].v = "park"
  BY <1>1, DomeSlewToAzimuthListed
<1>3. \A i \in 1..10 : s[i].op = "settle" => s[i].v = "park"
  BY <1>1, DomeSlewToAzimuthListed
<1>4. "parkOp" \in MarkersOf["park"]
  BY Named, WatchFacts DEF MarkersOf
<1> HIDE DEF s
<1>5. cl[c].pc <= 7 => Waits(c, "park")
  BY <1>1, <1>2 DEF Waits, s
<1>6. cl[c].pc <= 6 => Early(c, "park")
  BY <1>1, <1>2 DEF Early, s
<1>7. \A v : Waits(c, v) => v = "park"
  BY <1>1, <1>3 DEF Waits, s
<1> QED BY <1>1, <1>4, <1>5, <1>6, <1>7

\* A slew that stays where it is while nothing is commanded on park.
LEMMA UnparkingKept ==
  ASSUME NEW d \in Clients, Unparking(d), drv' = drv,
         cl'[d].req = cl[d].req, cl'[d].pc = cl[d].pc, cl'[d].err = cl[d].err,
         cl[d].loose \subseteq cl'[d].loose, Remembers(cl'[d], cl[d]),
         cl[d].req # None /\ State("park") # None =>
           \/ "park" \in cl'[d].loose
           \/ /\ State("park")' # None /\ (Outstanding("parkOp")' => Outstanding("parkOp"))
              /\ pend["park"] = << >> => pend'["park"] = << >>
  PROVE  Unparking(d)'
<1> SUFFICES ASSUME cl[d].req # None, cl[d].err = None, Code(d) = DomeSlewToAzimuth PROVE Unparking(d)'
  BY SameCode DEF Unparking
<1>1. /\ cl[d].pc \in 3..10 => "park" \in cl[d].loose \/ State("park") # None
      /\ "parkOp" \notin cl'[d].torn =>
           /\ cl[d].pc \in {5, 6} => "park" \notin cl[d].since
           /\ cl[d].pc = 7 => "park" \in cl[d].loose \/ "park" \notin cl[d].since \/ pend["park"] = << >>
           /\ cl[d].pc \in 8..10 => "park" \in cl[d].loose \/ ~Outstanding("parkOp")
  BY DEF Unparking, Remembers
<1>2. cl[d].pc \in 3..10 =>
        \/ "park" \in cl'[d].loose
        \/ /\ State("park")' # None /\ (Outstanding("parkOp")' => Outstanding("parkOp"))
           /\ pend["park"] = << >> => pend'["park"] = << >>
  BY <1>1
<1> QED BY <1>1, <1>2 DEF Unparking, Remembers

\* A command that is written moves its request.
LEMMA SentGoes ==
  ASSUME Typed, NEW c \in Clients, Sent(c)
  PROVE  cl[c].req # None /\ (cl'[c].req = cl[c].req => cl'[c].pc # cl[c].pc)
<1> USE DEF Typed
<1>1. Running(c) /\ cl[c].req # None /\ cl'[c].req = Then(c, 1).req /\ cl'[c].pc = Then(c, 1).pc
  BY SentMoves DEF SentEffect, Sent, At, Running
<1>2. cl[c].pc \in Nat
  BY <1>1, CodeSound
<1> QED BY <1>1, <1>2, ThenNext DEF Onward

\* The driver publishes park or another property.
LEMMA UnparkingPublished ==
  ASSUME Typed, PendInv, Next, AllStay, NEW v \in drv.props, NEW state, state # None,
         Publish(v, state), NEW d \in Clients, Unparking(d)
  PROVE  Unparking(d)'
<1> USE DEF Typed
<1>0. /\ drv' = drv /\ cl'[d].req = cl[d].req /\ cl'[d].pc = cl[d].pc /\ cl'[d].err = cl[d].err
      /\ cl[d].loose \subseteq cl'[d].loose
  BY DriverKept DEF AllStay
<1>1. State("park") # None => State("park")' # None
  BY <1>0 DEF State, Publish, DriverTyped
<1>2. State("park") # None => /\ Outstanding("parkOp")' => Outstanding("parkOp")
                              /\ pend["park"] = << >> => pend'["park"] = << >>
  BY ParkSent, SentGoes DEF AllStay
<1>3. /\ cl'[d].since = IF Waits(d, v) THEN cl[d].since \cup {v} ELSE cl[d].since
      /\ cl[d].torn \subseteq cl'[d].torn
      /\ Waits(d, v) /\ Early(d, v) => MarkersOf[v] \subseteq cl'[d].torn
  BY PublishRemembers
<1>4. CASE ~Waits(d, v)
  <2>1. Remembers(cl'[d], cl[d])
    BY <1>3, <1>4 DEF Remembers
  <2> QED BY <1>0, <1>1, <1>2, <2>1, UnparkingKept
<1>5. CASE Waits(d, v)
  <2> SUFFICES ASSUME cl[d].req # None, cl[d].err = None, Code(d) = DomeSlewToAzimuth
               PROVE  Unparking(d)'
    BY <1>0, SameCode DEF Unparking
  <2>1. /\ cl[d].pc \in 1..10 /\ v = "park" /\ "parkOp" \in MarkersOf["park"]
        /\ cl[d].pc <= 6 => Early(d, "park")
    BY <1>5, DomeWaits
  <2>2. cl[d].pc \in 3..10 => "park" \in cl[d].loose \/ State("park") # None
    BY DEF Unparking
  <2>3. cl[d].pc \in {5, 6} => "parkOp" \in cl'[d].torn
    BY <1>3, <1>5, <2>1
  <2>4. "parkOp" \notin cl'[d].torn => pend'["park"] = << >>
    BY <1>3, <1>5, <2>1 DEF Early
  <2>5. cl[d].pc \in 8..10 /\ "parkOp" \notin cl'[d].torn => "park" \in cl'[d].loose \/ ~Outstanding("parkOp")'
    BY <1>0, <1>2, <1>3, <2>2 DEF Unparking
  <2> QED BY <1>0, <1>1, <2>2, <2>3, <2>4, <2>5 DEF Unparking
<1> QED BY <1>4, <1>5

\* A slew that goes on.
LEMMA UnparkingMoves ==
  ASSUME Typed, ChildInv, PendInv, RunBusy, Next, NEW c \in Clients, cl[c].req # None, Unparking(c), Step(c),
         Others(c), cl'[c].req # None, cl'[c].err = None, Advance(c, cl'[c])
  PROVE  Unparking(c)'
<1> USE DEF Typed
<1>1. Running(c) /\ cl'[c].req = cl[c].req /\ drv' = drv /\ vec' = vec
  BY DriverKept, StepEffects DEF Advance
<1> SUFFICES ASSUME Code(c) = DomeSlewToAzimuth PROVE Unparking(c)'
  BY <1>1, SameCode DEF Unparking
<1> DEFINE s == Code(c)
<1>2. s = DomeSlewToAzimuth /\ Top(c) = s[cl[c].pc] /\ cl[c].pc \in 1..10
  BY DomeNext DEF Top
<1>3. State("park")' = State("park")
  BY <1>1 DEF State
<1> HIDE DEF s
<1>4. CASE cl'[c].pc = 9 /\ "park" \in cl'[c].loose
  BY <1>4 DEF Unparking
<1>5. ASSUME ~Sent(c), State("park") # None
      PROVE  /\ cl[c].loose \subseteq cl'[c].loose
             /\ Outstanding("parkOp")' => Outstanding("parkOp")
  <2>1. ASSUME NEW e \in Clients, Sent(e) PROVE FALSE
    BY <1>5, <2>1, SentGoes DEF Others
  <2>2. Outstanding("parkOp")' => Outstanding("parkOp")
    BY <1>5, <2>1, ParkSent
  <2> QED BY <1>5, <2>2, StepMoves DEF Stays
<1>6. Top(c).op \notin Commanding => ~Sent(c) /\ cl[c].loose \subseteq cl'[c].loose
  BY StepMoves DEF Sent, At, Commanding, Stays
<1>7. CASE cl'[c].pc = cl[c].pc + 1 /\ (cl[c].pc = 2 => State("park") # None)
  <2>1. CASE cl[c].pc = 1
    BY <1>7, <2>1 DEF Unparking
  <2>2. CASE cl[c].pc = 2
    BY <1>3, <1>7, <2>2 DEF Unparking
  <2>3. CASE cl[c].pc = 3
    <3>1. Top(c).op \notin Commanding
      BY <1>2, <2>3, DomeSlewToAzimuthListed DEF Commanding
    <3> QED BY <1>1, <1>3, <1>6, <1>7, <2>3, <3>1 DEF Unparking, Running
  <2>4. CASE cl[c].pc = 4
    <3>1. Top(c).op = "since" /\ Top(c).op \notin Commanding
      BY <1>2, <2>4, DomeSlewToAzimuthListed DEF Commanding
    <3>2. cl'[c].since = {}
      BY <1>1, <3>1, OwnRemembers
    <3> QED BY <1>1, <1>3, <1>6, <1>7, <2>4, <3>1, <3>2 DEF Unparking, Running
  <2>5. CASE cl[c].pc = 5
    <3>1. Top(c).op = "start" /\ Top(c).op \notin Commanding
      BY <1>2, <2>5, DomeSlewToAzimuthListed DEF Commanding
    <3>2. cl'[c].since = cl[c].since /\ cl'[c].torn = cl[c].torn
      BY <1>1, <3>1, OwnRemembers
    <3> QED BY <1>1, <1>3, <1>6, <1>7, <2>5, <3>1, <3>2 DEF Unparking, Running
  <2>6. CASE cl[c].pc = 6
    <3>1. Top(c).op = "send"
      BY <1>2, <2>6, DomeSlewToAzimuthListed
    <3>2. cl'[c].since = cl[c].since /\ cl'[c].torn = cl[c].torn
      BY <1>1, <3>1, OwnRemembers
    <3>3. "park" \in cl[c].loose => "park" \in cl'[c].loose \/ State("park") # None
      <4>1. Top(c).v = "park"
        BY <1>2, <2>6, DomeSlewToAzimuthListed
      <4> QED BY <4>1, StepMoves DEF Stays, SentEffect
    <3> QED BY <1>1, <1>3, <1>7, <2>6, <3>2, <3>3 DEF Unparking, Running
  <2>7. CASE cl[c].pc = 7
    <3>1. Top(c).op = "settle" /\ Top(c).v = "park" /\ Top(c).op \notin Commanding
      BY <1>2, <2>7, DomeSlewToAzimuthListed DEF Commanding
    <3>2. /\ cl'[c].torn = cl[c].torn /\ Has("park") /\ "park" \in cl[c].since /\ vec["park"] = "Ok"
      BY <1>1, <3>1, OwnRemembers
    <3>3. State("park") # None /\ "park" \in drv.props
      BY <3>2 DEF Has, State
    <3>4. run["park"] = NoCommand
      BY <3>2, <3>3 DEF RunBusy
    <3>5. pend["park"] = << >> => ~Outstanding("parkOp")
      BY <3>4, ParkOutstanding DEF NoCommand, None
    <3>6. cl[c].loose \subseteq cl'[c].loose /\ (Outstanding("parkOp")' => Outstanding("parkOp"))
      BY <1>5, <1>6, <3>1, <3>3
    <3> QED BY <1>1, <1>3, <1>7, <2>7, <3>2, <3>3, <3>5, <3>6 DEF Unparking, Running
  <2>8. CASE cl[c].pc \in {8, 9}
    <3>1. Top(c).op \in {"clear", "start"} /\ Top(c).op \notin Commanding
      BY <1>2, <2>8, DomeSlewToAzimuthListed DEF Commanding
    <3>2. cl'[c].torn = cl[c].torn
      BY <1>1, <3>1, OwnRemembers
    <3>3. cl[c].loose \subseteq cl'[c].loose
      BY <1>6, <3>1
    <3>4. "park" \in cl[c].loose \/ State("park") # None
      BY <1>1, <2>8 DEF Unparking, Running
    <3>5. State("park") # None => (Outstanding("parkOp")' => Outstanding("parkOp"))
      BY <1>5, <1>6, <3>1
    <3>6. "parkOp" \notin cl'[c].torn => "park" \in cl'[c].loose \/ ~Outstanding("parkOp")'
      BY <1>1, <2>8, <3>2, <3>3, <3>4, <3>5 DEF Unparking, Running
    <3> QED BY <1>3, <1>7, <2>8, <3>3, <3>4, <3>6 DEF Unparking
  <2>9. CASE cl[c].pc = 10
    BY <1>7, <2>9 DEF Unparking
  <2> QED BY <1>2, <2>1, <2>2, <2>3, <2>4, <2>5, <2>6, <2>7, <2>8, <2>9
<1> QED BY <1>4, <1>7, DomeNext

LEMMA ParkStep ==
  ASSUME Typed, ChildInv, PendInv, ParkInv, Next PROVE ParkInv'
<1> USE DEF Typed
<1>0. drv' = drv /\ RunBusy'
  BY DriverKept, BusyStep DEF ParkInv
<1> SUFFICES \A d \in Clients : Unparking(d)'
  BY <1>0 DEF ParkInv
<1>1. \A d \in Clients : Unparking(d)
  BY DEF ParkInv
<1>2. ASSUME NEW v \in drv.props, Define(v) \/ Accept(v) \/ Finish(v) \/ Report(v), NEW d \in Clients
      PROVE  Unparking(d)'
  <2>1. AllStay
    BY <1>2, DriverStays DEF Driver
  <2>2. PICK s \in States \cup {"Busy"} : Publish(v, s)
    BY <1>2 DEF Define, Accept, Finish, Report, States
  <2>3. s # None
    BY DEF States, None
  <2> QED BY <1>1, <2>1, <2>2, <2>3, UnparkingPublished
<1>3. ASSUME Lose, NEW d \in Clients PROVE Unparking(d)'
  <2>1. AllStay /\ cl[d] \in Records
    BY <1>3, DriverStays DEF Driver, RequestsTyped
  <2>2. cl'[d] = Loosen(cl[d], drv.props)
    BY <1>3 DEF Lose
  <2>3. Remembers(cl'[d], cl[d])
    <3> DEFINE L == cl[d].loose \cup (drv.props \cap {"mode", "points", "park"})
    <3>1. cl'[d] = cl[d] \/ cl'[d] = [cl[d] EXCEPT !.loose = L]
      BY <2>2 DEF Loosen
    <3> HIDE DEF L
    <3> QED BY <2>1, <3>1 DEF Records, Remembers
  <2>4. cl[d].req # None /\ State("park") # None => "park" \in cl'[d].loose
    BY <2>1, <2>2, LoosenUpdate DEF State
  <2> QED BY <1>0, <1>1, <2>1, <2>3, <2>4, UnparkingKept DEF AllStay
<1>4. ASSUME GoDown \/ Serve, NEW d \in Clients PROVE Unparking(d)'
  <2>1. cl' = cl /\ vec' = vec /\ pend' = pend /\ run' = run
    BY <1>4 DEF GoDown, Serve
  <2>2. Remembers(cl'[d], cl[d]) /\ State("park")' = State("park") /\ Outstanding("parkOp")' = Outstanding("parkOp")
    BY <1>0, <2>1 DEF Remembers, State, Outstanding
  <2> QED BY <1>0, <1>1, <2>1, <2>2, UnparkingKept
<1>5. ASSUME NEW c \in Clients, Begin(c), NEW d \in Clients PROVE Unparking(d)'
  <2>1. Others(c) /\ cl'[c].pc = 1 /\ vec' = vec /\ pend' = pend /\ run' = run
    BY <1>5, BeginMoves DEF Begin, driverVars
  <2>2. CASE d = c
    BY <2>1, <2>2 DEF Unparking
  <2>3. CASE d # c
    <3>1. cl'[d] = cl[d]
      BY <1>5, <2>3 DEF Begin, RequestsTyped
    <3>2. Remembers(cl'[d], cl[d]) /\ State("park")' = State("park") /\ Outstanding("parkOp")' = Outstanding("parkOp")
      BY <1>0, <2>1, <3>1 DEF Remembers, State, Outstanding
    <3> QED BY <1>0, <1>1, <2>1, <3>1, <3>2, UnparkingKept
  <2> QED BY <2>2, <2>3
<1>6. ASSUME NEW c \in Clients, cl[c].req # None, Step(c), NEW d \in Clients PROVE Unparking(d)'
  <2>1. Moves(c) /\ Others(c) /\ Local(c, cl'[c]) /\ vec' = vec
    BY <1>6, StepMoves, StepEffects DEF Moves
  <2>2. CASE d = c
    <3>1. CASE cl'[c].req = None \/ cl'[c].err # None
      BY <2>2, <3>1 DEF Unparking
    <3>2. CASE cl'[c].req # None /\ cl'[c].err = None
      <4>1. Advance(c, cl'[c])
        BY <2>1, <3>2 DEF Local
      <4> QED BY <1>1, <1>6, <2>1, <2>2, <3>2, <4>1, UnparkingMoves DEF ParkInv
    <3> QED BY <3>1, <3>2
  <2>3. CASE d # c
    <3>1. /\ cl'[d].req = cl[d].req /\ cl'[d].pc = cl[d].pc /\ cl'[d].err = cl[d].err
          /\ cl[d].loose \subseteq cl'[d].loose
      BY <2>1, <2>3 DEF Others
    <3>2. Remembers(cl'[d], cl[d]) /\ State("park")' = State("park")
      BY <1>0, <1>6, <2>1, <2>3, OthersRemember DEF State
    <3>3. ASSUME NEW e \in Clients, Sent(e), Top(e).v = "park", cl[d].req # None PROVE "park" \in cl'[d].loose
      <4>1. d # e
        BY <3>1, <3>3, SentGoes
      <4> QED BY <3>3, <4>1, SentMoves DEF SentEffect
    <3> QED BY <1>0, <1>1, <3>1, <3>2, <3>3, ParkSent, UnparkingKept
  <2> QED BY <2>2, <2>3
<1> QED BY <1>2, <1>3, <1>4, <1>5, <1>6 DEF Next, Driver, Request

LEMMA ParkInit == ASSUME Init PROVE ParkInv
<1>1. RunBusy
  BY DEF Init, RunBusy
<1>2. \A c \in Clients : cl[c].req = None
  BY IdleTyped DEF Init
<1> QED BY <1>1, <1>2 DEF ParkInv, Unparking

LEMMA ParkStutter == ASSUME ParkInv, UNCHANGED vars PROVE ParkInv'
<1>1. drv' = drv /\ vec' = vec /\ pend' = pend /\ run' = run /\ cl' = cl
  BY DEF vars
<1>2. RunBusy'
  BY <1>1 DEF ParkInv, RunBusy
<1>3. ASSUME NEW d \in Clients PROVE Unparking(d)'
  <2>1. Code(d)' = Code(d) /\ State("park")' = State("park") /\ Outstanding("parkOp")' = Outstanding("parkOp")
    BY <1>1 DEF Code, State, Outstanding
  <2> QED BY <1>1, <2>1 DEF ParkInv, Unparking
<1> QED BY <1>2, <1>3 DEF ParkInv

(***************************************************************************)
(* The shape of the polls, and of what they ask about.                      *)
(***************************************************************************)
\* The properties on which a device of kind k runs the commands of m; "move" is
\* about one property of a focuser or rotator and about another of a filter wheel.
Target(k, m) == IF m # "move" THEN Watch[m] ELSE IF k = "filterwheel" THEN {"slot"} ELSE {"abs"}

\* Before instruction j asks about its marker, the poll has looked at the state of
\* every property the marker's commands run on, itself or in its one snapshot.
Informed(k, s, j) ==
  IF s[1].op = "snap" THEN Target(k, s[j].m) \subseteq {s[1].v} \cup s[1].also
  ELSE \A w \in Target(k, s[j].m) : \E i \in 1..(j - 1) : s[i].op \in {"busy", "isok"} /\ s[i].v = w

\* What a branch leads to asks about no marker, nor does a request that waits.
Straight(s) ==
  \A i, j \in 1..Len(s) : s[j].op = "active" =>
    /\ s[i].op # "since"
    /\ s[i].op \in {"if", "ifnot", "gate"} => j <= i + s[i].n
\* A snapshot is the first instruction and the only look at an update time.
Once(s) ==
  \A i \in 1..Len(s) : s[i].op = "snap" => i = 1 /\ \A j \in 1..Len(s) : s[j].op # "updated"
\* A poll asks about each marker once, and is informed.
Asking(k, s) ==
  \A j \in 1..Len(s) : s[j].op = "active" =>
    /\ s[j].m \in Markers /\ Informed(k, s, j)
    /\ \A i \in 1..(j - 1) : s[i].op = "active" => s[i].m # s[j].m
\* A command with a marker is sent inside a span of the marker and on its target.
Marked(k, s) ==
  \A t \in 1..Len(s) : s[t].op \in Commanding /\ s[t].m # None =>
    /\ \E i, j \in 1..Len(s) : Spans(s, i, j) /\ s[i].m = s[t].m /\ i < t /\ t <= j
    /\ s[t].v \in Watch[s[t].m] => s[t].v \in Target(k, s[t].m)
\* No branch enters a span.
Closed(s) ==
  \A i, j \in 1..Len(s) : Spans(s, i, j) =>
    \A g \in 1..(i - 1) : g + s[g].n < i \/ j <= g + s[g].n
Honest(k, s) == Straight(s) /\ Once(s) /\ Asking(k, s) /\ Marked(k, s) /\ Closed(s)

(***************************************************************************)
(* Every program of the table is honest.                                    *)
(***************************************************************************)
\* Instructions that neither set a marker nor ask about one.
Quiet == {x \in Instrs : x.op \notin {"active", "start", "snap"} /\ (x.op \in Commanding => x.m = None)}

LEMMA QuietInstrs ==
  /\ \A v \in Props : /\ Need(v) \in Quiet /\ Echo(v) \in Quiet /\ SyncSeen(v) \in Quiet
                      /\ Busy(v) \in Quiet
  /\ \A v \in Props, a \in Args : Send(v, None, a) \in Quiet /\ Write(v, None, a) \in Quiet
  /\ \A v \in Props, a \in Args, n \in Nat : IfHas(v, n) \in Quiet /\ IfOff(v, a, n) \in Quiet
  /\ \A m \in Markers : Clear(m) \in Quiet
  /\ \A a \in Args : Axis(a) \in Quiet
  /\ {Available, Check, Since} \subseteq Quiet
<1> USE DEF Quiet, Commanding, Instr, Instrs, Ops
<1>1. \A v \in Props : /\ Need(v) \in Quiet /\ Echo(v) \in Quiet /\ SyncSeen(v) \in Quiet
                       /\ Busy(v) \in Quiet
  BY DEF Need, Echo, SyncSeen, Busy, Args, None
<1>2. \A v \in Props, a \in Args : Send(v, None, a) \in Quiet /\ Write(v, None, a) \in Quiet
  BY DEF Send, Write, None
<1>3. \A v \in Props, a \in Args, n \in Nat : IfHas(v, n) \in Quiet /\ IfOff(v, a, n) \in Quiet
  BY DEF IfHas, IfOff, Args, None
<1>4. (\A m \in Markers : Clear(m) \in Quiet) /\ \A a \in Args : Axis(a) \in Quiet
  BY DEF Clear, Axis, Args, None
<1>5. {Available, Check, Since} \subseteq Quiet
  BY DEF Available, Check, Since, Args, None
<1> QED BY <1>1, <1>2, <1>3, <1>4, <1>5

LEMMA QuietHonest ==
  ASSUME NEW k, NEW s \in Seq(Quiet) PROVE Honest(k, s)
<1>1. \A i \in 1..Len(s) : s[i].op \notin {"active", "start", "snap"} /\ (s[i].op \in Commanding => s[i].m = None)
  BY DEF Quiet
<1> QED BY <1>1 DEF Honest, Straight, Once, Asking, Marked, Closed, Spans

LEMMA QuietPrograms ==
  ASSUME NEW k
  PROVE  /\ Honest(k, FocuserHalt) /\ Honest(k, RotatorHalt) /\ Honest(k, RotatorSync) /\ Honest(k, HaltCover)
         /\ Honest(k, DomeAbortSlew) /\ Honest(k, DomeSetSlaved) /\ Honest(k, TelescopeAbortSlew)
         /\ Honest(k, SetTracking) /\ Honest(k, SetTrackingRate) /\ Honest(k, MoveAxis("on"))
         /\ Honest(k, MoveAxis("off")) /\ Honest(k, AbortExposure) /\ Honest(k, SetCoolerOn)
         /\ Honest(k, Action("extra")) /\ Honest(k, RotatorSetReverse) /\ Honest(k, SetSiteElevation)
         /\ Honest(k, SetUTCDate) /\ Honest(k, SetRightAscensionRate) /\ Honest(k, SetBin(2))
         /\ Honest(k, SetBin(1)) /\ Honest(k, SetControl) /\ Honest(k, SetReadoutMode)
         /\ Honest(k, SyncCoords) /\ Honest(k, SetSite)
<1>1. /\ {"abort", "sync", "track", "rate", "motion", "cooler", "autosync", "extra", "reverse", "geo", "time",
          "trackRate", "bin", "gain", "readout", "align", "mode", "eq", "points", "commit"} \subseteq Props
      /\ {"go", "on", "off", "TRACK", "SYNC", "CLEAR", "APPEND"} \subseteq Args
      /\ {"move", "coverOp", "azOp", "parkOp", "shutOp", "slew", "home", "exposure"} \subseteq Markers
      /\ {1, 2, 3} \subseteq Nat
  BY Named
<1> HIDE DEF Quiet, Props, Args, Markers
<1>2. /\ FocuserHalt \in Seq(Quiet) /\ RotatorHalt \in Seq(Quiet) /\ RotatorSync \in Seq(Quiet)
      /\ HaltCover \in Seq(Quiet) /\ DomeAbortSlew \in Seq(Quiet) /\ DomeSetSlaved \in Seq(Quiet)
  BY <1>1, QuietInstrs DEF FocuserHalt, RotatorHalt, RotatorSync, HaltCover, DomeAbortSlew, DomeSetSlaved
<1>3. /\ TelescopeAbortSlew \in Seq(Quiet) /\ SetTracking \in Seq(Quiet) /\ SetTrackingRate \in Seq(Quiet)
      /\ MoveAxis("on") \in Seq(Quiet) /\ MoveAxis("off") \in Seq(Quiet)
      /\ AbortExposure \in Seq(Quiet) /\ SetCoolerOn \in Seq(Quiet)
  BY <1>1, QuietInstrs DEF TelescopeAbortSlew, SetTracking, SetTrackingRate, MoveAxis, AbortExposure, SetCoolerOn
<1>4. \A v \in Props : Setting(v) \in Seq(Quiet)
  BY <1>1, QuietInstrs DEF Setting
<1>5. \A s, t \in Seq(Quiet) : s \o t \in Seq(Quiet)
  OBVIOUS
<1>6. /\ <<Available>> \in Seq(Quiet) /\ <<Check, Need("time")>> \in Seq(Quiet)
      /\ <<Need("bin")>> \in Seq(Quiet) /\ <<IfHas("bin", 3)>> \in Seq(Quiet)
  BY <1>1, QuietInstrs
<1>7. /\ Action("extra") \in Seq(Quiet) /\ SetUTCDate \in Seq(Quiet) /\ SetBin(1) \in Seq(Quiet)
      /\ SetBin(2) \in Seq(Quiet)
  BY <1>1, <1>4, <1>5, <1>6 DEF Action, SetUTCDate, SetBin
<1>8. /\ RotatorSetReverse \in Seq(Quiet) /\ SetSiteElevation \in Seq(Quiet)
      /\ SetRightAscensionRate \in Seq(Quiet) /\ SetControl \in Seq(Quiet) /\ SetReadoutMode \in Seq(Quiet)
  BY <1>1, <1>4 DEF RotatorSetReverse, SetSiteElevation, SetRightAscensionRate, SetControl, SetReadoutMode
<1>9. SyncCoords \in Seq(Quiet)
  <2>1. \A a \in {"SYNC", "TRACK"} : SetCoordMode(a) \in Seq(Quiet)
    BY <1>1, QuietInstrs DEF SetCoordMode
  <2>2. /\ <<IfHas("align", 2), IfOff("align", "go", 1), Send("align", None, "go")>> \in Seq(Quiet)
        /\ <<Send("eq", None, "SYNC"), SyncSeen("eq")>> \in Seq(Quiet)
    BY <1>1, QuietInstrs
  <2> QED BY <1>5, <2>1, <2>2 DEF SyncCoords
<1>10. SetSite \in Seq(Quiet)
  <2>1. <<IfHas("points", 3), Send("points", None, "CLEAR"), Send("commit", None, "CLEAR"),
          Send("points", None, "APPEND")>> \in Seq(Quiet)
    BY <1>1, QuietInstrs
  <2> QED BY <1>1, <1>4, <1>5, <2>1 DEF SetSite
<1> QED BY <1>2, <1>3, <1>7, <1>8, <1>9, <1>10, QuietHonest

\* A program that sets markers and asks about none.
Busying(k, s) == /\ \A i \in 1..Len(s) : s[i].op \notin {"active", "snap"}
                 /\ Marked(k, s) /\ Closed(s)
LEMMA BusyingHonest ==
  \A k, s : Busying(k, s) => Honest(k, s)
BY DEF Busying, Honest, Straight, Once, Asking

\* What the commands of a marker run on.
LEMMA TargetFacts ==
  /\ \A k : \A m \in Markers \ {"move"} : Target(k, m) = Watch[m]
  /\ Target("focuser", "move") = {"abs"} /\ Target("rotator", "move") = {"abs"}
  /\ Target("filterwheel", "move") = {"slot"}
  /\ \A k : /\ Target(k, "calOp") = {"light", "intensity"} /\ Target(k, "guide") = {"guideNS", "guideWE"}
            /\ Target(k, "coverOp") = {"cap"} /\ Target(k, "azOp") = {"az"} /\ Target(k, "parkOp") = {"park"}
            /\ Target(k, "shutOp") = {"shutter"} /\ Target(k, "slew") = {"eq"}
            /\ Target(k, "home") = {"homing"} /\ Target(k, "exposure") = {"exp"}
BY DEF Target, Watch, Markers

LEMMA MarkedHonest ==
  ASSUME NEW k, NEW g \in Quiet, g.n = 0, NEW m \in Markers, NEW v \in Target(k, m), NEW a \in Args,
         NEW x \in {Send(v, m, a), Write(v, m, a)}, Good(<<g, Start(m), x>>)
  PROVE  Honest(k, <<g, Start(m), x>>)
<1> DEFINE s == <<g, Start(m), x>>
<1>1. Len(s) = 3 /\ s[1] = g /\ s[2] = Start(m) /\ s[3] = x
  OBVIOUS
<1>2. /\ x.op \in Commanding /\ x.v = v /\ x.m = m /\ m # None
      /\ Start(m).op = "start" /\ Start(m).m = m
      /\ g.op \notin {"active", "start", "snap"} /\ (g.op \in Commanding => g.m = None)
  BY DEF Send, Write, Start, Instr, Commanding, Quiet, Markers, None
<1>3. Good(s)
  OBVIOUS
<1> HIDE DEF s
<1>4. PICK j \in 1..3 : Spans(s, 2, j)
  BY <1>1, <1>2, <1>3 DEF Good
<1>5. j = 3
  BY <1>4 DEF Spans
<1>6. Marked(k, s)
  BY <1>1, <1>2, <1>4, <1>5 DEF Marked, Commanding
<1>7. Closed(s)
  <2> SUFFICES ASSUME NEW i \in 1..3, NEW l \in 1..3, Spans(s, i, l), NEW h \in 1..(i - 1)
               PROVE  h + s[h].n < i
    BY <1>1 DEF Closed
  <2>1. i = 2
    BY <1>1, <1>2 DEF Spans, Commanding
  <2> QED BY <1>1, <2>1
<1>8. Busying(k, s)
  BY <1>1, <1>2, <1>6, <1>7 DEF Busying, Commanding
<1> QED BY <1>8, BusyingHonest DEF s

LEMMA MarkedPolite ==
  /\ Honest("focuser", FocuserMove) /\ Honest("rotator", RotatorMoveAbsolute)
  /\ Honest("filterwheel", FilterWheelSetPosition)
  /\ \A k : /\ Honest(k, CoverParkCap) /\ Honest(k, CalibratorOff) /\ Honest(k, DomeShutter)
            /\ Honest(k, DomePark) /\ Honest(k, TelescopePark("PARK")) /\ Honest(k, TelescopePark("UNPARK"))
            /\ Honest(k, FindHome) /\ Honest(k, PulseGuide("guideNS")) /\ Honest(k, PulseGuide("guideWE"))
<1>1. /\ {"abs", "slot", "cap", "light", "shutter", "park", "homing", "guideNS", "guideWE"} \subseteq Props
      /\ {"go", "PARK", "UNPARK"} \subseteq Args
      /\ {"move", "coverOp", "calOp", "parkOp", "shutOp", "home", "guide"} \subseteq Markers
  BY Named
<1>2. (\A v \in Props : Need(v) \in Quiet /\ Need(v).n = 0) /\ Available \in Quiet /\ Available.n = 0
  BY QuietInstrs DEF Need, Available, Instr
<1>3. \A s : Fine(s) => Good(s)
  BY DEF Fine
<1> HIDE DEF Quiet, Props, Args, Markers, Good
<1>4. Honest("focuser", FocuserMove)
  BY <1>1, <1>2, <1>3, MarkedHonest, MarkedPrograms, TargetFacts DEF FocuserMove
<1>5. Honest("rotator", RotatorMoveAbsolute)
  BY <1>1, <1>2, <1>3, MarkedHonest, MarkedPrograms, TargetFacts DEF RotatorMoveAbsolute
<1>6. Honest("filterwheel", FilterWheelSetPosition)
  BY <1>1, <1>2, <1>3, MarkedHonest, MarkedPrograms, TargetFacts DEF FilterWheelSetPosition
<1>7. \A k : Honest(k, CoverParkCap) /\ Honest(k, CalibratorOff) /\ Honest(k, DomeShutter)
  BY <1>1, <1>2, <1>3, MarkedHonest, MarkedPrograms, TargetFacts, ZenonT(40)
     DEF CoverParkCap, CalibratorOff, DomeShutter
<1>8. \A k : /\ Honest(k, DomePark) /\ Honest(k, TelescopePark("PARK")) /\ Honest(k, TelescopePark("UNPARK"))
  BY <1>1, <1>2, <1>3, MarkedHonest, MarkedPrograms, TargetFacts, ZenonT(40)
     DEF DomePark, TelescopePark
<1>9. \A k : Honest(k, FindHome) /\ Honest(k, PulseGuide("guideNS")) /\ Honest(k, PulseGuide("guideWE"))
  BY <1>1, <1>2, <1>3, MarkedHonest, MarkedPrograms, TargetFacts, ZenonT(40)
     DEF FindHome, PulseGuide
<1> QED BY <1>4, <1>5, <1>6, <1>7, <1>8, <1>9

\* The longer ones: their spans, and the branches in front of them.
LEMMA OneSpan ==
  ASSUME NEW k, NEW s, Good(s), NEW p \in 1..Len(s), s[p].op = "start",
         \A i \in 1..Len(s) : s[i].op \notin {"active", "snap"} /\ (s[i].op = "start" => i = p),
         \A i \in 1..Len(s) : s[i].op \in Commanding /\ s[i].m # None =>
           /\ p < i /\ s[i].m = s[p].m
           /\ s[i].v \in Watch[s[i].m] => s[i].v \in Target(k, s[i].m)
           /\ \E j \in 1..Len(s) : Spans(s, p, j) /\ i <= j,
         \A g \in 1..(p - 1) : g + s[g].n < p
  PROVE  Honest(k, s)
<1>1. Marked(k, s)
  <2> SUFFICES ASSUME NEW t \in 1..Len(s), s[t].op \in Commanding, s[t].m # None
               PROVE  /\ \E i, j \in 1..Len(s) : Spans(s, i, j) /\ s[i].m = s[t].m /\ i < t /\ t <= j
                      /\ s[t].v \in Watch[s[t].m] => s[t].v \in Target(k, s[t].m)
    BY DEF Marked
  <2>1. PICK j \in 1..Len(s) : Spans(s, p, j) /\ t <= j
    OBVIOUS
  <2>2. p < t /\ s[t].m = s[p].m /\ (s[t].v \in Watch[s[t].m] => s[t].v \in Target(k, s[t].m))
    OBVIOUS
  <2> QED BY <2>1, <2>2
<1>2. Closed(s)
  BY DEF Closed, Spans
<1> QED BY <1>1, <1>2, BusyingHonest DEF Busying

LEMMA CalibratorOnHonest ==
  ASSUME NEW k PROVE Honest(k, CalibratorOn)
<1> DEFINE s == CalibratorOn
<1> HIDE DEF s
<1>1. s = CalibratorOn
  BY DEF s
<1>2. Good(s) /\ Len(s) = 5 /\ s[2].op = "start" /\ s[2].m = "calOp" /\ s[1].n = 0
  BY <1>1, CalibratorOnFine, CalibratorOnListed DEF Fine
<1>3. \E j \in 1..5 : Spans(s, 2, j)
  BY <1>2 DEF Good
<1>4. \A j \in 1..5 : Spans(s, 2, j) => j = 5
  BY <1>1, CalibratorOnListed DEF Spans, Commanding
<1>5. \A i \in 1..5 : /\ s[i].op \notin {"active", "snap"} /\ (s[i].op = "start" => i = 2)
                      /\ s[i].op \in Commanding => i \in {4, 5} /\ s[i].m = "calOp" /\ s[i].v \in {"light", "intensity"}
  BY <1>1, CalibratorOnListed DEF Commanding
<1>6. Target(k, "calOp") = {"light", "intensity"}
  BY TargetFacts
<1>7. ASSUME NEW i \in 1..Len(s), s[i].op \in Commanding, s[i].m # None
      PROVE  /\ 2 < i /\ s[i].m = s[2].m
             /\ s[i].v \in Watch[s[i].m] => s[i].v \in Target(k, s[i].m)
             /\ \E j \in 1..Len(s) : Spans(s, 2, j) /\ i <= j
  BY <1>2, <1>3, <1>4, <1>5, <1>6, <1>7
<1>8. /\ 2 \in 1..Len(s) /\ \A g \in 1..(2 - 1) : g + s[g].n < 2
      /\ \A i \in 1..Len(s) : s[i].op \notin {"active", "snap"} /\ (s[i].op = "start" => i = 2)
  BY <1>2, <1>5
<1> QED BY <1>1, <1>2, <1>7, <1>8, OneSpan

LEMMA SlewAsyncHonest ==
  ASSUME NEW k PROVE Honest(k, SlewAsync)
<1> DEFINE s == SlewAsync
<1> HIDE DEF s
<1>1. s = SlewAsync
  BY DEF s
<1>2. Good(s) /\ Len(s) = 5 /\ s[4].op = "start" /\ s[4].m = "slew" /\ \A g \in 1..3 : g + s[g].n < 4
  BY <1>1, SlewAsyncFine, SlewAsyncListed DEF Fine
<1>3. \E j \in 1..5 : Spans(s, 4, j)
  BY <1>2 DEF Good
<1>4. \A j \in 1..5 : Spans(s, 4, j) => j = 5
  BY DEF Spans
<1>5. \A i \in 1..5 : /\ s[i].op \notin {"active", "snap"} /\ (s[i].op = "start" => i = 4)
                      /\ s[i].op \in Commanding /\ s[i].m # None => i = 5 /\ s[i].m = "slew" /\ s[i].v = "eq"
  BY <1>1, SlewAsyncListed DEF Commanding
<1>6. Target(k, "slew") = {"eq"}
  BY TargetFacts
<1>7. ASSUME NEW i \in 1..Len(s), s[i].op \in Commanding, s[i].m # None
      PROVE  /\ 4 < i /\ s[i].m = s[4].m
             /\ s[i].v \in Watch[s[i].m] => s[i].v \in Target(k, s[i].m)
             /\ \E j \in 1..Len(s) : Spans(s, 4, j) /\ i <= j
  BY <1>2, <1>3, <1>4, <1>5, <1>6, <1>7
<1>8. /\ 4 \in 1..Len(s) /\ \A g \in 1..(4 - 1) : g + s[g].n < 4
      /\ \A i \in 1..Len(s) : s[i].op \notin {"active", "snap"} /\ (s[i].op = "start" => i = 4)
  BY <1>2, <1>5
<1> QED BY <1>1, <1>2, <1>7, <1>8, OneSpan

LEMMA SlewSyncHonest ==
  ASSUME NEW k PROVE Honest(k, SlewSync)
<1> DEFINE s == SlewSync
<1> HIDE DEF s
<1>1. s = SlewSync
  BY DEF s
<1>2. Good(s) /\ Len(s) = 7 /\ s[5].op = "start" /\ s[5].m = "slew" /\ \A g \in 1..4 : g + s[g].n < 5
  BY <1>1, SlewSyncFine, SlewSyncListed DEF Fine
<1>3. \E j \in 1..7 : Spans(s, 5, j)
  BY <1>2 DEF Good
<1>4. \A j \in 1..7 : Spans(s, 5, j) => j = 6
  BY <1>1, SlewSyncListed DEF Spans, Commanding
<1>5. \A i \in 1..7 : /\ s[i].op \notin {"active", "snap"} /\ (s[i].op = "start" => i = 5)
                      /\ s[i].op \in Commanding /\ s[i].m # None => i = 6 /\ s[i].m = "slew" /\ s[i].v = "eq"
  BY <1>1, SlewSyncListed DEF Commanding
<1>6. Target(k, "slew") = {"eq"}
  BY TargetFacts
<1>7. ASSUME NEW i \in 1..Len(s), s[i].op \in Commanding, s[i].m # None
      PROVE  /\ 5 < i /\ s[i].m = s[5].m
             /\ s[i].v \in Watch[s[i].m] => s[i].v \in Target(k, s[i].m)
             /\ \E j \in 1..Len(s) : Spans(s, 5, j) /\ i <= j
  BY <1>2, <1>3, <1>4, <1>5, <1>6, <1>7
<1>8. /\ 5 \in 1..Len(s) /\ \A g \in 1..(5 - 1) : g + s[g].n < 5
      /\ \A i \in 1..Len(s) : s[i].op \notin {"active", "snap"} /\ (s[i].op = "start" => i = 5)
  BY <1>2, <1>5
<1> QED BY <1>1, <1>2, <1>7, <1>8, OneSpan

LEMMA SlewAltAzHonest ==
  ASSUME NEW k PROVE Honest(k, SlewAltAz)
<1> DEFINE s == SlewAltAz
<1> HIDE DEF s
<1>1. s = SlewAltAz
  BY DEF s
<1>2. Good(s) /\ Len(s) = 5 /\ s[3].op = "start" /\ s[3].m = "slew" /\ \A g \in 1..2 : g + s[g].n < 3
  BY <1>1, SlewAltAzFine, SlewAltAzListed DEF Fine
<1>3. \E j \in 1..5 : Spans(s, 3, j)
  BY <1>2 DEF Good
<1>4. \A j \in 1..5 : Spans(s, 3, j) => j = 4
  BY <1>1, SlewAltAzListed DEF Spans, Commanding
<1>5. \A i \in 1..5 : /\ s[i].op \notin {"active", "snap"} /\ (s[i].op = "start" => i = 3)
                      /\ s[i].op \in Commanding /\ s[i].m # None => i = 4 /\ s[i].m = "slew" /\ s[i].v = "hor"
  BY <1>1, SlewAltAzListed DEF Commanding
<1>6. "hor" \notin Watch["slew"]
  BY WatchFacts
<1>7. ASSUME NEW i \in 1..Len(s), s[i].op \in Commanding, s[i].m # None
      PROVE  /\ 3 < i /\ s[i].m = s[3].m
             /\ s[i].v \in Watch[s[i].m] => s[i].v \in Target(k, s[i].m)
             /\ \E j \in 1..Len(s) : Spans(s, 3, j) /\ i <= j
  BY <1>2, <1>3, <1>4, <1>5, <1>6, <1>7
<1>8. /\ 3 \in 1..Len(s) /\ \A g \in 1..(3 - 1) : g + s[g].n < 3
      /\ \A i \in 1..Len(s) : s[i].op \notin {"active", "snap"} /\ (s[i].op = "start" => i = 3)
  BY <1>2, <1>5
<1> QED BY <1>1, <1>2, <1>7, <1>8, OneSpan

LEMMA StartExposureHonest ==
  ASSUME NEW k PROVE Honest(k, StartExposure)
<1> DEFINE s == StartExposure
<1> HIDE DEF s
<1>1. s = StartExposure
  BY DEF s
<1>2. Good(s) /\ Len(s) = 5 /\ s[4].op = "start" /\ s[4].m = "exposure" /\ \A g \in 1..3 : g + s[g].n < 4
  BY <1>1, StartExposureFine, StartExposureListed DEF Fine
<1>3. \E j \in 1..5 : Spans(s, 4, j)
  BY <1>2 DEF Good
<1>4. \A j \in 1..5 : Spans(s, 4, j) => j = 5
  BY DEF Spans
<1>5. \A i \in 1..5 : /\ s[i].op \notin {"active", "snap"} /\ (s[i].op = "start" => i = 4)
                      /\ s[i].op \in Commanding /\ s[i].m # None => i = 5 /\ s[i].m = "exposure" /\ s[i].v = "exp"
  BY <1>1, StartExposureListed DEF Commanding
<1>6. Target(k, "exposure") = {"exp"}
  BY TargetFacts
<1>7. ASSUME NEW i \in 1..Len(s), s[i].op \in Commanding, s[i].m # None
      PROVE  /\ 4 < i /\ s[i].m = s[4].m
             /\ s[i].v \in Watch[s[i].m] => s[i].v \in Target(k, s[i].m)
             /\ \E j \in 1..Len(s) : Spans(s, 4, j) /\ i <= j
  BY <1>2, <1>3, <1>4, <1>5, <1>6, <1>7
<1>8. /\ 4 \in 1..Len(s) /\ \A g \in 1..(4 - 1) : g + s[g].n < 4
      /\ \A i \in 1..Len(s) : s[i].op \notin {"active", "snap"} /\ (s[i].op = "start" => i = 4)
  BY <1>2, <1>5
<1> QED BY <1>1, <1>2, <1>7, <1>8, OneSpan

\* Two of them set a marker twice.
LEMMA RotatorMoveRelativeHonest == Honest("rotator", RotatorMoveRelative)
<1> DEFINE s == RotatorMoveRelative
<1> HIDE DEF s
<1>1. s = RotatorMoveRelative
  BY DEF s
<1>2. Good(s) /\ Len(s) = 8 /\ s[3].op = "start" /\ s[7].op = "start" /\ s[2].n = 3
      /\ \A g \in 1..8 : g # 2 => s[g].n = 0
  BY <1>1, RotatorMoveRelativeFine, RotatorMoveRelativeListed DEF Fine
<1>3. (\E j \in 1..8 : Spans(s, 3, j)) /\ \E j \in 1..8 : Spans(s, 7, j)
  BY <1>2 DEF Good
<1>4. \A i, j \in 1..8 : Spans(s, i, j) => (i = 3 /\ j = 4) \/ (i = 7 /\ j = 8)
  <2>1. \A i \in 1..8 : s[i].op = "start" => i \in {3, 7}
    BY <1>1, RotatorMoveRelativeListed
  <2>2. \A j \in 1..8 : s[j].op \in Commanding => j \in {4, 8}
    BY <1>1, RotatorMoveRelativeListed DEF Commanding
  <2>3. s[5].op = "return"
    BY <1>1, RotatorMoveRelativeListed
  <2>4. ~Spans(s, 3, 8)
    BY <2>3 DEF Spans, Commanding
  <2> QED BY <2>1, <2>2, <2>4 DEF Spans
<1>5. \A i \in 1..8 : /\ s[i].op \notin {"active", "snap"}
                      /\ s[i].op \in Commanding => (i = 4 /\ s[i].v = "rel") \/ (i = 8 /\ s[i].v = "abs")
  BY <1>1, RotatorMoveRelativeListed DEF Commanding
<1>6. s[3].m = "move" /\ s[4].m = "move" /\ s[7].m = "move" /\ s[8].m = "move"
  BY <1>1, RotatorMoveRelativeListed
<1>7. "rel" \notin Watch["move"] /\ Target("rotator", "move") = {"abs"}
  BY TargetFacts, WatchFacts, Named
<1>8. Marked("rotator", s)
  BY <1>2, <1>3, <1>4, <1>5, <1>6, <1>7 DEF Marked
<1>9. Closed(s)
  BY <1>2, <1>4 DEF Closed
<1> QED BY <1>1, <1>2, <1>5, <1>8, <1>9, BusyingHonest DEF Busying

LEMMA DomeSlewToAzimuthHonest ==
  ASSUME NEW k PROVE Honest(k, DomeSlewToAzimuth)
<1> DEFINE s == DomeSlewToAzimuth
<1> HIDE DEF s
<1>1. s = DomeSlewToAzimuth
  BY DEF s
<1>2. Good(s) /\ Len(s) = 10 /\ s[5].op = "start" /\ s[9].op = "start" /\ s[2].n = 6 /\ s[3].n = 5
      /\ s[1].n = 0 /\ s[4].n = 0 /\ \A g \in 5..10 : s[g].n = 0
  BY <1>1, DomeSlewToAzimuthFine, DomeSlewToAzimuthListed DEF Fine
<1>3. (\E j \in 1..10 : Spans(s, 5, j)) /\ \E j \in 1..10 : Spans(s, 9, j)
  BY <1>2 DEF Good
<1>4. \A i, j \in 1..10 : Spans(s, i, j) => (i = 5 /\ j = 6) \/ (i = 9 /\ j = 10)
  <2>1. \A i \in 1..10 : s[i].op = "start" => i \in {5, 9}
    BY <1>1, DomeSlewToAzimuthListed
  <2>2. \A j \in 1..10 : s[j].op \in Commanding => j \in {6, 10}
    BY <1>1, DomeSlewToAzimuthListed DEF Commanding
  <2>3. s[7].op = "settle"
    BY <1>1, DomeSlewToAzimuthListed
  <2>4. ~Spans(s, 5, 10)
    BY <2>3 DEF Spans, Commanding
  <2> QED BY <2>1, <2>2, <2>4 DEF Spans
<1>5. \A i \in 1..10 : /\ s[i].op \notin {"active", "snap"}
                       /\ s[i].op \in Commanding => (i = 6 /\ s[i].v = "park") \/ (i = 10 /\ s[i].v = "az")
  <2>1. \A i \in 1..5 : s[i].op \notin {"active", "snap"} /\ s[i].op \notin Commanding
    BY <1>1, DomeSlewToAzimuthListed DEF Commanding
  <2>2. \A i \in 6..10 : /\ s[i].op \notin {"active", "snap"}
                         /\ s[i].op \in Commanding => (i = 6 /\ s[i].v = "park") \/ (i = 10 /\ s[i].v = "az")
    BY <1>1, DomeSlewToAzimuthListed DEF Commanding
  <2> QED BY <2>1, <2>2
<1>6. s[5].m = "parkOp" /\ s[6].m = "parkOp" /\ s[9].m = "azOp" /\ s[10].m = "azOp"
  BY <1>1, DomeSlewToAzimuthListed
<1>7. Target(k, "parkOp") = {"park"} /\ Target(k, "azOp") = {"az"}
  BY TargetFacts
<1>8. Marked(k, s)
  BY <1>2, <1>3, <1>4, <1>5, <1>6, <1>7 DEF Marked
<1>9. Closed(s)
  BY <1>2, <1>4 DEF Closed
<1> QED BY <1>1, <1>2, <1>5, <1>8, <1>9, BusyingHonest DEF Busying

\* Looks that only read, and ask about each marker once and informed.
LookOps == {"busy", "updated", "active", "axismoving", "ison", "isok"}
Looking(k, s) ==
  \A j \in 1..Len(s) :
    /\ s[j].op \in LookOps
    /\ s[j].op = "active" =>
         /\ s[j].m \in Markers
         /\ \A w \in Target(k, s[j].m) : \E i \in 1..(j - 1) : s[i].op \in {"busy", "isok"} /\ s[i].v = w
         /\ \A i \in 1..(j - 1) : s[i].op = "active" => s[i].m # s[j].m

LEMMA LookingHonest ==
  ASSUME NEW k, NEW s \in Seq(Instrs), Looking(k, s), Len(s) # 0
  PROVE  Honest(k, s)
<1>1. \A j \in 1..Len(s) : s[j].op \in LookOps
  BY DEF Looking
<1>2. Straight(s) /\ Once(s) /\ Marked(k, s) /\ Closed(s)
  BY <1>1 DEF LookOps, Straight, Once, Marked, Closed, Spans, Commanding
<1>3. s[1].op # "snap"
  BY <1>1 DEF LookOps
<1>4. Asking(k, s)
  BY <1>3 DEF Asking, Looking, Informed
<1> QED BY <1>2, <1>4 DEF Honest

\* The same behind a gate, after looks that return an error.
GatedAs(t, pre, looks, clears, p, l, e) ==
  /\ t \in Seq(Instrs) /\ Len(t) = p + l + 2 + e
  /\ \A j \in 1..p : t[j] = pre[j]
  /\ t[p + 1] = Instr("gate", None, None, None, l + 1)
  /\ \A j \in 1..l : t[p + 1 + j] = looks[j]
  /\ t[p + l + 2] = Still
  /\ \A j \in 1..e : t[p + l + 2 + j] = clears[j]
LEMMA GatedListed ==
  ASSUME NEW pre \in Seq(Easy), NEW looks \in Seq(Easy), NEW clears \in Seq(Easy)
  PROVE  GatedAs(pre \o Gated(clears, looks), pre, looks, clears, Len(pre), Len(looks), Len(clears))
<1> DEFINE t == pre \o Gated(clears, looks)
           p == Len(pre)
           l == Len(looks)
           g == Instr("gate", None, None, None, l + 1)
<1>1. g \in Instrs
  BY DEF Instr, Instrs, Ops, Args, None
<1>2. Still \in Instrs /\ Easy \subseteq Instrs
  BY EasyMarks DEF Easy
<1>3. Gated(clears, looks) = <<g>> \o looks \o <<Still>> \o clears
  BY DEF Gated
<1>4. pre \in Seq(Instrs) /\ looks \in Seq(Instrs) /\ clears \in Seq(Instrs)
  BY <1>2
<1> HIDE DEF g, Instrs
<1>5. t = pre \o (<<g>> \o looks \o <<Still>> \o clears)
  BY <1>3
<1> DEFINE r == <<g>> \o looks \o <<Still>> \o clears
<1>6. /\ r \in Seq(Instrs) /\ Len(r) = l + 2 + Len(clears) /\ r[1] = g /\ r[l + 2] = Still
      /\ \A j \in 1..l : r[1 + j] = looks[j]
      /\ \A j \in 1..Len(clears) : r[l + 2 + j] = clears[j]
  BY <1>1, <1>2, <1>4
<1> HIDE DEF r
<1>7. t = pre \o r
  BY <1>5 DEF r
<1>8. t \in Seq(Instrs) /\ Len(t) = p + Len(r) /\ p \in Nat /\ l \in Nat
      /\ (\A j \in 1..p : t[j] = pre[j]) /\ \A j \in 1..Len(r) : t[p + j] = r[j]
  <2>1. pre \in Seq(Instrs) /\ r \in Seq(Instrs) /\ t = pre \o r /\ p \in Nat /\ l \in Nat
    BY <1>4, <1>6, <1>7
  <2>2. t \in Seq(Instrs) /\ Len(t) = p + Len(r)
    BY <2>1
  <2>3. \A j \in 1..p : t[j] = pre[j]
    BY <2>1
  <2>4. ASSUME NEW j \in 1..Len(r) PROVE t[p + j] = r[j]
    <3>1. p + j \in 1..(Len(pre) + Len(r)) /\ ~(p + j <= Len(pre)) /\ (p + j) - Len(pre) = j
      BY <2>1
    <3> QED BY <2>1, <3>1
  <2> QED BY <2>1, <2>2, <2>3, <2>4
<1>9. t[p + 1] = r[1] /\ t[p + l + 2] = r[l + 2]
  <2>1. 1 \in 1..Len(r) /\ l + 2 \in 1..Len(r) BY <1>6, <1>8, <1>4
  <2>2. p + l + 2 = p + (l + 2) BY <1>8
  <2> QED BY <1>8, <2>1, <2>2
<1>10. \A j \in 1..l : t[p + 1 + j] = looks[j]
  <2> TAKE j \in 1..l
  <2>1. 1 + j \in 1..Len(r) /\ p + 1 + j = p + (1 + j) BY <1>4, <1>6, <1>8
  <2> QED BY <1>6, <1>8, <2>1
<1>11. \A j \in 1..Len(clears) : t[p + l + 2 + j] = clears[j]
  <2> TAKE j \in 1..Len(clears)
  <2>1. l + 2 + j \in 1..Len(r) /\ p + l + 2 + j = p + (l + 2 + j) BY <1>4, <1>6, <1>8
  <2> QED BY <1>6, <1>8, <2>1
<1>12. Len(t) = p + l + 2 + Len(clears)
  BY <1>4, <1>6, <1>8
<1> QED BY <1>6, <1>8, <1>9, <1>10, <1>11, <1>12 DEF g, GatedAs

LEMMA GatedHonest ==
  ASSUME NEW k, NEW pre \in Seq(Easy), \A i \in 1..Len(pre) : pre[i].op = "need",
         NEW looks \in Seq(Easy), Looking(k, looks),
         NEW clears \in Seq(Easy), \A i \in 1..Len(clears) : clears[i].op \in {"clear", "axis"}
  PROVE  Honest(k, pre \o Gated(clears, looks))
<1> DEFINE t == pre \o Gated(clears, looks)
           p == Len(pre)
           l == Len(looks)
           e == Len(clears)
<1>0. t = pre \o Gated(clears, looks) /\ p = Len(pre) /\ l = Len(looks) /\ e = Len(clears)
  OBVIOUS
<1>2. p \in Nat /\ l \in Nat /\ e \in Nat
  OBVIOUS
<1>12. \A i \in 1..e : clears[i].op \in {"clear", "axis"}
  OBVIOUS
<1>13. GatedAs(t, pre, looks, clears, p, l, e)
  BY GatedListed
<1> HIDE DEF t, p, l, e
<1>1. /\ t \in Seq(Instrs) /\ Len(t) = p + l + 2 + e
      /\ \A j \in 1..p : t[j] = pre[j]
      /\ t[p + 1] = Instr("gate", None, None, None, l + 1)
      /\ \A j \in 1..l : t[p + 1 + j] = looks[j]
      /\ t[p + l + 2] = Still
      /\ \A j \in 1..e : t[p + l + 2 + j] = clears[j]
  BY <1>13 DEF GatedAs
<1>3. t[p + 1].op = "gate" /\ t[p + 1].n = l + 1 /\ t[p + l + 2].op = "still"
  BY <1>1 DEF Instr, Still
<1>4. ASSUME NEW j \in 1..Len(t)
      PROVE  \/ j \in 1..p /\ t[j].op = "need"
             \/ j = p + 1
             \/ \E i \in 1..l : j = p + 1 + i /\ t[j] = looks[i]
             \/ j = p + l + 2
             \/ t[j].op \in {"clear", "axis"}
  <2>1. CASE j \in 1..p BY <2>1, <1>0, <1>1
  <2>2. CASE j \in (p + 2)..(p + l + 1)
    <3>1. PICK i \in 1..l : j = p + 1 + i BY <1>2, <2>2
    <3> QED BY <3>1, <1>1
  <2>3. CASE j > p + l + 2
    <3>1. j \in Int /\ j <= p + l + 2 + e BY <1>1
    <3>2. PICK i \in 1..e : j = p + l + 2 + i BY <1>2, <2>3, <3>1
    <3>3. t[j] = clears[i] BY <3>2, <1>1
    <3> QED BY <3>3, <1>12
  <2>4. j \in Int /\ 1 <= j
    BY <1>1
  <2>5. j \in 1..p \/ j = p + 1 \/ j \in (p + 2)..(p + l + 1) \/ j = p + l + 2 \/ j > p + l + 2
    BY <2>4, <1>2
  <2> QED BY <2>1, <2>2, <2>3, <2>5, Zenon
<1>5. \A i \in 1..l : looks[i].op \in LookOps
  BY <1>0 DEF Looking
<1>6. \A j \in 1..Len(t) :
        /\ t[j].op \notin {"if", "ifnot", "since", "snap", "start", "send", "write"}
        /\ t[j].op = "gate" => j = p + 1
        /\ t[j].op = "active" => \E i \in 1..l : j = p + 1 + i /\ t[j] = looks[i]
  BY <1>3, <1>4, <1>5 DEF LookOps
<1>7. Straight(t)
  <2> SUFFICES ASSUME NEW i \in 1..Len(t), NEW j \in 1..Len(t), t[j].op = "active", t[i].op = "gate"
               PROVE  j <= i + t[i].n
    BY <1>6 DEF Straight
  <2>1. PICK h \in 1..l : j = p + 1 + h
    BY <1>6
  <2>2. i = p + 1 /\ t[i].n = l + 1
    BY <1>3, <1>6
  <2> QED BY <1>2, <2>1, <2>2
<1>8. Once(t) /\ Marked(k, t) /\ Closed(t)
  BY <1>6 DEF Once, Marked, Closed, Spans, Commanding
<1>9. t[1].op # "snap"
  BY <1>1, <1>2, <1>6, SMTT(30)
<1>10. ASSUME NEW j \in 1..Len(t), t[j].op = "active"
       PROVE  /\ t[j].m \in Markers /\ Informed(k, t, j)
              /\ \A i \in 1..(j - 1) : t[i].op = "active" => t[i].m # t[j].m
  <2>1. PICK h \in 1..l : j = p + 1 + h /\ t[j] = looks[h]
    BY <1>6, <1>10
  <2>2. /\ looks[h].m \in Markers
        /\ \A w \in Target(k, looks[h].m) :
             \E i \in 1..(h - 1) : looks[i].op \in {"busy", "isok"} /\ looks[i].v = w
        /\ \A i \in 1..(h - 1) : looks[i].op = "active" => looks[i].m # looks[h].m
    <3>1. h \in 1..Len(looks) /\ looks[h].op = "active"
      BY <2>1, <1>10, <1>0
    <3> QED BY <3>1 DEF Looking
  <2>3. ASSUME NEW w \in Target(k, t[j].m)
        PROVE  \E i \in 1..(j - 1) : t[i].op \in {"busy", "isok"} /\ t[i].v = w
    <3>1. PICK i \in 1..(h - 1) : looks[i].op \in {"busy", "isok"} /\ looks[i].v = w
      BY <2>1, <2>2
    <3>2. i \in 1..l /\ p + 1 + i \in 1..(j - 1)
      BY <1>2, <2>1, <3>1
    <3> QED BY <1>1, <3>1, <3>2
  <2>4. ASSUME NEW i \in 1..(j - 1), t[i].op = "active" PROVE t[i].m # t[j].m
    <3>1. i \in 1..Len(t)
      BY <1>1, <1>2
    <3>2. PICK f \in 1..l : i = p + 1 + f /\ t[i] = looks[f]
      BY <1>6, <2>4, <3>1
    <3>3. f \in 1..(h - 1)
      BY <1>2, <2>1, <3>2
    <3> QED BY <2>1, <2>2, <2>4, <3>2, <3>3
  <2> QED BY <1>9, <2>1, <2>2, <2>3, <2>4 DEF Informed
<1>11. Asking(k, t)
  BY <1>10 DEF Asking
<1> QED BY <1>7, <1>8, <1>11 DEF Honest, t

LEMMA LookFields ==
  /\ \A v \in Props :
       /\ Busy(v).op = "busy" /\ Busy(v).v = v /\ BusyOrAlert(v).op = "busy" /\ BusyOrAlert(v).v = v
       /\ IsOk(v).op = "isok" /\ IsOk(v).v = v /\ Updated(v).op = "updated"
       /\ \A a \in Args : IsOn(v, a).op = "ison"
       /\ NotAlert(v).op = "need"
  /\ \A m \in Markers : Active(m).op = "active" /\ Active(m).m = m /\ Clear(m).op = "clear"
  /\ AxisMoving.op = "axismoving" /\ \A a \in Args : Axis(a).op = "axis"
BY DEF Busy, BusyOrAlert, IsOk, Updated, IsOn, NotAlert, Active, Clear, AxisMoving, Axis, Instr

\* One marker, the last thing asked about.
LEMMA LastActive ==
  ASSUME NEW k, NEW s, Len(s) \in Nat \ {0},
         NEW m \in Markers, s[Len(s)].op = "active", s[Len(s)].m = m,
         \A j \in 1..(Len(s) - 1) : s[j].op \in LookOps \ {"active"},
         \A w \in Target(k, m) : \E i \in 1..(Len(s) - 1) : s[i].op \in {"busy", "isok"} /\ s[i].v = w
  PROVE  Looking(k, s)
<1> DEFINE n == Len(s)
<1>1. \A j \in 1..n : j = n \/ j \in 1..(n - 1)
  OBVIOUS
<1>2. s[n].op \in LookOps
  BY DEF LookOps
<1> HIDE DEF n
<1>3. \A j \in 1..n : s[j].op \in LookOps /\ (s[j].op = "active" => j = n)
  BY <1>1, <1>2 DEF n
<1> QED BY <1>3 DEF Looking, n

LEMMA LooksOfPolls ==
  /\ Looking("focuser", <<Busy("abs"), Busy("rel"), Updated("abs"), Active("move")>>)
  /\ Looking("rotator", <<Busy("abs"), Updated("abs"), Active("move")>>)
  /\ Looking("filterwheel", <<Busy("slot"), Updated("slot"), Active("move")>>)
  /\ \A k :
       /\ Looking(k, <<Busy("cap"), Updated("cap"), Active("coverOp")>>)
       /\ Looking(k, <<Busy("light"), Busy("intensity"), Updated("light"), Updated("intensity"),
                       Active("calOp")>>)
       /\ Looking(k, <<Busy("guideNS"), Busy("guideWE"), Updated("guideNS"), Updated("guideWE"),
                       Active("guide")>>)
       /\ Looking(k, <<BusyOrAlert("exp"), Updated("exp"), Active("exposure")>>)
       /\ Looking(k, DomeAtPark) /\ Looking(k, TelescopeAtPark) /\ Looking(k, AtHome)
<1>1. /\ {"abs", "rel", "slot", "cap", "light", "intensity", "park", "homing", "guideNS", "guideWE",
          "exp"} \subseteq Props
      /\ {"move", "coverOp", "calOp", "guide", "exposure", "parkOp", "home"} \subseteq Markers
      /\ "PARK" \in Args
  BY Named
<1>2. {"busy", "updated", "isok", "ison", "axismoving"} \subseteq LookOps \ {"active"}
  BY DEF LookOps
<1>3. ASSUME NEW k, NEW x, NEW y, NEW z,
             x.op \in {"busy", "isok"}, y.op \in LookOps \ {"active"},
             NEW m \in Markers, Target(k, m) = {x.v}, z = Active(m)
      PROVE  Looking(k, <<x, y, z>>)
  <2> DEFINE s == <<x, y, z>>
  <2>1. Len(s) = 3 /\ s[1] = x /\ s[2] = y /\ s[3] = z
    OBVIOUS
  <2> HIDE DEF s
  <2>2. /\ Len(s) \in Nat \ {0} /\ s[Len(s)].op = "active" /\ s[Len(s)].m = m
        /\ \A j \in 1..(Len(s) - 1) : s[j].op \in LookOps \ {"active"}
    BY <1>2, <1>3, <2>1, LookFields
  <2>3. \A w \in Target(k, m) : \E i \in 1..(Len(s) - 1) : s[i].op \in {"busy", "isok"} /\ s[i].v = w
    BY <1>3, <2>1
  <2>4. Looking(k, s)
    BY <2>2, <2>3, LastActive
  <2> QED BY <2>4 DEF s
<1>4. ASSUME NEW k, NEW p \in Props, NEW q \in Props, NEW m \in Markers, Target(k, m) = {p, q}
      PROVE  Looking(k, <<Busy(p), Busy(q), Updated(p), Updated(q), Active(m)>>)
  <2> DEFINE s == <<Busy(p), Busy(q), Updated(p), Updated(q), Active(m)>>
  <2>1. Len(s) = 5 /\ s[1] = Busy(p) /\ s[2] = Busy(q) /\ s[3] = Updated(p) /\ s[4] = Updated(q)
        /\ s[5] = Active(m)
    OBVIOUS
  <2> HIDE DEF s
  <2>2. /\ Len(s) \in Nat \ {0} /\ s[Len(s)].op = "active" /\ s[Len(s)].m = m
        /\ \A j \in 1..(Len(s) - 1) : s[j].op \in LookOps \ {"active"}
    BY <1>2, <2>1, LookFields
  <2>3. \A w \in Target(k, m) : \E i \in 1..(Len(s) - 1) : s[i].op \in {"busy", "isok"} /\ s[i].v = w
    BY <1>4, <2>1, LookFields
  <2>4. Looking(k, s)
    BY <2>2, <2>3, LastActive
  <2> QED BY <2>4 DEF s
<1>5. ASSUME NEW k, NEW x, NEW y, NEW y2, NEW z,
             x.op \in LookOps \ {"active"}, y.op \in LookOps \ {"active"}, y2.op = "updated",
             NEW m \in Markers, z = Active(m),
             \/ x.op = "busy" /\ Target(k, m) = {x.v}
             \/ y.op = "busy" /\ Target(k, m) = {y.v}
      PROVE  Looking(k, <<x, y, y2, z>>)
  <2> DEFINE s == <<x, y, y2, z>>
  <2>1. Len(s) = 4 /\ s[1] = x /\ s[2] = y /\ s[3] = y2 /\ s[4] = z
    OBVIOUS
  <2> HIDE DEF s
  <2>2. /\ Len(s) \in Nat \ {0} /\ s[Len(s)].op = "active" /\ s[Len(s)].m = m
        /\ \A j \in 1..(Len(s) - 1) : s[j].op \in LookOps \ {"active"}
    BY <1>2, <1>5, <2>1, LookFields
  <2>3. \A v \in Target(k, m) : \E i \in 1..(Len(s) - 1) : s[i].op \in {"busy", "isok"} /\ s[i].v = v
    BY <1>5, <2>1
  <2>4. Looking(k, s)
    BY <2>2, <2>3, LastActive
  <2> QED BY <2>4 DEF s
<1> HIDE DEF Props, Markers, Args, LookOps, Looking
<1>6. /\ Looking("rotator", <<Busy("abs"), Updated("abs"), Active("move")>>)
      /\ Looking("filterwheel", <<Busy("slot"), Updated("slot"), Active("move")>>)
  BY <1>1, <1>2, <1>3, LookFields, TargetFacts
<1>7. \A k : /\ Looking(k, <<Busy("cap"), Updated("cap"), Active("coverOp")>>)
             /\ Looking(k, <<BusyOrAlert("exp"), Updated("exp"), Active("exposure")>>)
             /\ Looking(k, <<IsOk("homing"), Updated("homing"), Active("home")>>)
  BY <1>1, <1>2, <1>3, LookFields, TargetFacts
<1>8. \A k : /\ Looking(k, <<Busy("light"), Busy("intensity"), Updated("light"), Updated("intensity"),
                             Active("calOp")>>)
             /\ Looking(k, <<Busy("guideNS"), Busy("guideWE"), Updated("guideNS"), Updated("guideWE"),
                             Active("guide")>>)
  BY <1>1, <1>4, TargetFacts
<1>9. Looking("focuser", <<Busy("abs"), Busy("rel"), Updated("abs"), Active("move")>>)
  BY <1>1, <1>2, <1>5, LookFields, TargetFacts
<1>10. \A k : Looking(k, <<IsOn("park", "PARK"), Busy("park"), Updated("park"), Active("parkOp")>>)
  BY <1>1, <1>2, <1>5, LookFields, TargetFacts
<1> QED BY <1>6, <1>7, <1>8, <1>9, <1>10 DEF DomeAtPark, TelescopeAtPark, AtHome

\* The two that ask about three markers.
LEMMA DomeLooks ==
  ASSUME NEW k, NEW s,
         s = <<Busy("az"), Busy("rel"), Busy("motion"), Busy("park"), Busy("shutter"), Updated("az"),
               Active("azOp"), Updated("park"), Active("parkOp"), Updated("shutter"), Active("shutOp")>>
  PROVE  Looking(k, s)
<1>1. Len(s) = 11 /\ s[1] = Busy("az") /\ s[2] = Busy("rel") /\ s[3] = Busy("motion")
      /\ s[4] = Busy("park") /\ s[5] = Busy("shutter") /\ s[6] = Updated("az")
  OBVIOUS
<1>2. s[7] = Active("azOp") /\ s[8] = Updated("park") /\ s[9] = Active("parkOp")
      /\ s[10] = Updated("shutter") /\ s[11] = Active("shutOp")
  OBVIOUS
<1>3. {"az", "rel", "motion", "park", "shutter"} \subseteq Props /\ {"azOp", "parkOp", "shutOp"} \subseteq Markers
  BY Named
<1> HIDE DEF Props, Markers, Args
<1>4. /\ \A i \in 1..5 : s[i].op = "busy"
      /\ s[1].v = "az" /\ s[4].v = "park" /\ s[5].v = "shutter"
      /\ \A i \in {6, 8, 10} : s[i].op = "updated"
      /\ \A i \in {7, 9, 11} : s[i].op = "active"
      /\ s[7].m = "azOp" /\ s[9].m = "parkOp" /\ s[11].m = "shutOp"
  BY <1>1, <1>2, <1>3, LookFields
<1>5. \A j \in 1..11 : j \in 1..5 \/ j \in {6, 8, 10} \/ j \in {7, 9, 11}
  OBVIOUS
<1>6. \A j \in 1..11 : s[j].op \in LookOps /\ (s[j].op = "active" => j \in {7, 9, 11})
  BY <1>4, <1>5 DEF LookOps
<1>7. Target(k, "azOp") = {"az"} /\ Target(k, "parkOp") = {"park"} /\ Target(k, "shutOp") = {"shutter"}
  BY TargetFacts
<1>8. ASSUME NEW j \in {7, 9, 11}
      PROVE  /\ s[j].m \in Markers
             /\ \A w \in Target(k, s[j].m) : \E i \in 1..(j - 1) : s[i].op \in {"busy", "isok"} /\ s[i].v = w
  BY <1>3, <1>4, <1>7
<1>9. \A j \in {7, 9, 11} : \A i \in 1..(j - 1) : s[i].op = "active" => s[i].m # s[j].m
  BY <1>4, <1>6
<1> QED BY <1>1, <1>6, <1>8, <1>9 DEF Looking

LEMMA TelescopeLooks ==
  ASSUME NEW k, NEW s,
         s = <<Busy("eq"), Busy("hor"), Busy("park"), Busy("homing"), AxisMoving, Updated("eq"),
               Active("slew"), Updated("park"), Active("parkOp"), Updated("homing"), Active("home")>>
  PROVE  Looking(k, s)
<1>1. Len(s) = 11 /\ s[1] = Busy("eq") /\ s[2] = Busy("hor") /\ s[3] = Busy("park")
      /\ s[4] = Busy("homing") /\ s[5] = AxisMoving /\ s[6] = Updated("eq")
  OBVIOUS
<1>2. s[7] = Active("slew") /\ s[8] = Updated("park") /\ s[9] = Active("parkOp")
      /\ s[10] = Updated("homing") /\ s[11] = Active("home")
  OBVIOUS
<1>3. {"eq", "hor", "park", "homing"} \subseteq Props /\ {"slew", "parkOp", "home"} \subseteq Markers
  BY Named
<1> HIDE DEF Props, Markers, Args
<1>4. /\ \A i \in 1..4 : s[i].op = "busy"
      /\ s[1].v = "eq" /\ s[3].v = "park" /\ s[4].v = "homing" /\ s[5].op = "axismoving"
      /\ \A i \in {6, 8, 10} : s[i].op = "updated"
      /\ \A i \in {7, 9, 11} : s[i].op = "active"
      /\ s[7].m = "slew" /\ s[9].m = "parkOp" /\ s[11].m = "home"
  BY <1>1, <1>2, <1>3, LookFields
<1>5. \A j \in 1..11 : j \in 1..4 \/ j = 5 \/ j \in {6, 8, 10} \/ j \in {7, 9, 11}
  OBVIOUS
<1>6. \A j \in 1..11 : s[j].op \in LookOps /\ (s[j].op = "active" => j \in {7, 9, 11})
  BY <1>4, <1>5 DEF LookOps
<1>7. Target(k, "slew") = {"eq"} /\ Target(k, "parkOp") = {"park"} /\ Target(k, "home") = {"homing"}
  BY TargetFacts
<1>8. ASSUME NEW j \in {7, 9, 11}
      PROVE  /\ s[j].m \in Markers
             /\ \A w \in Target(k, s[j].m) : \E i \in 1..(j - 1) : s[i].op \in {"busy", "isok"} /\ s[i].v = w
  BY <1>3, <1>4, <1>7
<1>9. \A j \in {7, 9, 11} : \A i \in 1..(j - 1) : s[i].op = "active" => s[i].m # s[j].m
  BY <1>4, <1>6
<1> QED BY <1>1, <1>6, <1>8, <1>9 DEF Looking

LEMMA PollsHonest ==
  /\ Honest("focuser", FocuserIsMoving) /\ Honest("rotator", RotatorIsMoving)
  /\ Honest("filterwheel", FilterWheelMoving)
  /\ \A k : /\ Honest(k, CoverState) /\ Honest(k, CalibratorState) /\ Honest(k, DomeSlewing)
            /\ Honest(k, TelescopeSlewing) /\ Honest(k, IsPulseGuiding) /\ Honest(k, CameraState)
            /\ Honest(k, DomeAtPark) /\ Honest(k, TelescopeAtPark) /\ Honest(k, AtHome)
<1>1. /\ \A m \in Markers : Clear(m) \in Easy /\ Active(m) \in Easy
      /\ AxisMoving \in Easy /\ Axis("off") \in Easy
  BY EasyMarks, Named
<1>2. \A v \in Props : /\ Busy(v) \in Easy /\ Updated(v) \in Easy /\ NotAlert(v) \in Easy
                       /\ BusyOrAlert(v) \in Easy /\ IsOk(v) \in Easy /\ IsOn(v, "PARK") \in Easy
  BY EasyLooks, Named
<1>3. {"abs", "rel", "slot", "cap", "light", "intensity", "az", "park", "shutter", "motion", "hor",
       "homing", "guideNS", "guideWE", "exp", "eq"} \subseteq Props
  BY Named
<1>4. Easy \subseteq Instrs
  BY DEF Easy
<1>5. "off" \in Args
  BY Named
<1> HIDE DEF Easy, Props, Markers, Args, Instrs, Looking, Honest
<1>6. ASSUME NEW k, NEW looks \in Seq(Easy), Looking(k, looks), NEW clears \in Seq(Easy),
             \A i \in 1..Len(clears) : clears[i].op \in {"clear", "axis"}
      PROVE  Honest(k, Gated(clears, looks))
  <2> DEFINE pre == SubSeq(looks, 1, 0)
  <2>1. pre \in Seq(Easy) /\ Len(pre) = 0
    OBVIOUS
  <2>3. Gated(clears, looks) \in Seq(Instrs)
    BY <1>6, GatedCalm DEF Calm
  <2> HIDE DEF pre
  <2>4. pre \o Gated(clears, looks) = Gated(clears, looks)
    BY <2>1, <2>3, <1>4
  <2>5. \A i \in 1..Len(pre) : pre[i].op = "need"
    BY <2>1
  <2>6. Honest(k, pre \o Gated(clears, looks))
    BY <1>6, <2>1, <2>5, GatedHonest
  <2> QED BY <2>4, <2>6
<1>7. ASSUME NEW k, NEW looks \in Seq(Easy), Looking(k, looks), NEW m \in Markers
      PROVE  Honest(k, Gated(<<Clear(m)>>, looks))
  <2>1. <<Clear(m)>> \in Seq(Easy) /\ \A i \in 1..Len(<<Clear(m)>>) : <<Clear(m)>>[i].op \in {"clear", "axis"}
    BY <1>1, LookFields
  <2> QED BY <1>6, <1>7, <2>1
<1>8. ASSUME NEW k, NEW looks \in Seq(Easy), Looking(k, looks), NEW m \in Markers, NEW v \in Props
      PROVE  Honest(k, <<NotAlert(v)>> \o Gated(<<Clear(m)>>, looks))
  <2>1. <<NotAlert(v)>> \in Seq(Easy) /\ \A i \in 1..Len(<<NotAlert(v)>>) : <<NotAlert(v)>>[i].op = "need"
    BY <1>2, LookFields
  <2>2. <<Clear(m)>> \in Seq(Easy) /\ \A i \in 1..Len(<<Clear(m)>>) : <<Clear(m)>>[i].op \in {"clear", "axis"}
    BY <1>1, LookFields
  <2> QED BY <1>8, <2>1, <2>2, GatedHonest
<1>9. /\ Honest("focuser", FocuserIsMoving) /\ Honest("rotator", RotatorIsMoving)
      /\ Honest("filterwheel", FilterWheelMoving)
  <2>1. <<Busy("abs"), Busy("rel"), Updated("abs"), Active("move")>> \in Seq(Easy)
    BY <1>1, <1>2, <1>3, Named
  <2>2. <<Busy("abs"), Updated("abs"), Active("move")>> \in Seq(Easy) BY <1>1, <1>2, <1>3, Named
  <2>3. <<Busy("slot"), Updated("slot"), Active("move")>> \in Seq(Easy) BY <1>1, <1>2, <1>3, Named
  <2> QED BY <2>1, <2>2, <2>3, <1>7, LooksOfPolls, Named DEF FocuserIsMoving, RotatorIsMoving, FilterWheelMoving
<1>10. \A k : Honest(k, CoverState) /\ Honest(k, CalibratorState)
  <2>1. <<Busy("cap"), Updated("cap"), Active("coverOp")>> \in Seq(Easy) BY <1>1, <1>2, <1>3, Named
  <2>2. <<Busy("light"), Busy("intensity"), Updated("light"), Updated("intensity"), Active("calOp")>>
          \in Seq(Easy)
    BY <1>1, <1>2, <1>3, Named
  <2> QED BY <2>1, <2>2, <1>3, <1>8, LooksOfPolls, Named
          DEF CoverState, CoverMoving, CalibratorState, CalibratorChanging
<1>11. \A k : Honest(k, IsPulseGuiding) /\ Honest(k, CameraState)
  <2>1. <<Busy("guideNS"), Busy("guideWE"), Updated("guideNS"), Updated("guideWE"), Active("guide")>>
          \in Seq(Easy)
    BY <1>1, <1>2, <1>3, Named
  <2>2. <<BusyOrAlert("exp"), Updated("exp"), Active("exposure")>> \in Seq(Easy)
    BY <1>1, <1>2, <1>3, Named
  <2> QED BY <2>1, <2>2, <1>7, LooksOfPolls, Named DEF IsPulseGuiding, CameraState
<1>12. \A k : Honest(k, DomeAtPark) /\ Honest(k, TelescopeAtPark) /\ Honest(k, AtHome)
  <2>1. /\ DomeAtPark \in Seq(Instrs) /\ TelescopeAtPark \in Seq(Instrs) /\ AtHome \in Seq(Instrs)
        /\ Len(DomeAtPark) # 0 /\ Len(TelescopeAtPark) # 0 /\ Len(AtHome) # 0
    BY ListCalm DEF Calm
  <2> QED BY <2>1, LooksOfPolls, LookingHonest
<1>13. ASSUME NEW k PROVE Honest(k, DomeSlewing)
  <2> DEFINE s == <<Busy("az"), Busy("rel"), Busy("motion"), Busy("park"), Busy("shutter"), Updated("az"),
                    Active("azOp"), Updated("park"), Active("parkOp"), Updated("shutter"), Active("shutOp")>>
             e == <<Clear("azOp"), Clear("parkOp"), Clear("shutOp")>>
  <2>1. s \in Seq(Easy)
    BY <1>1, <1>2, <1>3, Named
  <2>2. e \in Seq(Easy) /\ \A i \in 1..Len(e) : e[i].op \in {"clear", "axis"}
    <3>1. \A m \in {"azOp", "parkOp", "shutOp"} : Clear(m) \in Easy /\ Clear(m).op = "clear"
      BY <1>1, LookFields, Named
    <3>2. /\ Len(e) = 3 /\ e[1] = Clear("azOp") /\ e[2] = Clear("parkOp") /\ e[3] = Clear("shutOp")
          /\ e \in Seq(Easy)
      BY <3>1
    <3> HIDE DEF e
    <3> QED BY <3>1, <3>2
  <2>3. Looking(k, s)
    BY DomeLooks
  <2>4. DomeSlewing = Gated(e, s)
    BY DEF DomeSlewing
  <2> HIDE DEF s, e
  <2> QED BY <1>6, <2>1, <2>2, <2>3, <2>4
<1>14. ASSUME NEW k PROVE Honest(k, TelescopeSlewing)
  <2> DEFINE s == <<Busy("eq"), Busy("hor"), Busy("park"), Busy("homing"), AxisMoving, Updated("eq"),
                    Active("slew"), Updated("park"), Active("parkOp"), Updated("homing"), Active("home")>>
             e == <<Axis("off"), Clear("slew"), Clear("parkOp"), Clear("home")>>
  <2>1. s \in Seq(Easy)
    BY <1>1, <1>2, <1>3, Named
  <2>2. e \in Seq(Easy) /\ \A i \in 1..Len(e) : e[i].op \in {"clear", "axis"}
    <3>1. /\ \A m \in {"slew", "parkOp", "home"} : Clear(m) \in Easy /\ Clear(m).op = "clear"
          /\ Axis("off") \in Easy /\ Axis("off").op = "axis"
      BY <1>1, <1>5, LookFields, Named
    <3>2. /\ Len(e) = 4 /\ e[1] = Axis("off") /\ e[2] = Clear("slew") /\ e[3] = Clear("parkOp")
          /\ e[4] = Clear("home") /\ e \in Seq(Easy)
      BY <3>1
    <3> HIDE DEF e
    <3> QED BY <3>1, <3>2
  <2>3. Looking(k, s)
    BY TelescopeLooks
  <2>4. TelescopeSlewing = Gated(e, s)
    BY DEF TelescopeSlewing
  <2> HIDE DEF s, e
  <2> QED BY <1>6, <2>1, <2>2, <2>3, <2>4
<1> QED BY <1>9, <1>10, <1>11, <1>12, <1>13, <1>14

\* What one snapshot answers.
LEMMA SnapsHonest ==
  /\ Honest("focuser", FocuserDeviceState)
  /\ \A k : /\ Honest(k, DomeShutterStatus) /\ Honest(k, CameraDeviceState)
            /\ Honest(k, TelescopeDeviceState)
<1>1. ASSUME NEW k, NEW s, Len(s) \in Nat \ {0}, s[1].op = "snap",
             \A j \in 2..Len(s) :
               /\ s[j].op \in {"active", "axismoving"}
               /\ s[j].op = "active" => /\ s[j].m \in Markers
                                        /\ Target(k, s[j].m) \subseteq {s[1].v} \cup s[1].also
                                        /\ \A i \in 2..(j - 1) : s[i].op = "active" => s[i].m # s[j].m
      PROVE  Honest(k, s)
  <2>1. \A j \in 1..Len(s) : j = 1 \/ j \in 2..Len(s)
    BY <1>1
  <2>2. \A j \in 1..Len(s) : /\ s[j].op \in {"snap", "active", "axismoving"}
                             /\ s[j].op = "snap" => j = 1
                             /\ s[j].op = "active" => j \in 2..Len(s)
    BY <1>1, <2>1
  <2>3. Straight(s) /\ Once(s) /\ Marked(k, s) /\ Closed(s)
    BY <2>2 DEF Straight, Once, Marked, Closed, Spans, Commanding
  <2>4. ASSUME NEW j \in 1..Len(s), s[j].op = "active", NEW i \in 1..(j - 1), s[i].op = "active"
        PROVE  s[i].m # s[j].m
    <3>1. i \in 1..Len(s)
      BY <1>1
    <3>2. j \in 2..Len(s) /\ i \in 2..(j - 1)
      BY <2>2, <2>4, <3>1
    <3> QED BY <1>1, <2>4, <3>2
  <2>5. Asking(k, s)
    BY <1>1, <2>2, <2>4 DEF Asking, Informed
  <2> QED BY <2>3, <2>5 DEF Honest
<1>2. /\ "abs" \in Props /\ "shutter" \in Props /\ "exp" \in Props
      /\ {"move", "shutOp", "exposure", "slew", "parkOp", "home"} \subseteq Markers
  BY Named
<1>3. /\ Snap("abs", {}).op = "snap" /\ Snap("abs", {}).v = "abs" /\ Snap("abs", {}).also = {}
      /\ \A v : SnapNotAlert(v).op = "snap" /\ SnapNotAlert(v).v = v /\ SnapNotAlert(v).also = {}
      /\ Snap("eq", {"park", "homing"}).op = "snap" /\ Snap("eq", {"park", "homing"}).v = "eq"
      /\ Snap("eq", {"park", "homing"}).also = {"park", "homing"}
  BY DEF Snap, SnapNotAlert, Instr
<1> HIDE DEF Props, Markers
<1>4. ASSUME NEW k, NEW x, x.op = "snap", NEW m \in Markers, Target(k, m) \subseteq {x.v} \cup x.also
      PROVE  Honest(k, <<x, Active(m)>>)
  <2> DEFINE s == <<x, Active(m)>>
  <2>1. Len(s) = 2 /\ s[1] = x /\ s[2] = Active(m)
    OBVIOUS
  <2> HIDE DEF s
  <2>2. Active(m).op = "active" /\ Active(m).m = m /\ \A j \in 2..Len(s) : j = 2
    BY <2>1, LookFields
  <2>3. Honest(k, s)
    BY <1>1, <1>4, <2>1, <2>2
  <2> QED BY <2>3 DEF s
<1>5. Honest("focuser", FocuserDeviceState)
  BY <1>2, <1>3, <1>4, TargetFacts DEF FocuserDeviceState
<1>6. \A k : Honest(k, DomeShutterStatus) /\ Honest(k, CameraDeviceState)
  BY <1>2, <1>3, <1>4, TargetFacts DEF DomeShutterStatus, CameraDeviceState
<1>7. ASSUME NEW k PROVE Honest(k, TelescopeDeviceState)
  <2> DEFINE x == Snap("eq", {"park", "homing"})
             s == <<x, AxisMoving, Active("slew"), Active("parkOp"), Active("home")>>
  <2>1. x.op = "snap" /\ {x.v} \cup x.also = {"eq", "park", "homing"}
    BY <1>3
  <2> HIDE DEF x
  <2>2. Len(s) = 5 /\ s[1] = x /\ s[2] = AxisMoving /\ s[3] = Active("slew") /\ s[4] = Active("parkOp")
        /\ s[5] = Active("home")
    OBVIOUS
  <2> HIDE DEF s
  <2>3. /\ s[2].op = "axismoving" /\ \A j \in 3..5 : s[j].op = "active"
        /\ s[3].m = "slew" /\ s[4].m = "parkOp" /\ s[5].m = "home"
    BY <1>2, <2>2, LookFields
  <2>4. Target(k, "slew") = {"eq"} /\ Target(k, "parkOp") = {"park"} /\ Target(k, "home") = {"homing"}
    BY TargetFacts
  <2>5. ASSUME NEW j \in 2..Len(s)
        PROVE  /\ s[j].op \in {"active", "axismoving"}
               /\ s[j].op = "active" => /\ s[j].m \in Markers
                                        /\ Target(k, s[j].m) \subseteq {s[1].v} \cup s[1].also
                                        /\ \A i \in 2..(j - 1) : s[i].op = "active" => s[i].m # s[j].m
    <3>1. j = 2 \/ j \in 3..5
      BY <2>2
    <3>2. j = 2 => s[j].op = "axismoving"
      BY <2>3
    <3>3. ASSUME j \in 3..5
          PROVE  /\ s[j].op = "active" /\ s[j].m \in Markers
                 /\ Target(k, s[j].m) \subseteq {s[1].v} \cup s[1].also
                 /\ \A i \in 2..(j - 1) : s[i].op = "active" => s[i].m # s[j].m
      <4>1. s[j].op = "active" /\ s[j].m \in Markers
        BY <1>2, <2>3, <3>3
      <4>2. Target(k, s[j].m) \subseteq {"eq", "park", "homing"}
        BY <2>3, <2>4, <3>3
      <4>3. \A i \in 2..(j - 1) : s[i].op = "active" => s[i].m # s[j].m
        BY <2>3, <3>3
      <4> QED BY <2>1, <2>2, <4>1, <4>2, <4>3
    <3> QED BY <3>1, <3>2, <3>3
  <2>6. Len(s) \in Nat \ {0} /\ s[1].op = "snap"
    BY <2>1, <2>2
  <2>7. Honest(k, s)
    BY <1>1, <2>5, <2>6
  <2> QED BY <2>7 DEF s, x, TelescopeDeviceState
<1> QED BY <1>5, <1>6, <1>7

\* What every request of every driver runs.
LEMMA TableHonest ==
  ASSUME NEW d \in Drivers, NEW r \in d.reqs
  PROVE  Honest(d.kind, Program[d.kind][r])
<1> HIDE DEF Honest
<1>1. /\ \A q \in DOMAIN FocuserRequests : Honest("focuser", FocuserRequests[q])
      /\ \A q \in DOMAIN RotatorRequests : Honest("rotator", RotatorRequests[q])
      /\ \A q \in DOMAIN FilterwheelRequests : Honest("filterwheel", FilterwheelRequests[q])
  BY QuietPrograms, MarkedPolite, RotatorMoveRelativeHonest, PollsHonest, SnapsHonest
     DEF FocuserRequests, RotatorRequests, FilterwheelRequests
<1>2. /\ \A q \in DOMAIN CoverRequests : Honest("cover", CoverRequests[q])
      /\ \A q \in DOMAIN CalibratorRequests : Honest("calibrator", CalibratorRequests[q])
  BY QuietPrograms, MarkedPolite, CalibratorOnHonest, PollsHonest DEF CoverRequests, CalibratorRequests
<1>3. \A q \in DOMAIN DomeRequests : Honest("dome", DomeRequests[q])
  BY QuietPrograms, MarkedPolite, DomeSlewToAzimuthHonest, PollsHonest, SnapsHonest DEF DomeRequests
<1>4. \A q \in DOMAIN CameraRequests : Honest("camera", CameraRequests[q])
  BY QuietPrograms, MarkedPolite, StartExposureHonest, PollsHonest, SnapsHonest
     DEF CameraRequests, CameraPulseGuide, CameraIsPulseGuiding
<1>5. \A q \in DOMAIN TelescopeRequests : Honest("telescope", TelescopeRequests[q])
  BY QuietPrograms, MarkedPolite, SlewAsyncHonest, SlewSyncHonest, SlewAltAzHonest, PollsHonest, SnapsHonest
     DEF TelescopeRequests
<1>6. /\ Program["focuser"] = FocuserRequests /\ Program["rotator"] = RotatorRequests
      /\ Program["filterwheel"] = FilterwheelRequests /\ Program["cover"] = CoverRequests
      /\ Program["calibrator"] = CalibratorRequests /\ Program["dome"] = DomeRequests
      /\ Program["camera"] = CameraRequests /\ Program["telescope"] = TelescopeRequests
      /\ DOMAIN Program = {"focuser", "rotator", "filterwheel", "cover", "calibrator", "dome", "camera",
                           "telescope"}
  BY DEF Program
<1>7. d.kind \in DOMAIN Program /\ r \in DOMAIN Program[d.kind]
  BY MotionAssumption
<1> QED BY <1>1, <1>2, <1>3, <1>4, <1>5, <1>6, <1>7

(***************************************************************************)
(* A poll is told the truth, or was misled in one of the known ways.        *)
(***************************************************************************)
\* Request c has set m and is on its way to the command.
Ahead(c, m) ==
  /\ cl[c].req # None /\ cl[c].err = None
  /\ \E i, j \in 1..Len(Code(c)) : /\ Spans(Code(c), i, j) /\ Code(c)[i].m = m
                                   /\ i < cl[c].pc /\ cl[c].pc <= j
\* Every command of m has been taken up, by a property that m watches, or is over.
Answered(m) == ~Waiting(pend, m) /\ ~Elsewhere(m) /\ \A c \in Clients : ~Ahead(c, m)
\* An update younger than m has been published, or m is cleared.
Seen(m) == \/ m \notin active \cup withdrawn
           \/ \E v \in Props : <<m, v>> \in acked
           \/ \E d \in Clients : m \in cl[d].fresh
Settled == \A m \in Polled \ crossed : Seen(m) => Answered(m)

\* Poll c will ask about m.
WillAsk(c, m) == \E j \in cl[c].pc..Len(Code(c)) : Code(c)[j].op = "active" /\ Code(c)[j].m = m
\* What runs on a property that poll c has looked at was taken up later.
Torn(c) == Running(c) =>
  \A m \in Markers : \A w \in drv.props \cap Watch[m] :
    Looked(c, w) /\ WillAsk(c, m) /\ run[w].m = m => m \in cl[c].torn
\* What poll c knows of m from its one snapshot.
Misled(c, m) == m \in crossed \cup withdrawn \cup cl[c].torn
Shown(c) == Running(c) /\ Code(c)[1].op = "snap" /\ cl[c].pc > 1 =>
  \A m \in Markers \ cl[c].skip :
    WillAsk(c, m) => <<c, m>> \in rested \/ Misled(c, m) \/ (m \in active /\ m \notin cl[c].fresh)
\* A command of m has been outstanding at every moment of a poll that never rested.
Rested(c) == cl[c].req # None => \A m \in Asks(c) : <<c, m>> \in rested \/ Outstanding(m)
\* The driver runs the commands of m on the target of m.
OnTarget(v, cmd) == cmd.m # None /\ v \in Watch[cmd.m] => v \in Target(drv.kind, cmd.m)
Targeted == \A v \in drv.props : OnTarget(v, run[v]) /\ \A i \in 1..Len(pend[v]) : OnTarget(v, pend[v][i])
StopInv == Targeted /\ Settled /\ \A c \in Clients : Torn(c) /\ Shown(c) /\ Rested(c)

LEMMA CodeHonest ==
  ASSUME DriverTyped, RequestsTyped, NEW c \in Clients, cl[c].req # None
  PROVE  Honest(drv.kind, Code(c))
BY TableHonest DEF DriverTyped, RequestsTyped, Code

LEMMA PolledMarkers ==
  ASSUME DriverTyped PROVE Polled \subseteq Markers
<1> SUFFICES ASSUME NEW m \in Polled PROVE m \in Markers
  OBVIOUS
<1>1. drv \in Drivers /\ drv.kind \in DOMAIN Program /\ drv.reqs \subseteq DOMAIN Program[drv.kind]
  BY MotionAssumption DEF DriverTyped
<1>2. PICK r \in drv.reqs : m \in Polls[drv.kind][r]
  BY DEF Polled
<1> DEFINE s == Program[drv.kind][r]
<1>3. m \in {s[i].m : i \in {i \in 1..Len(s) : s[i].op = "active"}}
  BY <1>1, <1>2 DEF Polls
<1>4. Asking(drv.kind, s)
  BY <1>1, <1>2, TableHonest DEF Honest
<1> HIDE DEF s
<1> QED BY <1>3, <1>4 DEF Asking

(***************************************************************************)
(* What a poll remembers of the markers.                                    *)
(***************************************************************************)
\* It finds no update time younger, and keeps what it left out and what is torn.
Carries(y, x) == y.fresh \subseteq x.fresh /\ (y.req # None => y.skip = x.skip /\ x.torn \subseteq y.torn)

LEMMA ThenCarries ==
  ASSUME Typed, NEW c \in Clients, Running(c), NEW n \in Nat, cl[c].pc + n <= Len(Code(c)) + 1
  PROVE  Then(c, n) \in Records /\ Carries(Then(c, n), cl[c])
<1> USE DEF Typed
<1>1. cl[c] \in Records /\ cl[c].req # None
  BY DEF RequestsTyped, Running
<1>2. Then(c, n) \in Records /\ (Then(c, n) = Idle \/ \E q \in Nat : Then(c, n) = [cl[c] EXCEPT !.pc = q])
  BY <1>1, ThenCases, ThenFields
<1>3. Idle.fresh = {} /\ Idle.req = None
  BY DEF Idle
<1>4. ASSUME NEW q \in Nat, Then(c, n) = [cl[c] EXCEPT !.pc = q] PROVE Carries(Then(c, n), cl[c])
  BY <1>1, <1>4 DEF Records, Carries
<1> QED BY <1>2, <1>3, <1>4 DEF Carries

LEMMA ThenKeeps ==
  ASSUME Typed, NEW c \in Clients, Running(c)
  PROVE  /\ Then(c, 1) \in Records /\ Carries(Then(c, 1), cl[c])
         /\ Then(c, 1 + Top(c).n) \in Records /\ Carries(Then(c, 1 + Top(c).n), cl[c])
<1>1. cl[c].req # None
  BY DEF Running
<1>2. /\ 1 + Top(c).n \in Nat /\ cl[c].pc + (1 + Top(c).n) <= Len(Code(c)) + 1
      /\ cl[c].pc + 1 <= Len(Code(c)) + 1
  BY <1>1, CodeSound DEF Typed
<1> HIDE DEF Top
<1> QED BY <1>2, ThenCarries

\* Only the fields that steer a request or wait for an update change.
LEMMA UpdateCarries ==
  ASSUME NEW x \in Records, NEW F \in SUBSET x.fresh, NEW T, NEW G, NEW e
  PROVE  /\ Carries([x EXCEPT !.fresh = F], x) /\ Carries([x EXCEPT !.loose = G], x)
         /\ x.torn \subseteq T => /\ Carries([x EXCEPT !.torn = T], x)
                                  /\ Carries([x EXCEPT !.since = G, !.torn = T], x)
         /\ Carries([x EXCEPT !.err = e], x) /\ Carries(x, x)
BY DEF Carries, Records

LEMMA LoosenCarries ==
  ASSUME NEW x \in Records, NEW vs PROVE Carries(Loosen(x, vs), x)
<1> DEFINE L == x.loose \cup (vs \cap {"mode", "points", "park"})
<1>1. Loosen(x, vs) = x \/ Loosen(x, vs) = [x EXCEPT !.loose = L]
  BY DEF Loosen
<1> HIDE DEF L
<1> QED BY <1>1, UpdateCarries

LEMMA CarriesOn ==
  ASSUME NEW x, NEW y, NEW z, Carries(y, x), Carries(z, y), z.req # None => y.req # None
  PROVE  Carries(z, x)
BY DEF Carries

\* TakeSnapshot, when it goes on.
Snapped(c) ==
  LET read == {Top(c).v} \cup Top(c).also IN
  /\ \A v \in read : State(v) # "Busy"
  /\ cl'[c].fresh = {m \in Asks(c) : \E v \in read : <<m, v>> \in acked}
  /\ cl'[c].skip = {m \in Asks(c) : \A v \in read \cap Watch[m] : State(v) = None}
  /\ cl'[c].torn = cl[c].torn

\* What a step does to the memory of its own request.
Memory(c) ==
  \/ Carries(cl'[c], cl[c])
  \/ At(c, "since") /\ cl'[c].fresh \subseteq cl[c].fresh
  \/ /\ At(c, "updated") /\ cl'[c].fresh \subseteq cl[c].fresh \cup After(Top(c).v)
     /\ cl'[c].req # None => cl'[c].skip = cl[c].skip /\ cl[c].torn \subseteq cl'[c].torn
  \/ At(c, "snap") /\ Snapped(c)

LEMMA EndsCarry ==
  ASSUME Typed, NEW c \in Clients, Ends(c) PROVE Carries(cl'[c], cl[c])
BY DEF Ends, Idle, Carries, Typed, RequestsTyped

LEMMA GoesCarry ==
  ASSUME Typed, NEW c \in Clients, Running(c), Goes(c, 1) \/ Goes(c, 1 + Top(c).n)
  PROVE  Carries(cl'[c], cl[c])
<1> DEFINE y == Then(c, 1)
           z == Then(c, 1 + Top(c).n)
<1>1. Carries(y, cl[c]) /\ Carries(z, cl[c])
  BY ThenKeeps
<1>2. cl'[c] = y \/ cl'[c] = z
  BY DEF Goes, Typed, RequestsTyped
<1> HIDE DEF y, z
<1> QED BY <1>1, <1>2

LEMMA FailsCarry ==
  ASSUME Typed, NEW c \in Clients, Fails(c) PROVE Carries(cl'[c], cl[c])
<1>1. CASE Ends(c)
  BY <1>1, EndsCarry
<1>2. CASE cl' = [cl EXCEPT ![c].err = Top(c).m]
  <2>1. cl[c] \in Records /\ cl'[c] = [cl[c] EXCEPT !.err = Top(c).m]
    BY <1>2 DEF Typed, RequestsTyped
  <2> QED BY <2>1, UpdateCarries
<1> QED BY <1>1, <1>2 DEF Fails

LEMMA LookMemory ==
  ASSUME Typed, NEW c \in Clients, Look(c) PROVE Memory(c)
<1>1. Running(c) /\ \A d \in Clients : cl[d] \in Records
  BY DEF Look, Typed, RequestsTyped
<1>2. CASE Goes(c, 1) \/ Goes(c, 1 + Top(c).n) \/ Ends(c)
  BY <1>1, <1>2, GoesCarry, EndsCarry DEF Memory
<1>3. CASE cl' = [cl EXCEPT ![c] = Loosen(Then(c, 1 + Top(c).n), {Top(c).v})]
  <2> DEFINE z == Then(c, 1 + Top(c).n)
  <2>1. z \in Records /\ Carries(z, cl[c])
    BY <1>1, ThenKeeps
  <2>2. cl'[c] = Loosen(z, {Top(c).v})
    BY <1>3 DEF Typed, RequestsTyped
  <2> HIDE DEF z
  <2>3. Carries(cl'[c], z) /\ cl'[c].req = z.req
    BY <2>1, <2>2, LoosenCarries, LoosenUpdate
  <2> QED BY <2>1, <2>3, CarriesOn DEF Memory
<1>4. CASE At(c, "since") /\ cl' = [cl EXCEPT ![c] = [Then(c, 1) EXCEPT !.since = {}, !.torn = {}]]
  <2> DEFINE z == Then(c, 1)
  <2>1. z \in Records /\ Carries(z, cl[c])
    BY <1>1, ThenKeeps
  <2>2. cl'[c] = [z EXCEPT !.since = {}, !.torn = {}]
    BY <1>4 DEF Typed, RequestsTyped
  <2> HIDE DEF z
  <2>3. cl'[c].fresh = z.fresh
    BY <2>1, <2>2 DEF Records
  <2> QED BY <1>4, <2>1, <2>3 DEF Memory, Carries
<1> QED BY <1>2, <1>3, <1>4 DEF Look

LEMMA PollMemory ==
  ASSUME Typed, NEW c \in Clients, Poll(c) PROVE Memory(c)
<1>1. Running(c)
  BY DEF Poll, At
<1>2. CASE Goes(c, 1) \/ Goes(c, 1 + Top(c).n) \/ Ends(c)
  BY <1>1, <1>2, GoesCarry, EndsCarry DEF Memory
<1>3. CASE /\ At(c, "updated")
           /\ cl' = [cl EXCEPT ![c] = [Then(c, 1) EXCEPT !.fresh = @ \cup After(Top(c).v)]]
  <2> DEFINE z == Then(c, 1)
  <2>1. z \in Records /\ Carries(z, cl[c])
    BY <1>1, ThenKeeps
  <2>2. cl'[c] = [z EXCEPT !.fresh = z.fresh \cup After(Top(c).v)]
    BY <1>3 DEF Typed, RequestsTyped
  <2> HIDE DEF z
  <2>3. cl'[c].fresh = z.fresh \cup After(Top(c).v) /\ cl'[c].req = z.req /\ cl'[c].skip = z.skip /\ cl'[c].torn = z.torn
    BY <2>1, <2>2 DEF Records
  <2> QED BY <1>3, <2>1, <2>3 DEF Memory, Carries
<1> QED BY <1>2, <1>3 DEF Poll

\* A snapshot that does not end its poll.
LEMMA SnapGoes ==
  ASSUME Typed, NEW c \in Clients, TakeSnapshot(c), ~Ends(c) PROVE Top(c).op = "snap" /\ Snapped(c)
<1> DEFINE read == {Top(c).v} \cup Top(c).also
           F == {m \in Asks(c) : \E v \in read : <<m, v>> \in acked}
           S == {m \in Asks(c) : \A v \in read \cap Watch[m] : State(v) = None}
<1>1. At(c, "snap") /\ cl[c] \in Records /\ DOMAIN cl = Clients
  BY DEF TakeSnapshot, Typed, RequestsTyped
<1>2. /\ \A v \in read : State(v) # "Busy"
      /\ cl' = [cl EXCEPT ![c].pc = @ + 1, ![c].fresh = F, ![c].skip = S]
  BY DEF TakeSnapshot
<1>3. cl'[c] = [cl[c] EXCEPT !.pc = cl[c].pc + 1, !.fresh = F, !.skip = S]
  BY <1>1, <1>2
<1> HIDE DEF F, S
<1>4. cl'[c].fresh = F /\ cl'[c].skip = S /\ cl'[c].torn = cl[c].torn
  BY <1>1, <1>3 DEF Records
<1> QED BY <1>1, <1>2, <1>4 DEF Snapped, F, S, At

LEMMA SnapMemory ==
  ASSUME Typed, NEW c \in Clients, TakeSnapshot(c) PROVE Memory(c)
<1>1. CASE Ends(c)
  BY <1>1, EndsCarry DEF Memory
<1>2. CASE ~Ends(c)
  BY <1>2, SnapGoes DEF Memory, TakeSnapshot
<1> QED BY <1>1, <1>2

\* The instructions that also change the markers.
LEMMA MarkerMemory ==
  ASSUME Typed, NEW c \in Clients, cl[c].req # None, StartMarker(c) \/ ClearMarker(c) \/ ActiveMarker(c)
  PROVE  Carries(cl'[c], cl[c])
<1> DEFINE y == Then(c, 1)
<1>1. Running(c) => y \in Records /\ Carries(y, cl[c])
  BY ThenKeeps
<1>2. ASSUME Running(c), NEW m, cl'[c] = [y EXCEPT !.fresh = y.fresh \ {m}] PROVE Carries(cl'[c], cl[c])
  <2> HIDE DEF y
  <2>1. y \in Records /\ y.fresh \ {m} \in SUBSET y.fresh
    BY <1>1, <1>2
  <2>2. Carries(cl'[c], y)
    BY <1>2, <2>1, UpdateCarries
  <2>3. cl'[c].req = y.req
    BY <1>2, <2>1 DEF Records
  <2> QED BY <1>1, <1>2, <2>2, <2>3, CarriesOn
<1>3. CASE StartMarker(c)
  <2>1. Running(c) /\ \E m : cl'[c] = [y EXCEPT !.fresh = y.fresh \ {m}]
    BY <1>3 DEF StartMarker, At
  <2> QED BY <1>2, <2>1
<1>4. CASE ClearMarker(c)
  <2>1. Ends(c) \/ (Running(c) /\ Goes(c, 1))
    BY <1>4 DEF ClearMarker, At
  <2> QED BY <2>1, EndsCarry, GoesCarry
<1>5. CASE ActiveMarker(c)
  <2>1. Running(c) /\ (Ends(c) \/ \E m : cl'[c] = [y EXCEPT !.fresh = y.fresh \ {m}])
    BY <1>5 DEF ActiveMarker, At
  <2> QED BY <1>2, <2>1, EndsCarry
<1> QED BY <1>3, <1>4, <1>5

LEMMA OwnMemory ==
  ASSUME Typed, NEW c \in Clients, cl[c].req # None, Step(c) PROVE Memory(c)
<1>1. CASE Look(c) \/ Poll(c) \/ TakeSnapshot(c)
  BY <1>1, LookMemory, PollMemory, SnapMemory
<1>2. CASE StartMarker(c) \/ ClearMarker(c) \/ ActiveMarker(c)
  BY <1>2, MarkerMemory DEF Memory
<1>3. CASE SetAxis(c) \/ SendFails(c) \/ SentToDead(c) \/ WaitSettle(c) \/ WaitEcho(c) \/ WaitSync(c)
  <2>1. Running(c) /\ (Goes(c, 1) \/ Ends(c) \/ Fails(c))
    BY <1>3 DEF SetAxis, SendFails, SentToDead, WaitSettle, WaitEcho, WaitSync, At
  <2> QED BY <2>1, GoesCarry, EndsCarry, FailsCarry DEF Memory
<1>4. CASE Sent(c)
  <2> DEFINE y == Then(c, 1)
  <2>1. Running(c) /\ (cl'[c] = y \/ cl'[c] = [y EXCEPT !.loose = y.loose \ {Top(c).v}])
    BY <1>4 DEF Sent, At
  <2>2. y \in Records /\ Carries(y, cl[c])
    BY <2>1, ThenKeeps
  <2> HIDE DEF y
  <2>3. Carries(cl'[c], y)
    <3>1. CASE cl'[c] = y BY <2>2, <3>1, UpdateCarries
    <3>2. CASE cl'[c] = [y EXCEPT !.loose = y.loose \ {Top(c).v}] BY <2>2, <3>2, UpdateCarries
    <3> QED BY <2>1, <3>1, <3>2
  <2>4. cl'[c].req = y.req
    BY <2>1, <2>2 DEF Records
  <2> QED BY <2>2, <2>3, <2>4, CarriesOn DEF Memory
<1> QED BY <1>1, <1>2, <1>3, <1>4 DEF Step

\* The memory of the other requests.
LEMMA OthersCarry ==
  ASSUME Typed, NEW c \in Clients, cl[c].req # None, Step(c), NEW d \in Clients \ {c}
  PROVE  Carries(cl'[d], cl[d])
<1>1. cl[d] \in Records /\ DOMAIN cl = Clients
  BY DEF Typed, RequestsTyped
<1>2. CASE StartMarker(c)
  <2>1. \E m : cl'[d] = [cl[d] EXCEPT !.fresh = cl[d].fresh \ {m}]
    BY <1>2 DEF StartMarker
  <2> QED BY <1>1, <2>1, UpdateCarries
<1>3. CASE Sent(c)
  <2>1. cl'[d] = Loosen(cl[d], {Top(c).v})
    BY <1>3 DEF Sent
  <2> QED BY <1>1, <2>1, LoosenCarries
<1>4. CASE ActiveMarker(c)
  <2>1. cl'[d] = cl[d] \/ \E m : cl'[d] = [cl[d] EXCEPT !.torn = cl[d].torn \cup {m}]
    BY <1>1, <1>4 DEF ActiveMarker, Ends
  <2> QED BY <1>1, <2>1, UpdateCarries
<1>5. CASE \E y : cl' = [cl EXCEPT ![c] = y]
  <2>1. cl'[d] = cl[d]
    BY <1>1, <1>5
  <2> QED BY <1>1, <2>1, UpdateCarries
<1>6. CASE Look(c) \/ Poll(c)
  BY <1>5, <1>6 DEF Look, Poll, Goes, Ends
<1>7. CASE ClearMarker(c) \/ SetAxis(c) \/ SentToDead(c) \/ WaitEcho(c) \/ WaitSync(c)
  BY <1>5, <1>7 DEF ClearMarker, SetAxis, SentToDead, WaitEcho, WaitSync, Goes, Ends
<1>8. CASE SendFails(c) \/ WaitSettle(c)
  <2>1. Goes(c, 1) \/ Fails(c)
    BY <1>8 DEF SendFails, WaitSettle
  <2>2. Fails(c) => Ends(c) \/ cl' = [cl EXCEPT ![c] = [cl[c] EXCEPT !.err = Top(c).m]]
    BY <1>1 DEF Fails
  <2> QED BY <1>5, <2>1, <2>2 DEF Goes, Ends
<1>9. CASE TakeSnapshot(c)
  <2>1. cl'[d] = cl[d]
    BY <1>1, <1>9 DEF TakeSnapshot, Ends
  <2> QED BY <1>1, <2>1, UpdateCarries
<1> QED BY <1>2, <1>3, <1>4, <1>6, <1>7, <1>8, <1>9 DEF Step

\* A marker that starts is younger than every update time read so far.
LEMMA StartForgets ==
  ASSUME NEW c \in Clients, StartMarker(c), NEW d \in Clients PROVE Top(c).m \notin cl'[d].fresh
<1> DEFINE m == Top(c).m
           x == IF d = c THEN Then(c, 1) ELSE cl[d]
<1>1. cl'[d] = [x EXCEPT !.fresh = x.fresh \ {m}]
  BY DEF StartMarker
<1> QED BY <1>1

\* A poll that drops the marker tears the others that will ask about it.
LEMMA ActiveTears ==
  ASSUME Typed, NEW c \in Clients, ActiveMarker(c), Top(c).m \in active, active' # active,
         NEW d \in Clients \ {c}, HasTime(d, Top(c).m)
  PROVE  Top(c).m \in cl'[d].torn
<1>1. cl[d] \in Records
  BY DEF Typed, RequestsTyped
<1>2. cl'[d] = [cl[d] EXCEPT !.torn = cl[d].torn \cup {Top(c).m}]
  BY DEF ActiveMarker
<1> HIDE DEF Top
<1> QED BY <1>1, <1>2 DEF Records

\* A publication tears the polls that have looked too early.
LEMMA PublishCarries ==
  ASSUME Typed, NEW v \in drv.props, NEW state, Publish(v, state), NEW c \in Clients
  PROVE  /\ Carries(cl'[c], cl[c])
         /\ state = "Busy" /\ Looked(c, v) => MarkersOf[v] \subseteq cl'[c].torn
<1> DEFINE G == IF Waits(c, v) THEN cl[c].since \cup {v} ELSE cl[c].since
           F == IF \/ state = "Busy" /\ Looked(c, v)
                   \/ Waits(c, v) /\ Early(c, v)
                THEN cl[c].torn \cup MarkersOf[v] ELSE cl[c].torn
<1>1. cl'[c] = [cl[c] EXCEPT !.since = G, !.torn = F]
  BY DEF Publish
<1>2. cl[c] \in Records
  BY DEF Typed, RequestsTyped
<1>3. cl[c].torn \subseteq F /\ (state = "Busy" /\ Looked(c, v) => MarkersOf[v] \subseteq F)
  OBVIOUS
<1> HIDE DEF F, G
<1>4. cl'[c].torn = F /\ Carries(cl'[c], cl[c])
  BY <1>1, <1>2, <1>3 DEF Records, Carries
<1> QED BY <1>3, <1>4

(***************************************************************************)
(* What a step does to the commands and to a marker.                        *)
(***************************************************************************)
\* Request c writes cmd to v.
Issues(c, v, cmd) == cl[c].req # None /\ Sent(c) /\ Top(c).v = v /\ cmd = [m |-> Top(c).m, a |-> Top(c).a]

\* A pending command was pending or is new; a running one was running or pending.
LEMMA CommandsFrom ==
  ASSUME Typed, Next, NEW v \in drv.props
  PROVE  /\ \A i \in 1..Len(pend'[v]) : \/ \E j \in 1..Len(pend[v]) : pend'[v][i] = pend[v][j]
                                        \/ \E c \in Clients : Issues(c, v, pend'[v][i])
         /\ \/ run'[v] = NoCommand
            \/ run'[v] = run[v]
            \/ Accept(v) /\ \E j \in 1..Len(pend[v]) : run'[v] = pend[v][j]
<1> USE DEF Typed
<1>1. /\ pend[v] \in Seq(Cmds) /\ DOMAIN pend = drv.props /\ DOMAIN run = drv.props
      /\ pend[v] # << >> =>
           /\ Head(pend[v]) = pend[v][1] /\ 1 \in 1..Len(pend[v])
           /\ \A i \in 1..Len(Tail(pend[v])) :
                i + 1 \in 1..Len(pend[v]) /\ Tail(pend[v])[i] = pend[v][i + 1]
  BY DEF DriverTyped
<1> DEFINE Old(q) == \A i \in 1..Len(q) : \E j \in 1..Len(pend[v]) : q[i] = pend[v][j]
<1>2. Old(pend[v]) /\ Old(<< >>) /\ (pend[v] # << >> => Old(Tail(pend[v])))
  BY <1>1
<1>3. ASSUME NEW u \in drv.props, Accept(u)
      PROVE  /\ Old(pend'[v])
             /\ run'[v] = run[v] \/ (u = v /\ \E j \in 1..Len(pend[v]) : run'[v] = pend[v][j])
  <2>1. /\ pend[u] # << >> /\ pend' = [pend EXCEPT ![u] = Tail(pend[u])]
        /\ run' = [run EXCEPT ![u] = Head(pend[u])]
    BY <1>3 DEF Accept
  <2> HIDE DEF Old
  <2>2. CASE u = v
    <3>1. pend'[v] = Tail(pend[v]) /\ run'[v] = Head(pend[v])
      BY <1>1, <2>1, <2>2
    <3> QED BY <1>1, <1>2, <2>1, <2>2, <3>1
  <2>3. CASE u # v
    BY <1>1, <1>2, <2>1, <2>3
  <2> QED BY <2>2, <2>3
<1>4. ASSUME NEW u \in drv.props, Finish(u)
      PROVE  Old(pend'[v]) /\ (run'[v] = run[v] \/ run'[v] = NoCommand)
  <2>1. /\ pend' = pend \/ (pend[u] # << >> /\ pend' = [pend EXCEPT ![u] = Tail(pend[u])])
        /\ run' = [run EXCEPT ![u] = NoCommand]
    BY <1>4 DEF Finish
  <2> HIDE DEF Old
  <2>2. pend'[v] = pend[v] \/ (pend[v] # << >> /\ pend'[v] = Tail(pend[v]))
    BY <1>1, <2>1
  <2> QED BY <1>1, <1>2, <2>1, <2>2
<1>5. CASE Lose
  <2>1. pend'[v] = << >> /\ run'[v] = NoCommand
    BY <1>5 DEF Lose
  <2> QED BY <2>1
<1>6. CASE pend' = pend /\ run' = run
  BY <1>2, <1>6
<1>7. ASSUME NEW c \in Clients, cl[c].req # None, Sent(c)
      PROVE  /\ run'[v] = run[v]
             /\ \A i \in 1..Len(pend'[v]) : \/ \E j \in 1..Len(pend[v]) : pend'[v][i] = pend[v][j]
                                            \/ Issues(c, v, pend'[v][i])
  <2> DEFINE u == Top(c).v
             cmd == [m |-> Top(c).m, a |-> Top(c).a]
  <2>1. run' = run /\ (pend' = pend \/ pend' = [pend EXCEPT ![u] = Append(pend[u], cmd)])
    BY <1>7 DEF Sent
  <2>2. cmd \in Cmds
    BY <1>7, SentCommand
  <2>3. Issues(c, u, cmd)
    BY <1>7 DEF Issues
  <2> HIDE DEF u, cmd
  <2>4. CASE pend'[v] = pend[v]
    BY <2>1, <2>4
  <2>5. CASE u = v /\ pend'[v] = Append(pend[v], cmd)
    <3>1. \A i \in 1..Len(Append(pend[v], cmd)) :
            Append(pend[v], cmd)[i] = cmd \/ (i \in 1..Len(pend[v]) /\ Append(pend[v], cmd)[i] = pend[v][i])
      BY <1>1, <2>2
    <3> QED BY <2>1, <2>3, <2>5, <3>1
  <2> QED BY <1>1, <2>1, <2>4, <2>5
<1>8. ASSUME \/ \E u \in drv.props : Define(u) \/ Report(u)
             \/ GoDown \/ Serve
             \/ \E c \in Clients : Begin(c) \/ (cl[c].req # None /\ Step(c) /\ ~Sent(c))
      PROVE  pend' = pend /\ run' = run
  BY <1>8, StepEffects DEF Define, Report, GoDown, Serve, Begin, driverVars
<1> HIDE DEF Old
<1>9. Old(pend'[v]) =>
        \A i \in 1..Len(pend'[v]) : \E j \in 1..Len(pend[v]) : pend'[v][i] = pend[v][j]
  BY DEF Old
<1>10. CASE \E u \in drv.props : Accept(u) \/ Finish(u)
  BY <1>3, <1>4, <1>9, <1>10
<1>11. CASE Lose \/ (pend' = pend /\ run' = run)
  BY <1>5, <1>6, <1>9, <1>11
<1>12. CASE \E c \in Clients : cl[c].req # None /\ Sent(c)
  BY <1>7, <1>12
<1> QED BY <1>8, <1>10, <1>11, <1>12 DEF Next, Driver, Request

\* What a step of a request does to a marker that it does not set.
LEMMA MarkerEffects ==
  ASSUME Typed, NEW c \in Clients, cl[c].req # None, Step(c), NEW m \in Polled,
         ~(StartMarker(c) /\ Top(c).m = m)
  PROVE  /\ m \in crossed' <=> m \in crossed
         /\ m \in withdrawn => m \in withdrawn'
         /\ m \in active' => m \in active
         /\ m \in active => \/ m \in active' \cup withdrawn'
                            \/ ActiveMarker(c) /\ Top(c).m = m
         /\ \A v : <<m, v>> \in acked' => <<m, v>> \in acked
<1> USE DEF driverVars, markerVars
<1>1. CASE StartMarker(c) BY <1>1 DEF StartMarker
<1>2. CASE ClearMarker(c) BY <1>2 DEF ClearMarker
<1>3. CASE ActiveMarker(c) BY <1>3 DEF ActiveMarker
<1>4. CASE Look(c) BY <1>4 DEF Look
<1>5. CASE SetAxis(c) BY <1>5 DEF SetAxis
<1>6. CASE Sent(c) BY <1>6 DEF Sent
<1>7. CASE SendFails(c) BY <1>7 DEF SendFails
<1>8. CASE SentToDead(c) BY <1>8 DEF SentToDead
<1>9. CASE WaitSettle(c) BY <1>9 DEF WaitSettle
<1>10. CASE WaitEcho(c) BY <1>10 DEF WaitEcho
<1>11. CASE WaitSync(c) BY <1>11 DEF WaitSync
<1>12. CASE Poll(c) BY <1>12 DEF Poll
<1>13. CASE TakeSnapshot(c) BY <1>13 DEF TakeSnapshot
<1> QED BY <1>1, <1>2, <1>3, <1>4, <1>5, <1>6, <1>7, <1>8, <1>9, <1>10, <1>11, <1>12, <1>13 DEF Step

\* What a poll asks about, as an instruction ahead of it.
LEMMA AskedBy ==
  ASSUME Typed, NEW c \in Clients, cl[c].req # None
  PROVE  /\ Asks(c) = {Code(c)[i].m : i \in {i \in 1..Len(Code(c)) : Code(c)[i].op = "active"}}
         /\ Asks(c) \subseteq Polled
         /\ \A m : WillAsk(c, m) => m \in Asks(c)
<1> USE DEF Typed
<1>1. drv.kind \in DOMAIN Program /\ cl[c].req \in DOMAIN Program[drv.kind] /\ cl[c].req \in drv.reqs
  BY MotionAssumption DEF DriverTyped, RequestsTyped
<1>2. Asks(c) = {Code(c)[i].m : i \in {i \in 1..Len(Code(c)) : Code(c)[i].op = "active"}}
  BY <1>1 DEF Asks, Polls, Code
<1>3. Asks(c) \subseteq Polled
  BY <1>1 DEF Asks, Polled
<1>4. cl[c].pc \in 1..Len(Code(c)) /\ Len(Code(c)) \in Nat
  BY CodeSound
<1>5. \A m : WillAsk(c, m) => m \in Asks(c)
  BY <1>2, <1>4 DEF WillAsk
<1> QED BY <1>2, <1>3, <1>5

\* The history of the polls after a step.
LEMMA RestedStep ==
  ASSUME Typed, Next, NEW c \in Clients
  PROVE  /\ Rested(c)'
         /\ cl[c].req # None /\ cl'[c].req = cl[c].req =>
              \A m \in Asks(c) : <<c, m>> \in rested \/ ~Outstanding(m)' => <<c, m>> \in rested'
<1>1. drv' = drv
  BY DriverKept
<1> DEFINE S(d) == {<<d, m>> : m \in {m \in Polls[drv.kind][cl'[d].req] :
                                         <<d, m>> \in rested \/ ~Outstanding(m)'}}
<1>2. ASSUME cl'[c].req # None, NEW m \in Polls[drv.kind][cl'[c].req], <<c, m>> \in rested \/ ~Outstanding(m)'
      PROVE  <<c, m>> \in rested'
  <2>1. rested' = UNION {S(d) : d \in {d \in Clients : cl'[d].req # None}}
    BY Zenon DEF Next, History
  <2>2. <<c, m>> \in S(c)
    BY <1>2
  <2> HIDE DEF S
  <2>3. S(c) \in {S(d) : d \in {d \in Clients : cl'[d].req # None}}
    BY <1>2
  <2> QED BY <2>1, <2>2, <2>3
<1> HIDE DEF S
<1>3. Asks(c)' = Polls[drv.kind][cl'[c].req]
  BY <1>1 DEF Asks
<1> QED BY <1>2, <1>3 DEF Rested, Asks

(***************************************************************************)
(* Where a request is.                                                      *)
(***************************************************************************)
\* A marker is set by the instruction that sets it.
LEMMA StartOnly ==
  ASSUME NEW c \in Clients, Running(c), Top(c).op = "start", Step(c) PROVE StartMarker(c)
<1>1. cl[c].err = None
  BY DEF Running
<1>2. ~Look(c) BY DEF Look, Looks
<1>3. ~ClearMarker(c) BY <1>1 DEF ClearMarker, At
<1>4. /\ ~SetAxis(c) /\ ~Sent(c) /\ ~SendFails(c) /\ ~SentToDead(c) /\ ~WaitSettle(c)
      /\ ~WaitEcho(c) /\ ~WaitSync(c)
  BY DEF SetAxis, Sent, SendFails, SentToDead, WaitSettle, WaitEcho, WaitSync, At
<1>5. ~Poll(c) /\ ~TakeSnapshot(c) /\ ~ActiveMarker(c)
  BY DEF Poll, TakeSnapshot, ActiveMarker, At
<1> QED BY <1>2, <1>3, <1>4, <1>5 DEF Step

\* A look at a property that lets the poll go on did not see Busy.
LEMMA LookPasses ==
  ASSUME Typed, NEW c \in Clients, Running(c), Top(c).op \in {"busy", "isok", "snap"}, Step(c), cl'[c].req # None
  PROVE  /\ Top(c).op = "snap" => TakeSnapshot(c)
         /\ Top(c).op \in {"busy", "isok"} => ~(Has(Top(c).v) /\ vec[Top(c).v] = "Busy")
<1>1. cl[c].err = None /\ (Ends(c) => cl'[c].req = None)
  BY DEF Running, Ends, Idle, Typed, RequestsTyped
<1>2. ~Look(c) /\ ~StartMarker(c) BY DEF Look, Looks, StartMarker, At
<1>3. ~ClearMarker(c) BY <1>1 DEF ClearMarker, At
<1>4. /\ ~SetAxis(c) /\ ~Sent(c) /\ ~SendFails(c) /\ ~SentToDead(c) /\ ~WaitSettle(c)
      /\ ~WaitEcho(c) /\ ~WaitSync(c)
  BY DEF SetAxis, Sent, SendFails, SentToDead, WaitSettle, WaitEcho, WaitSync, At
<1>5. ~ActiveMarker(c)
  BY DEF ActiveMarker, At
<1>6. Poll(c) \/ TakeSnapshot(c)
  BY <1>2, <1>3, <1>4, <1>5 DEF Step
<1>7. Poll(c) => Top(c).op # "snap"
  BY DEF Poll, At
<1>8. Poll(c) /\ Top(c).op = "busy" => ~(Has(Top(c).v) /\ vec[Top(c).v] = "Busy")
  BY <1>1 DEF Poll, At
<1>9. Poll(c) /\ Top(c).op = "isok" => ~(Has(Top(c).v) /\ vec[Top(c).v] = "Busy")
  BY <1>1 DEF Poll, At
<1>10. TakeSnapshot(c) => Top(c).op = "snap"
  BY DEF TakeSnapshot, At
<1> QED BY <1>6, <1>7, <1>8, <1>9, <1>10

\* Request d stays where it is and its memory only fades.
Bides(d) == /\ cl'[d].req = cl[d].req /\ cl'[d].pc = cl[d].pc /\ cl'[d].err = cl[d].err
            /\ Carries(cl'[d], cl[d])

LEMMA Bide ==
  ASSUME Typed, Next, NEW d \in Clients
  PROVE  Bides(d) \/ Begin(d) \/ (cl[d].req # None /\ Step(d))
<1>0. cl[d] \in Records
  BY DEF Typed, RequestsTyped
<1>1. CASE Driver
  <2>1. AllStay
    BY <1>1, DriverStays
  <2>2. ASSUME NEW v \in drv.props, Define(v) \/ Accept(v) \/ Finish(v) \/ Report(v)
        PROVE  Carries(cl'[d], cl[d])
    <3>1. \E s : Publish(v, s)
      BY <2>2 DEF Define, Accept, Finish, Report
    <3> QED BY <3>1, PublishCarries
  <2>3. ASSUME Lose PROVE Carries(cl'[d], cl[d])
    <3>1. cl'[d] = Loosen(cl[d], drv.props)
      BY <2>3 DEF Lose
    <3> QED BY <1>0, <3>1, LoosenCarries
  <2>4. ASSUME GoDown \/ Serve PROVE Carries(cl'[d], cl[d])
    <3>1. cl'[d] = cl[d]
      BY <2>4 DEF GoDown, Serve
    <3> QED BY <3>1 DEF Carries
  <2> QED BY <1>1, <2>1, <2>2, <2>3, <2>4 DEF Driver, Bides, AllStay
<1>2. ASSUME NEW c \in Clients, Begin(c), c # d PROVE Bides(d)
  <2>1. cl'[d] = cl[d]
    BY <1>2 DEF Begin, Typed, RequestsTyped
  <2> QED BY <2>1 DEF Bides, Carries
<1>3. ASSUME NEW c \in Clients, cl[c].req # None, Step(c), c # d PROVE Bides(d)
  BY <1>3, OthersCarry, StepMoves DEF Bides, Moves, Others
<1> QED BY <1>1, <1>2, <1>3 DEF Next, Request

\* A poll that will still ask about a marker has branched nowhere.
LEMMA GoesStraight ==
  ASSUME Typed, NEW c \in Clients, cl[c].req # None, Step(c), Running(c)', drv' = drv,
         NEW m, WillAsk(c, m)'
  PROVE  /\ Running(c) /\ cl'[c].req = cl[c].req /\ cl'[c].pc > cl[c].pc /\ cl'[c].pc <= Len(Code(c))
         /\ Onward(c, cl[c].pc + 1, cl'[c].pc)
         /\ \E j \in cl'[c].pc..Len(Code(c)) : Code(c)[j].op = "active" /\ Code(c)[j].m = m
         /\ WillAsk(c, m) /\ Top(c).op # "since"
<1> USE DEF Typed
<1>1. Local(c, cl'[c]) /\ cl'[c].req # None /\ cl'[c].err = None
  BY StepMoves DEF Running, Moves
<1>2. /\ cl'[c].req = cl[c].req /\ cl'[c].pc \in 1..Len(Code(c)) /\ cl'[c].pc > cl[c].pc
      /\ cl[c].err = None /\ Advance(c, cl'[c])
  BY <1>1, LocalPc
<1>3. Code(c)' = Code(c)
  BY <1>2, SameCode
<1>4. /\ cl[c].pc \in 1..Len(Code(c)) /\ Len(Code(c)) \in Nat /\ Straight(Code(c)) /\ Top(c) = Code(c)[cl[c].pc]
      /\ Top(c).n \in Nat
  BY CodeSound, CodeHonest DEF Honest, Top
<1>5. PICK j \in cl'[c].pc..Len(Code(c)) : Code(c)[j].op = "active" /\ Code(c)[j].m = m
  BY <1>3 DEF WillAsk
<1>6. j \in 1..Len(Code(c)) /\ j \in cl[c].pc..Len(Code(c))
  BY <1>2, <1>4, <1>5
<1>7. /\ Top(c).op # "since"
      /\ Top(c).op \in {"if", "ifnot", "gate"} => j <= cl[c].pc + Top(c).n
  BY <1>4, <1>5, <1>6 DEF Straight
<1>8. Onward(c, cl[c].pc + 1, cl'[c].pc)
  <2>1. CASE Onward(c, cl[c].pc + 1, cl'[c].pc)
    BY <2>1
  <2>2. CASE Onward(c, cl[c].pc + 1 + Top(c).n, cl'[c].pc) /\ Top(c).op \in {"if", "ifnot", "gate"}
    <3>1. cl[c].pc + 1 + Top(c).n <= cl'[c].pc
      BY <1>2, <1>4, <2>2 DEF Onward
    <3>2. j <= cl[c].pc + Top(c).n /\ cl'[c].pc <= j
      BY <1>5, <1>7, <2>2
    <3>3. j \in Int /\ cl'[c].pc \in Int /\ cl[c].pc \in Int /\ Top(c).n \in Int
      BY <1>2, <1>4, <1>6
    <3>4. FALSE
      <4>1. cl[c].pc + 1 + Top(c).n <= j
        BY <3>1, <3>2, <3>3
      <4>2. j <= cl[c].pc + Top(c).n
        BY <3>2
      <4> QED BY <3>3, <4>1, <4>2
    <3> QED BY <3>4
  <2> QED BY <1>2, <2>1, <2>2 DEF Advance
<1> QED BY <1>1, <1>2, <1>4, <1>5, <1>6, <1>7, <1>8 DEF WillAsk, Running

\* A request on its way to a command of m has just set m or was on its way before.
LEMMA AheadFrom ==
  ASSUME Typed, NEW c \in Clients, cl[c].req # None, Step(c), drv' = drv, NEW m, Ahead(c, m)'
  PROVE  Ahead(c, m) \/ (StartMarker(c) /\ Top(c).m = m)
<1> USE DEF Typed
<1>1. Local(c, cl'[c]) /\ cl'[c].req # None /\ cl'[c].err = None
  BY StepMoves DEF Ahead, Moves
<1>2. /\ cl'[c].req = cl[c].req /\ cl'[c].pc \in 1..Len(Code(c)) /\ cl'[c].pc > cl[c].pc
      /\ cl[c].err = None /\ Advance(c, cl'[c])
  BY <1>1, LocalPc
<1>3. Code(c)' = Code(c)
  BY <1>2, SameCode
<1>4. /\ cl[c].pc \in 1..Len(Code(c)) /\ Len(Code(c)) \in Nat /\ Closed(Code(c)) /\ Top(c) = Code(c)[cl[c].pc]
      /\ Top(c).n \in Nat
  BY CodeSound, CodeHonest DEF Honest, Top
<1>5. PICK i \in 1..Len(Code(c)), j \in 1..Len(Code(c)) :
        Spans(Code(c), i, j) /\ Code(c)[i].m = m /\ i < cl'[c].pc /\ cl'[c].pc <= j
  BY <1>3 DEF Ahead
<1>6. CASE i < cl[c].pc
  BY <1>2, <1>4, <1>5, <1>6 DEF Ahead
<1>7. CASE i = cl[c].pc
  <2>1. Running(c) /\ Top(c).op = "start" /\ Top(c).m = m
    BY <1>2, <1>4, <1>5, <1>7 DEF Spans, Running
  <2> QED BY <2>1, StartOnly
<1>8. CASE i > cl[c].pc
  <2>1. ~Blank(Code(c)[i])
    BY <1>5 DEF Spans, Blank
  <2>2. ~Onward(c, cl[c].pc + 1, cl'[c].pc)
    BY <1>2, <1>4, <1>5, <1>8, <2>1 DEF Onward
  <2>3. Onward(c, cl[c].pc + 1 + Top(c).n, cl'[c].pc)
    BY <1>2, <2>2 DEF Advance
  <2>4. cl[c].pc \in 1..(i - 1)
    BY <1>4, <1>8
  <2>5. cl[c].pc + Top(c).n < i \/ j <= cl[c].pc + Top(c).n
    BY <1>4, <1>5, <2>4 DEF Closed
  <2>6. cl[c].pc + 1 + Top(c).n <= cl'[c].pc
    BY <1>2, <1>4, <2>3 DEF Onward
  <2>7. CASE j <= cl[c].pc + Top(c).n
    BY <1>2, <1>4, <1>5, <2>6, <2>7
  <2>8. CASE cl[c].pc + Top(c).n < i
    <3>1. i \in (cl[c].pc + 1 + Top(c).n)..(cl'[c].pc - 1)
      <4>1. /\ i \in Int /\ cl'[c].pc \in Int /\ cl[c].pc \in Int /\ Top(c).n \in Int
            /\ i < cl'[c].pc
        BY <1>2, <1>4, <1>5
      <4>2. cl[c].pc + 1 + Top(c).n <= i
        BY <2>8, <4>1
      <4>3. i <= cl'[c].pc - 1
        BY <4>1
      <4> QED BY <4>1, <4>2, <4>3
    <3> QED BY <2>1, <2>3, <3>1 DEF Onward
  <2> QED BY <2>5, <2>7, <2>8
<1> QED BY <1>4, <1>6, <1>7, <1>8

LEMMA AheadStays ==
  ASSUME NEW d \in Clients, drv' = drv, cl'[d].req = cl[d].req, cl'[d].pc = cl[d].pc, cl'[d].err = cl[d].err
  PROVE  /\ \A m : Ahead(d, m)' => Ahead(d, m)
         /\ \A m : WillAsk(d, m)' => WillAsk(d, m)
         /\ \A w : Looked(d, w)' => Looked(d, w)
<1>1. Code(d)' = Code(d)
  BY SameCode
<1> QED BY <1>1 DEF Ahead, WillAsk, Looked

\* What is sent with a marker was announced by it.
LEMMA SentAhead ==
  ASSUME Typed, NEW c \in Clients, cl[c].req # None, Sent(c), Top(c).m # None
  PROVE  Ahead(c, Top(c).m) /\ (Top(c).v \in Watch[Top(c).m] => Top(c).v \in Target(drv.kind, Top(c).m))
<1>1. Marked(drv.kind, Code(c)) /\ cl[c].pc \in 1..Len(Code(c)) /\ Top(c) = Code(c)[cl[c].pc]
  BY CodeHonest, CodeSound DEF Typed, Honest, Top
<1>2. cl[c].err = None /\ Top(c).op \in Commanding
  BY DEF Sent, At, Running, Commanding
<1> QED BY <1>1, <1>2 DEF Marked, Ahead

LEMMA TargetedStep ==
  ASSUME Typed, Targeted, Next PROVE Targeted'
<1> USE DEF Typed
<1>1. drv' = drv /\ \A v : OnTarget(v, NoCommand)
  BY DriverKept DEF OnTarget, NoCommand
<1>2. ASSUME NEW v, NEW c \in Clients, NEW cmd, Issues(c, v, cmd) PROVE OnTarget(v, cmd)
  BY <1>2, SentAhead DEF Issues, OnTarget
<1>3. ASSUME NEW v \in drv.props
      PROVE  OnTarget(v, run'[v]) /\ \A i \in 1..Len(pend'[v]) : OnTarget(v, pend'[v][i])
  <2>1. OnTarget(v, run[v]) /\ \A j \in 1..Len(pend[v]) : OnTarget(v, pend[v][j])
    BY DEF Targeted
  <2> QED BY <1>1, <1>2, <2>1, CommandsFrom
<1> QED BY <1>1, <1>3 DEF Targeted, OnTarget

(***************************************************************************)
(* What runs on a property that a poll has looked at was taken up later.    *)
(***************************************************************************)
\* What a poll's own step leaves of its memory, when it will ask about a marker.
LEMMA OwnKeeps ==
  ASSUME Typed, NEW c \in Clients, cl[c].req # None, Step(c), Running(c)', drv' = drv,
         NEW m, WillAsk(c, m)'
  PROVE  /\ cl[c].torn \subseteq cl'[c].torn
         /\ Code(c)[1].op = "snap" /\ Top(c).op # "snap" =>
              cl'[c].skip = cl[c].skip /\ cl'[c].fresh \subseteq cl[c].fresh
<1> USE DEF Typed
<1>1. cl'[c].req # None /\ Top(c).op # "since"
  BY GoesStraight DEF Running
<1>2. Memory(c)
  BY OwnMemory
<1>3. At(c, "snap") /\ Snapped(c) => cl'[c].torn = cl[c].torn /\ Top(c).op = "snap"
  BY DEF Snapped, At
<1>4. Code(c)[1].op = "snap" => Top(c).op # "updated"
  <2>1. Once(Code(c)) /\ cl[c].pc \in 1..Len(Code(c)) /\ 1 \in 1..Len(Code(c))
    BY CodeHonest, CodeSound DEF Honest
  <2> QED BY <2>1 DEF Once, Top
<1> HIDE DEF Snapped, Top
<1> QED BY <1>1, <1>2, <1>3, <1>4 DEF Memory, Carries, At

LEMMA TornOwn ==
  ASSUME Typed, ChildInv, RunBusy, NEW c \in Clients, cl[c].req # None, Step(c), drv' = drv, Torn(c)
  PROVE  Torn(c)'
<1> USE DEF Typed
<1> SUFFICES ASSUME Running(c)', NEW m \in Markers, NEW w \in drv.props \cap Watch[m],
                    Looked(c, w)', WillAsk(c, m)', run'[w].m = m
             PROVE  m \in cl'[c].torn
  BY DEF Torn
<1>1. /\ Running(c) /\ cl'[c].req = cl[c].req /\ cl'[c].pc > cl[c].pc /\ cl'[c].pc <= Len(Code(c))
      /\ Onward(c, cl[c].pc + 1, cl'[c].pc) /\ WillAsk(c, m)
  BY GoesStraight
<1>2. run' = run /\ cl[c].torn \subseteq cl'[c].torn /\ m # None
  BY StepEffects, OwnKeeps DEF Markers, None
<1>3. /\ Code(c)' = Code(c) /\ cl[c].pc \in 1..Len(Code(c)) /\ Len(Code(c)) \in Nat /\ cl'[c].pc \in Nat
  BY <1>1, SameCode, CodeSound DEF Onward
<1>4. PICK i \in 1..(cl'[c].pc - 1) : Code(c)[i].op \in {"busy", "isok"} /\ Code(c)[i].v = w
  BY <1>3 DEF Looked
<1>5. CASE i < cl[c].pc
  <2>1. Looked(c, w)
    BY <1>3, <1>4, <1>5 DEF Looked
  <2> QED BY <1>1, <1>2, <2>1 DEF Torn
<1>6. CASE i = cl[c].pc
  <2>1. Top(c).op \in {"busy", "isok"} /\ Top(c).v = w
    BY <1>4, <1>6 DEF Top
  <2>2. ~(Has(w) /\ vec[w] = "Busy")
    BY <1>1, <2>1, LookPasses
  <2>3. vec[w] # "Busy"
    BY <2>2 DEF Has, Avail, State, ChildInv, None
  <2>4. run[w] = NoCommand
    BY <2>3 DEF RunBusy
  <2> QED BY <1>2, <2>4 DEF NoCommand
<1>7. CASE i > cl[c].pc
  <2>1. i \in (cl[c].pc + 1)..(cl'[c].pc - 1)
    BY <1>3, <1>4, <1>7
  <2>2. Blank(Code(c)[i])
    BY <1>1, <2>1 DEF Onward
  <2> QED BY <1>4, <2>2 DEF Blank
<1> QED BY <1>3, <1>4, <1>5, <1>6, <1>7

LEMMA TornBides ==
  ASSUME Typed, Next, NEW d \in Clients, Bides(d), Torn(d) PROVE Torn(d)'
<1> USE DEF Typed
<1> SUFFICES ASSUME Running(d)', NEW m \in Markers, NEW w \in drv.props \cap Watch[m],
                    Looked(d, w)', WillAsk(d, m)', run'[w].m = m
             PROVE  m \in cl'[d].torn
  BY DriverKept DEF Torn
<1>1. /\ drv' = drv /\ Running(d) /\ Looked(d, w) /\ WillAsk(d, m) /\ m # None
      /\ cl[d].torn \subseteq cl'[d].torn
  BY DriverKept, AheadStays DEF Bides, Running, Carries, Markers, None
<1>2. CASE run'[w] = run[w]
  BY <1>1, <1>2 DEF Torn
<1>3. CASE run'[w] = NoCommand
  BY <1>1, <1>3 DEF NoCommand
<1>4. CASE Accept(w)
  <2>1. Publish(w, "Busy") /\ m \in MarkersOf[w]
    BY <1>4, MotionAssumption DEF Accept, MarkersOf, DriverTyped
  <2> QED BY <1>1, <2>1, PublishCarries
<1> QED BY <1>2, <1>3, <1>4, CommandsFrom

LEMMA TornStep ==
  ASSUME Typed, ChildInv, RunBusy, Next, NEW d \in Clients, Torn(d) PROVE Torn(d)'
<1>1. CASE Begin(d)
  <2>1. cl'[d].pc = 1
    BY <1>1, BeginMoves
  <2> QED BY <2>1 DEF Torn, Looked
<1> QED BY <1>1, Bide, TornBides, TornOwn, DriverKept

(***************************************************************************)
(* An update that reaches a marker finds its commands answered.             *)
(***************************************************************************)
\* The update of one property.
LEMMA SettledPublish ==
  ASSUME Typed, Settled, Next, NEW v \in drv.props, NEW s, Publish(v, s), Driver,
         active' = active, withdrawn' = withdrawn,
         \A u \in drv.props \ {v} : run'[u] = run[u]
  PROVE  Settled'
<1> USE DEF Typed
<1>1. drv' = drv /\ AllStay /\ v \in Props
  BY DriverKept, DriverStays, MotionAssumption DEF DriverTyped
<1>2. \A d \in Clients : cl'[d].fresh \subseteq cl[d].fresh
  BY PublishCarries DEF Carries
<1>3. \A d \in Clients : \A m : Ahead(d, m)' => Ahead(d, m)
  BY <1>1, AheadStays DEF AllStay
<1> SUFFICES ASSUME NEW m \in Polled, m \notin crossed', Seen(m)' PROVE Answered(m)'
  BY <1>1 DEF Settled, Polled
<1>4. /\ m \notin crossed
      /\ m \in MarkersOf[v] => ~Waiting(pend', m) /\ ~Unsent(m) /\ ~Elsewhere(m)
  BY DEF Publish
<1>5. CASE m \in MarkersOf[v]
  <2>1. \A d \in Clients : ~Ahead(d, m)
    <3> SUFFICES ASSUME NEW d \in Clients, Ahead(d, m) PROVE Unsent(m)
      BY <1>4, <1>5
    <3>1. cl[d].req # None /\ cl[d].pc \in 1..Len(Code(d)) /\ Len(Code(d)) \in Nat
      BY CodeSound DEF Ahead
    <3>2. PICK i \in 1..Len(Code(d)), j \in 1..Len(Code(d)) :
            Spans(Code(d), i, j) /\ Code(d)[i].m = m /\ i < cl[d].pc /\ cl[d].pc <= j
      BY DEF Ahead
    <3>3. i \in 1..(cl[d].pc - 1) /\ j \in cl[d].pc..Len(Code(d))
      BY <3>1, <3>2
    <3> QED BY <3>1, <3>2, <3>3 DEF Unsent, Spans, Commanding
  <2>2. ~Elsewhere(m)'
    <3>1. v \in Watch[m]
      BY <1>5, <1>1 DEF MarkersOf
    <3> QED BY <1>1, <1>4, <1>5, <3>1 DEF Elsewhere
  <2> QED BY <1>3, <1>4, <1>5, <2>1, <2>2 DEF Answered
<1>6. CASE m \notin MarkersOf[v]
  <2>1. \A u : <<m, u>> \in acked' => <<m, u>> \in acked
    BY <1>6 DEF Publish
  <2>2. Seen(m)
    BY <1>2, <2>1 DEF Seen
  <2>3. Answered(m)
    BY <1>4, <2>2 DEF Settled
  <2>4. \A c \in Clients : \A u, cmd : ~Issues(c, u, cmd)
    <3>1. ASSUME NEW c \in Clients, cl[c].req # None, Sent(c) PROVE FALSE
      BY <1>1, <3>1, SentGoes DEF AllStay
    <3> QED BY <3>1 DEF Issues
  <2>5. DOMAIN pend = drv.props /\ DOMAIN pend' = drv.props
    BY <1>1, TypedStep DEF DriverTyped
  <2>6. ~Waiting(pend', m)
    <3> SUFFICES ASSUME NEW u \in drv.props, NEW i \in 1..Len(pend'[u]), pend'[u][i].m = m PROVE FALSE
      BY <2>5 DEF Waiting
    <3>1. \E j \in 1..Len(pend[u]) : pend'[u][i] = pend[u][j]
      BY <2>4, CommandsFrom
    <3> QED BY <2>3, <2>5, <3>1 DEF Answered, Waiting
  <2>7. ~Elsewhere(m)'
    <3> SUFFICES ASSUME NEW u \in drv.props \ Watch[m], run'[u].m = m PROVE FALSE
      BY <1>1 DEF Elsewhere
    <3>1. m # None /\ run[u].m # m
      <4>1. m \in Markers /\ ~Elsewhere(m)
        BY <2>3, PolledMarkers DEF Answered
      <4> QED BY <4>1 DEF Elsewhere, Markers, None
    <3>2. \E j \in 1..Len(pend[u]) : run'[u] = pend[u][j]
      BY <3>1, CommandsFrom DEF NoCommand
    <3> QED BY <2>3, <2>5, <3>2 DEF Answered, Waiting
  <2> QED BY <1>3, <2>3, <2>6, <2>7 DEF Answered
<1> QED BY <1>5, <1>6

\* What a request's own steps make of it.
LEMMA SeenFrom ==
  ASSUME Typed, NEW c \in Clients, cl[c].req # None, Step(c), NEW m \in Polled, Seen(m)'
  PROVE  Seen(m) /\ ~(StartMarker(c) /\ Top(c).m = m)
<1> USE DEF Typed
<1>1. ASSUME StartMarker(c), Top(c).m = m PROVE FALSE
  <2>1. m \in active' /\ \A v : <<m, v>> \notin acked'
    BY <1>1 DEF StartMarker
  <2>2. \A d \in Clients : m \notin cl'[d].fresh
    BY <1>1, StartForgets
  <2> QED BY <2>1, <2>2 DEF Seen
<1> SUFFICES Seen(m)
  BY <1>1
<1>2. /\ m \in withdrawn => m \in withdrawn'
      /\ m \in active => m \in active' \cup withdrawn' \/ (ActiveMarker(c) /\ Top(c).m = m)
      /\ \A v : <<m, v>> \in acked' => <<m, v>> \in acked
  BY <1>1, MarkerEffects
<1>3. CASE m \notin active' \cup withdrawn'
  <2>1. CASE m \notin active
    BY <1>2, <1>3, <2>1 DEF Seen
  <2>2. CASE m \in active
    <3>1. ActiveMarker(c) /\ Top(c).m = m
      BY <1>2, <1>3, <2>2
    <3>2. m \in cl[c].fresh
      BY <1>3, <2>2, <3>1 DEF ActiveMarker
    <3> QED BY <3>2 DEF Seen
  <2> QED BY <2>1, <2>2
<1>4. CASE \E v \in Props : <<m, v>> \in acked'
  BY <1>2, <1>4 DEF Seen
<1>5. ASSUME NEW d \in Clients, m \in cl'[d].fresh PROVE Seen(m)
  <2>1. CASE m \in cl[d].fresh
    BY <2>1 DEF Seen
  <2>2. CASE d # c
    BY <1>5, <2>1, <2>2, OthersCarry DEF Carries
  <2>3. CASE d = c
    <3>1. Memory(c)
      BY OwnMemory
    <3>2. CASE Carries(cl'[c], cl[c]) \/ (At(c, "since") /\ cl'[c].fresh \subseteq cl[c].fresh)
      BY <1>5, <2>1, <2>3, <3>2 DEF Carries
    <3>3. CASE cl'[c].fresh \subseteq cl[c].fresh \cup After(Top(c).v)
      <4>1. m \in After(Top(c).v) => <<m, Top(c).v>> \in acked
        BY DEF After
      <4> QED BY <1>5, <2>1, <2>3, <3>3, <4>1 DEF Seen, MarkersTyped
    <3>4. CASE Snapped(c)
      <4>1. \E v : <<m, v>> \in acked
        BY <1>5, <2>3, <3>4 DEF Snapped
      <4> QED BY <4>1 DEF Seen, MarkersTyped
    <3> QED BY <3>1, <3>2, <3>3, <3>4 DEF Memory
  <2> QED BY <2>2, <2>3
<1> QED BY <1>1, <1>3, <1>4, <1>5 DEF Seen

LEMMA SettledRequest ==
  ASSUME Typed, Settled, Next, NEW c \in Clients, cl[c].req # None, Step(c)
  PROVE  Settled'
<1> USE DEF Typed
<1>1. drv' = drv /\ run' = run /\ Others(c)
  BY DriverKept, StepEffects, StepMoves DEF Moves
<1> SUFFICES ASSUME NEW m \in Polled, m \notin crossed', Seen(m)' PROVE Answered(m)'
  BY <1>1 DEF Settled, Polled
<1>2. Seen(m) /\ ~(StartMarker(c) /\ Top(c).m = m)
  BY SeenFrom
<1>3. m \notin crossed /\ m # None
  BY <1>2, MarkerEffects, PolledMarkers DEF Markers, None
<1>4. Answered(m)
  BY <1>2, <1>3 DEF Settled
<1>5. \A d \in Clients : ~Ahead(d, m)'
  <2>1. ~Ahead(c, m)'
    BY <1>1, <1>2, <1>4, AheadFrom DEF Answered
  <2>2. \A d \in Clients \ {c} : Ahead(d, m)' => Ahead(d, m)
    BY <1>1, AheadStays DEF Others
  <2> QED BY <1>4, <2>1, <2>2 DEF Answered
<1>6. DOMAIN pend = drv.props /\ DOMAIN pend' = drv.props
  BY <1>1, TypedStep DEF DriverTyped
<1>7. ~Waiting(pend', m)
  <2> SUFFICES ASSUME NEW u \in drv.props, NEW i \in 1..Len(pend'[u]), pend'[u][i].m = m PROVE FALSE
    BY <1>6 DEF Waiting
  <2>1. CASE \E j \in 1..Len(pend[u]) : pend'[u][i] = pend[u][j]
    BY <1>4, <1>6, <2>1 DEF Answered, Waiting
  <2>2. ASSUME NEW e \in Clients, Issues(e, u, pend'[u][i]) PROVE FALSE
    <3>1. cl[e].req # None /\ Sent(e) /\ Top(e).m = m
      BY <2>2 DEF Issues
    <3> QED BY <1>3, <1>4, <3>1, SentAhead DEF Answered
  <2> QED BY <2>1, <2>2, CommandsFrom
<1>8. ~Elsewhere(m)'
  BY <1>1, <1>4 DEF Elsewhere, Answered
<1> QED BY <1>5, <1>7, <1>8 DEF Answered

LEMMA SettledStep ==
  ASSUME Typed, Settled, Next PROVE Settled'
<1> USE DEF Typed
<1>0. drv' = drv
  BY DriverKept
<1>1. ASSUME NEW v \in drv.props, Define(v) \/ Accept(v) \/ Finish(v) \/ Report(v) PROVE Settled'
  <2>1. \E s : Publish(v, s)
    BY <1>1 DEF Define, Accept, Finish, Report
  <2>2. /\ Driver /\ active' = active /\ withdrawn' = withdrawn
        /\ \A u \in drv.props \ {v} : run'[u] = run[u]
    BY <1>1 DEF Driver, Define, Accept, Finish, Report, DriverTyped
  <2> QED BY <2>1, <2>2, SettledPublish
<1>2. CASE Lose
  <2>1. /\ acked' = {} /\ active' = active /\ withdrawn' = withdrawn /\ crossed' = crossed
        /\ pend' = [v \in drv.props |-> << >>] /\ run' = [v \in drv.props |-> NoCommand]
    BY <1>2 DEF Lose
  <2>2. AllStay /\ \A d \in Clients : cl'[d].fresh \subseteq cl[d].fresh
    <3>1. AllStay /\ \A d \in Clients : cl[d] \in Records
      BY <1>2, DriverStays DEF Driver, RequestsTyped
    <3>2. \A d \in Clients : cl'[d] = Loosen(cl[d], drv.props)
      BY <1>2 DEF Lose
    <3> QED BY <3>1, <3>2, LoosenCarries DEF Carries
  <2> SUFFICES ASSUME NEW m \in Polled, m \notin crossed', Seen(m)' PROVE Answered(m)'
    BY <1>0 DEF Settled, Polled
  <2>3. Seen(m)
    BY <2>1, <2>2 DEF Seen
  <2>4. Answered(m)
    BY <2>1, <2>3 DEF Settled
  <2>5. \A d \in Clients : ~Ahead(d, m)'
    BY <1>0, <2>2, <2>4, AheadStays DEF AllStay, Answered
  <2>6. m # None
    BY PolledMarkers DEF Markers, None
  <2>7. ~Waiting(pend', m) /\ ~Elsewhere(m)'
    BY <1>0, <2>1, <2>6 DEF Waiting, Elsewhere, NoCommand
  <2> QED BY <2>5, <2>7 DEF Answered
<1>3. ASSUME GoDown \/ Serve \/ \E c \in Clients : Begin(c) PROVE Settled'
  <2>1. /\ acked' = acked /\ active' = active /\ withdrawn' = withdrawn /\ crossed' = crossed
        /\ pend' = pend /\ run' = run
    BY <1>3 DEF GoDown, Serve, Begin, driverVars, markerVars
  <2>2. ASSUME NEW d \in Clients
        PROVE  cl'[d].fresh \subseteq cl[d].fresh /\ \A m : Ahead(d, m)' => Ahead(d, m)
    <3>1. CASE Begin(d)
      <4>1. cl'[d].fresh = {}
        BY <3>1 DEF Begin, Idle, RequestsTyped
      <4>2. cl'[d].pc = 1
        BY <3>1, BeginMoves
      <4> QED BY <4>1, <4>2 DEF Ahead
    <3>2. CASE ~Begin(d)
      <4>1. cl'[d] = cl[d]
        BY <1>3, <3>2 DEF GoDown, Serve, Begin, RequestsTyped
      <4> QED BY <1>0, <4>1, AheadStays
    <3> QED BY <3>1, <3>2
  <2> SUFFICES ASSUME NEW m \in Polled, m \notin crossed', Seen(m)' PROVE Answered(m)'
    BY <1>0 DEF Settled, Polled
  <2>3. Seen(m)
    BY <2>1, <2>2 DEF Seen
  <2>4. Answered(m)
    BY <2>1, <2>3 DEF Settled
  <2> QED BY <1>0, <2>1, <2>2, <2>4 DEF Answered, Elsewhere
<1> QED BY <1>1, <1>2, <1>3, SettledRequest DEF Next, Driver, Request

(***************************************************************************)
(* What a poll knows from its one snapshot.                                 *)
(***************************************************************************)
\* The moment of the snapshot: either the marker is active and older than no update
\* that was read, or its commands were answered and none of them runs.
LEMMA ShownFirst ==
  ASSUME Typed, RunBusy, Targeted, Settled, Next, NEW c \in Clients, cl[c].req # None, TakeSnapshot(c),
         Step(c), NEW m \in Markers, Running(c)', WillAsk(c, m)', m \notin cl'[c].skip
  PROVE  <<c, m>> \in rested' \/ Misled(c, m)' \/ (m \in active' /\ m \notin cl'[c].fresh)
<1> USE DEF Typed
<1>1. /\ drv' = drv /\ WillAsk(c, m) /\ cl'[c].req = cl[c].req /\ cl'[c].req # None
      /\ crossed' = crossed /\ withdrawn' = withdrawn /\ active' = active /\ pend' = pend /\ run' = run
      /\ vec' = vec
  BY DriverKept, GoesStraight DEF TakeSnapshot, markerVars, driverVars
<1>2. m \in Asks(c) /\ m \in Polled
  BY <1>1, AskedBy
<1> DEFINE read == {Top(c).v} \cup Top(c).also
<1>3. Top(c).op = "snap" /\ Snapped(c)
  <2>1. ~Ends(c)
    BY <1>1 DEF Ends, Idle, RequestsTyped
  <2> QED BY <1>1, <2>1, SnapGoes
<1>4. Target(drv.kind, m) \subseteq read
  <2>1. Once(Code(c)) /\ Asking(drv.kind, Code(c)) /\ cl[c].pc \in 1..Len(Code(c)) /\ Top(c) = Code(c)[cl[c].pc]
    BY CodeHonest, CodeSound DEF Honest, Top
  <2>2. Top(c) = Code(c)[1] /\ Code(c)[1].op = "snap"
    BY <1>3, <2>1 DEF Once
  <2>3. PICK j \in 1..Len(Code(c)) : Code(c)[j].op = "active" /\ Code(c)[j].m = m
    BY <1>1, <2>1, CodeSound DEF WillAsk
  <2> QED BY <2>1, <2>2, <2>3 DEF Asking, Informed
<1> SUFFICES ASSUME m \notin crossed \cup withdrawn, m \in active => m \in cl'[c].fresh
             PROVE  <<c, m>> \in rested'
  BY <1>1 DEF Misled
<1>5. Seen(m)
  <2>1. CASE m \notin active
    BY <2>1 DEF Seen
  <2>2. CASE m \in cl'[c].fresh
    <3>1. \E v : <<m, v>> \in acked
      BY <1>3, <2>2 DEF Snapped
    <3> QED BY <3>1 DEF Seen, MarkersTyped
  <2> QED BY <2>1, <2>2
<1>6. Answered(m)
  BY <1>2, <1>5 DEF Settled
<1>7. ~Outstanding(m)
  <2>1. ~Waiting(pend, m) /\ ~Elsewhere(m)
    BY <1>6 DEF Answered
  <2> SUFFICES ASSUME NEW v \in drv.props, run[v].m = m PROVE FALSE
    BY <2>1 DEF Outstanding
  <2>2. v \in Watch[m] /\ m # None
    BY <2>1 DEF Elsewhere, Markers, None
  <2>3. v \in read
    BY <1>4, <2>2 DEF Targeted, OnTarget
  <2>4. vec[v] # "Busy"
    BY <1>3, <2>3 DEF Snapped, State
  <2>5. run[v] = NoCommand
    BY <2>4 DEF RunBusy
  <2> QED BY <2>2, <2>5 DEF NoCommand
<1>8. ~Outstanding(m)'
  BY <1>1, <1>7 DEF Outstanding
<1> QED BY <1>1, <1>2, <1>8, RestedStep

\* What a request does to what another poll, or the poll itself, was shown.
LEMMA ShownRequest ==
  ASSUME Typed, NEW e \in Clients, cl[e].req # None, Step(e), NEW c \in Clients, NEW m \in Polled,
         cl[c].req # None, cl'[c].fresh \subseteq cl[c].fresh, cl[c].torn \subseteq cl'[c].torn,
         ActiveMarker(e) /\ Top(e).m = m => e # c /\ HasTime(c, m),
         Misled(c, m) \/ (m \in active /\ m \notin cl[c].fresh)
  PROVE  Misled(c, m)' \/ (m \in active' /\ m \notin cl'[c].fresh)
<1> USE DEF Typed
<1>1. CASE StartMarker(e) /\ Top(e).m = m
  <2>1. m \in active' /\ m \notin cl'[c].fresh
    BY <1>1, StartForgets DEF StartMarker
  <2> QED BY <2>1
<1>2. CASE ~(StartMarker(e) /\ Top(e).m = m)
  <2>1. /\ m \in crossed' <=> m \in crossed
        /\ m \in withdrawn => m \in withdrawn'
        /\ m \in active => m \in active' \cup withdrawn' \/ (ActiveMarker(e) /\ Top(e).m = m)
    BY <1>2, MarkerEffects
  <2>2. CASE Misled(c, m)
    BY <2>1, <2>2 DEF Misled
  <2>3. CASE m \in active /\ m \notin cl[c].fresh /\ m \notin active' \cup withdrawn'
    <3>1. ActiveMarker(e) /\ Top(e).m = m
      BY <2>1, <2>3
    <3>2. m \in cl'[c].torn
      BY <2>3, <3>1, ActiveTears
    <3> QED BY <3>2 DEF Misled
  <2>4. CASE m \in active /\ m \notin cl[c].fresh /\ m \in active' \cup withdrawn'
    BY <2>4 DEF Misled
  <2> QED BY <2>2, <2>3, <2>4
<1> QED BY <1>1, <1>2

LEMMA ShownStep ==
  ASSUME Typed, RunBusy, Targeted, Settled, Next, NEW c \in Clients, Shown(c) PROVE Shown(c)'
<1> USE DEF Typed
<1>0. drv' = drv
  BY DriverKept
<1> SUFFICES ASSUME Running(c)', Code(c)[1]'.op = "snap", cl'[c].pc > 1, NEW m \in Markers \ cl'[c].skip,
                    WillAsk(c, m)'
             PROVE  <<c, m>> \in rested' \/ Misled(c, m)' \/ (m \in active' /\ m \notin cl'[c].fresh)
  BY DEF Shown
<1>1. ASSUME cl'[c].req = cl[c].req, Running(c), Code(c)[1].op = "snap", cl[c].pc > 1, WillAsk(c, m),
             cl'[c].skip = cl[c].skip
      PROVE  /\ <<c, m>> \in rested \/ Misled(c, m) \/ (m \in active /\ m \notin cl[c].fresh)
             /\ <<c, m>> \in rested => <<c, m>> \in rested'
             /\ m \in Polled /\ cl[c].req # None
  <2>1. cl[c].req # None
    BY <1>1 DEF Running
  <2>2. m \in Asks(c) /\ m \in Polled
    BY <1>1, <2>1, AskedBy
  <2>3. <<c, m>> \in rested => <<c, m>> \in rested'
    BY <1>1, <2>1, <2>2, RestedStep
  <2> QED BY <1>1, <2>1, <2>2, <2>3 DEF Shown
<1>2. CASE Bides(c)
  <2>1. /\ cl'[c].req = cl[c].req /\ Running(c) /\ Code(c)[1].op = "snap" /\ cl[c].pc > 1 /\ WillAsk(c, m)
        /\ cl'[c].skip = cl[c].skip /\ cl[c].torn \subseteq cl'[c].torn /\ cl'[c].fresh \subseteq cl[c].fresh
    <3>1. Code(c)' = Code(c)
      BY <1>0, <1>2, SameCode DEF Bides
    <3> QED BY <1>0, <1>2, <3>1, AheadStays DEF Bides, Carries, Running
  <2>2. CASE <<c, m>> \in rested
    BY <1>1, <2>1, <2>2
  <2>3. CASE Misled(c, m) \/ (m \in active /\ m \notin cl[c].fresh)
    <3>1. CASE Driver \/ \E e \in Clients : Begin(e)
      <4>1. crossed \subseteq crossed' /\ withdrawn' = withdrawn /\ active' = active
        BY <3>1 DEF Driver, Define, Accept, Finish, Report, Publish, Lose, GoDown, Serve, Begin, markerVars
      <4> QED BY <2>1, <2>3, <4>1, SMTT(30) DEF Misled
    <3>2. ASSUME NEW e \in Clients, cl[e].req # None, Step(e), e # c
          PROVE  Misled(c, m)' \/ (m \in active' /\ m \notin cl'[c].fresh)
      <4>1. HasTime(c, m)
        <5>1. cl[c].pc \in Nat /\ 1 \in 1..(cl[c].pc - 1)
          BY <1>1, <2>1, CodeSound
        <5> QED BY <1>1, <2>1, <5>1 DEF HasTime, WillAsk
      <4> QED BY <1>1, <2>1, <2>3, <3>2, <4>1, ShownRequest
    <3>3. CASE cl[c].req # None /\ Step(c)
      <4>1. Local(c, cl'[c])
        BY <3>3, StepMoves DEF Moves
      <4>2. cl'[c].pc > cl[c].pc /\ cl[c].pc \in Nat
        BY <3>3, <4>1, LocalPc, CodeSound DEF Running
      <4> QED BY <1>2, <4>2 DEF Bides
    <3> QED BY <3>1, <3>2, <3>3 DEF Next, Request
  <2> QED BY <1>1, <2>1, <2>2, <2>3
<1>3. CASE Begin(c)
  BY <1>3, BeginMoves
<1>4. CASE cl[c].req # None /\ Step(c)
  <2>1. /\ Running(c) /\ cl'[c].req = cl[c].req /\ WillAsk(c, m) /\ cl'[c].pc > cl[c].pc
        /\ \E j \in cl'[c].pc..Len(Code(c)) : Code(c)[j].op = "active" /\ Code(c)[j].m = m
    BY <1>0, <1>4, GoesStraight
  <2>2. /\ Code(c)' = Code(c) /\ Code(c)[1].op = "snap" /\ cl[c].pc \in 1..Len(Code(c)) /\ Len(Code(c)) \in Nat
        /\ Asking(drv.kind, Code(c)) /\ Once(Code(c)) /\ Top(c) = Code(c)[cl[c].pc]
    BY <1>0, <1>4, <2>1, SameCode, CodeSound, CodeHonest DEF Honest, Top
  <2>3. CASE Top(c).op = "snap"
    <3>1. TakeSnapshot(c)
      BY <1>4, <2>1, <2>3, LookPasses DEF Running
    <3> QED BY <1>4, <3>1, ShownFirst
  <2>4. CASE Top(c).op # "snap"
    <3>1. cl[c].pc > 1
      BY <2>2, <2>4
    <3>2. /\ cl[c].torn \subseteq cl'[c].torn
          /\ cl'[c].skip = cl[c].skip /\ cl'[c].fresh \subseteq cl[c].fresh
      BY <1>0, <1>4, <2>2, <2>4, OwnKeeps
    <3>3. CASE <<c, m>> \in rested
      BY <1>1, <2>1, <2>2, <3>1, <3>2, <3>3
    <3>4. CASE Misled(c, m) \/ (m \in active /\ m \notin cl[c].fresh)
      <4>1. ~(ActiveMarker(c) /\ Top(c).m = m)
        <5> SUFFICES ASSUME ActiveMarker(c), Top(c).m = m PROVE FALSE
          OBVIOUS
        <5>1. Top(c).op = "active"
          BY DEF ActiveMarker, At
        <5>2. PICK j \in cl'[c].pc..Len(Code(c)) : Code(c)[j].op = "active" /\ Code(c)[j].m = m
          BY <2>1
        <5>3. j \in 1..Len(Code(c)) /\ cl[c].pc \in 1..(j - 1)
          <6>1. cl'[c].pc \in Nat
            BY <1>4, TypedStep DEF RequestsTyped, Records
          <6> QED BY <2>1, <2>2, <5>2, <6>1
        <5> QED BY <2>2, <5>1, <5>2, <5>3 DEF Asking
      <4> QED BY <1>1, <1>4, <2>1, <2>2, <3>1, <3>2, <3>4, <4>1, ShownRequest
    <3> QED BY <1>1, <2>1, <2>2, <3>1, <3>2, <3>3, <3>4
  <2> QED BY <2>3, <2>4
<1> QED BY <1>2, <1>3, <1>4, Bide

(***************************************************************************)
(* The invariants hold.                                                     *)
(***************************************************************************)
LEMMA InitInv == Init => IndInv
<1> SUFFICES ASSUME Init PROVE IndInv
  OBVIOUS
<1>1. NoCommand \in Cmds /\ << >> \in Seq(Cmds) /\ FirstMode \in [mode : {"TRACK", "SYNC"}, points : {"APPEND", "CLEAR"}]
  BY DEF NoCommand, Cmds, MarkersOrNone, Args, FirstMode
<1>2. DriverTyped
  BY <1>1, MotionAssumption DEF Init, DriverTyped
<1>3. MarkersTyped
  BY DEF Init, MarkersTyped
<1>4. cl \in [Clients -> Records] /\ \A c \in Clients : cl[c].req = None
  BY IdleTyped DEF Init
<1>5. RequestsTyped /\ GuardInv /\ LooseInv
  BY <1>4 DEF RequestsTyped, GuardInv, LooseInv, Keeping
<1>6. ChildInv /\ RestInv
  BY DEF Init, ChildInv, RestInv, FirstMode
<1>7. PendInv
  BY DEF Init, PendInv, Watched, NoCommand, None
<1>8. MarkInv
  BY DEF Init, MarkInv
<1> QED BY <1>2, <1>3, <1>5, <1>6, <1>7, <1>8 DEF IndInv, Typed

LEMMA StutterInv == ASSUME IndInv, UNCHANGED vars PROVE IndInv'
<1> USE DEF IndInv
<1>1. /\ drv' = drv /\ conn' = conn /\ vec' = vec /\ active' = active /\ acked' = acked /\ axis' = axis
      /\ pend' = pend /\ run' = run /\ mode' = mode /\ cl' = cl /\ crossed' = crossed
      /\ withdrawn' = withdrawn /\ refused' = refused
  BY DEF vars
<1>2. \A c : Code(c)' = Code(c)
  BY <1>1 DEF Code
<1>3. Typed'
  BY <1>1, <1>2 DEF Typed, DriverTyped, MarkersTyped, RequestsTyped
<1>4. GuardInv'
  BY <1>1, <1>2 DEF GuardInv
<1>5. ChildInv' /\ LooseInv'
  BY <1>1, <1>2 DEF ChildInv, LooseInv, Keeping, Meets, State
<1>6. RestInv' /\ PendInv'
  BY <1>1 DEF RestInv, Restoring, PendInv
<1>7. MarkInv'
  <2>1. \A m : Excused(m)' = Excused(m) /\ Outstanding(m)' = Outstanding(m)
    BY <1>1 DEF Excused, Outstanding
  <2>2. \A d, m : Zone(d, m) => Zone(d, m)'
    BY <1>1, <1>2 DEF Zone
  <2> QED BY <1>1, <2>1, <2>2 DEF MarkInv
<1> QED BY <1>3, <1>4, <1>5, <1>6, <1>7

LEMMA NextInv == IndInv /\ [Next]_vars => IndInv'
<1> SUFFICES ASSUME IndInv, [Next]_vars PROVE IndInv'
  OBVIOUS
<1>1. CASE Next
  <2>1. Typed' /\ GuardInv'
    BY <1>1, TypedStep, NextMoves, GuardStep DEF IndInv
  <2>2. ChildInv' /\ LooseInv' /\ RestInv' /\ PendInv' /\ MarkInv'
    BY <1>1, ChildStep, LooseStep, RestStep, PendStep, MarkStep DEF IndInv
  <2> QED BY <2>1, <2>2 DEF IndInv
<1>2. CASE UNCHANGED vars
  BY <1>2, StutterInv
<1> QED BY <1>1, <1>2

(***************************************************************************)
(* The invariant of the polls.                                              *)
(***************************************************************************)
LEMMA StopStep ==
  ASSUME Typed, ChildInv, RunBusy, StopInv, Next PROVE StopInv'
<1>1. Targeted' /\ Settled'
  BY TargetedStep, SettledStep DEF StopInv
<1>2. ASSUME NEW c \in Clients PROVE Torn(c)' /\ Shown(c)' /\ Rested(c)'
  BY TornStep, ShownStep, RestedStep DEF StopInv
<1> QED BY <1>1, <1>2 DEF StopInv

LEMMA StopInit == ASSUME Init PROVE StopInv
<1>1. /\ \A c \in Clients : cl[c].req = None /\ cl[c].fresh = {}
      /\ run = [v \in drv.props |-> NoCommand] /\ pend = [v \in drv.props |-> << >>]
  BY DEF Init, Idle
<1>2. Targeted
  BY <1>1 DEF Targeted, OnTarget, NoCommand
<1>3. Settled
  <2> SUFFICES ASSUME NEW m \in Polled PROVE Answered(m)
    BY DEF Settled
  <2>1. m # None
    BY InitInv, PolledMarkers DEF IndInv, Typed, Markers, None
  <2> QED BY <1>1, <2>1 DEF Answered, Waiting, Elsewhere, Ahead, NoCommand
<1>4. \A c \in Clients : Torn(c) /\ Shown(c) /\ Rested(c)
  BY <1>1 DEF Torn, Shown, Rested, Running
<1> QED BY <1>2, <1>3, <1>4 DEF StopInv

LEMMA StopStutter == ASSUME StopInv, UNCHANGED vars PROVE StopInv'
<1>1. /\ drv' = drv /\ active' = active /\ acked' = acked /\ pend' = pend /\ run' = run /\ cl' = cl
      /\ crossed' = crossed /\ withdrawn' = withdrawn /\ rested' = rested
  BY DEF vars
<1>2. \A c : Code(c)' = Code(c)
  BY <1>1 DEF Code
<1>3. Targeted'
  BY <1>1 DEF StopInv, Targeted, OnTarget
<1>4. Settled'
  <2>1. \A m : Seen(m)' => Seen(m)
    BY <1>1 DEF Seen
  <2>2. \A m : Answered(m) => Answered(m)'
    BY <1>1, AheadStays DEF Answered, Elsewhere
  <2> QED BY <1>1, <2>1, <2>2 DEF StopInv, Settled, Polled
<1>5. ASSUME NEW c \in Clients PROVE Torn(c)' /\ Shown(c)' /\ Rested(c)'
  <2>1. Torn(c) /\ Shown(c) /\ Rested(c)
    BY DEF StopInv
  <2>2. Running(c)' = Running(c) /\ \A m : WillAsk(c, m)' = WillAsk(c, m) /\ Misled(c, m)' = Misled(c, m)
    BY <1>1, <1>2 DEF Running, WillAsk, Misled
  <2>3. /\ \A w : Looked(c, w)' = Looked(c, w)
        /\ \A m : Outstanding(m)' = Outstanding(m)
        /\ Asks(c)' = Asks(c)
    BY <1>1, <1>2 DEF Looked, Outstanding, Asks
  <2> QED BY <1>1, <1>2, <2>1, <2>2, <2>3 DEF Torn, Shown, Rested
<1> QED BY <1>3, <1>4, <1>5 DEF StopInv

\* A poll that finds its marker inactive had a moment without a command of it, or
\* was misled.
LEMMA PassesTrue ==
  ASSUME Typed, PendInv, StopInv, NEW c \in Clients, Passes(c), <<c, Top(c).m>> \notin rested
  PROVE  Top(c).m \in crossed \cup withdrawn \cup cl[c].torn
<1> USE DEF Typed
<1> DEFINE m == Top(c).m
<1>1. /\ Running(c) /\ cl[c].req # None /\ Top(c).op = "active"
      /\ m \notin cl[c].skip /\ (m \in active => m \in cl[c].fresh)
  BY DEF Passes, At, Running
<1>2. /\ cl[c].pc \in 1..Len(Code(c)) /\ Len(Code(c)) \in Nat /\ Top(c) = Code(c)[cl[c].pc]
      /\ Asking(drv.kind, Code(c)) /\ Once(Code(c))
  BY <1>1, CodeSound, CodeHonest DEF Honest, Top
<1>3. m \in Markers /\ Informed(drv.kind, Code(c), cl[c].pc)
  BY <1>1, <1>2 DEF Asking
<1>4. WillAsk(c, m) /\ m \in Asks(c) /\ m \in Polled
  <2>1. WillAsk(c, m)
    BY <1>1, <1>2 DEF WillAsk
  <2> QED BY <1>1, <2>1, AskedBy
<1>5. CASE Code(c)[1].op = "snap"
  <2>1. cl[c].pc > 1
    BY <1>1, <1>2, <1>5
  <2>2. <<c, m>> \in rested \/ Misled(c, m) \/ (m \in active /\ m \notin cl[c].fresh)
    BY <1>1, <1>3, <1>4, <1>5, <2>1 DEF StopInv, Shown
  <2> QED BY <1>1, <2>2 DEF Misled
<1>6. CASE Code(c)[1].op # "snap"
  <2> SUFFICES ASSUME m \notin crossed \cup withdrawn PROVE m \in cl[c].torn
    OBVIOUS
  <2>1. Seen(m) /\ Outstanding(m)
    BY <1>1, <1>4 DEF Seen, StopInv, Rested
  <2>2. Answered(m)
    BY <1>4, <2>1 DEF StopInv, Settled
  <2>3. PICK v \in drv.props \cap Watch[m] : run[v].m = m
    BY <2>1, <2>2 DEF Answered, Outstanding, Elsewhere
  <2>4. v \in Target(drv.kind, m)
    BY <1>3, <2>3 DEF StopInv, Targeted, OnTarget, Markers, None
  <2>5. Looked(c, v)
    BY <1>1, <1>2, <1>3, <1>6, <2>4 DEF Informed, Looked
  <2> QED BY <1>1, <1>3, <1>4, <2>3, <2>5 DEF StopInv, Torn
<1> QED BY <1>5, <1>6

(***************************************************************************)
(* The theorems.                                                            *)
(***************************************************************************)
\* The strengthening of the properties below is an invariant: types; a guarded
\* instruction is reached only for a property the driver has; a lost child has
\* no properties and the modes of a new one; a request keeps the mode it chose or
\* knows that it lost it; a changed mode has a request that puts it back; a
\* command's answer acknowledges its marker; and a marker has a cause.
THEOREM MotionInductive == Spec => []IndInv
BY InitInv, NextInv, PTL DEF Spec

\* The types of Motion, for every table of drivers and number of requests.
THEOREM MotionTyped == Spec => []TypeOK
<1>1. IndInv => TypeOK
  <2> SUFFICES ASSUME IndInv PROVE TypeOK
    OBVIOUS
  <2>1. Typed
    BY DEF IndInv
  <2>2. mode.mode \in {"TRACK", "SYNC"} /\ mode.points \in {"APPEND", "CLEAR"}
    BY <2>1 DEF Typed, DriverTyped
  <2>3. \A c \in Clients : cl[c].req \in drv.reqs \cup {None} /\ cl[c].since \subseteq Props
    BY <2>1 DEF Typed, RequestsTyped, Records
  <2> QED BY <2>1, <2>2, <2>3 DEF Typed, DriverTyped, MarkersTyped, TypeOK
<1> QED BY <1>1, MotionInductive, PTL

\* A marker that holds a poll at "moving" (Inflight.Active) belongs to a command
\* that the driver has still to answer or to a request that is not finished,
\* whatever the sends, the losses of the child and the other requests do.
THEOREM MarkersEnd == Spec => []MarkerHasCause
<1>1. IndInv => MarkerHasCause
  <2> SUFFICES ASSUME IndInv, NEW m \in active, ~Excused(m), ~Outstanding(m)
               PROVE  \E c \in Clients : cl[c].req # None /\ \E i \in 1..Len(Code(c)) :
                        Code(c)[i].op = "start" /\ Code(c)[i].m = m /\ i < cl[c].pc
    BY ZenonT(40) DEF MarkerHasCause, Excused
  <2>1. PICK c \in Clients : Zone(c, m)
    BY DEF IndInv, MarkInv
  <2> QED BY <2>1 DEF Zone, Spans
<1> QED BY <1>1, MotionInductive, PTL

\* A sync leaves the mount in SYNC mode only when it was refused, and setSite
\* never leaves CLEAR selected: through every failed write, every loss of the
\* child between two writes and every other request (syncCoords, setSite).
THEOREM ModesRestored == Spec => []ModesPutBack
<1>1. IndInv => ModesPutBack
  BY DEF IndInv, RestInv, Restoring, ModesPutBack, Typed, DriverTyped
<1> QED BY <1>1, MotionInductive, PTL

\* Coordinates meet the mode their request chose and the commit of setSite its
\* action, unless the request has lost track of it (slewAsync, syncCoords, setSite).
THEOREM CommandsMeetTheirMode == Spec => CommandMeetsItsMode
<1> DEFINE Met == \A c \in Clients : \A p \in {<<"eq", "mode">>, <<"commit", "points">>} :
                    Commands(c, p[1]) /\ mode[p[2]] # Top(c).a => p[2] \in cl[c].loose
<1>0. ASSUME IndInv, NEW c \in Clients, NEW v, NEW p,
             (v = "eq" /\ p = "mode") \/ (v = "commit" /\ p = "points"), Commands(c, v), mode[p] # Top(c).a
      PROVE  p \in cl[c].loose
  <2>1. Typed /\ Keeping(c) /\ cl[c].req # None /\ Top(c).op = "send" /\ Top(c).v = v
    BY <1>0 DEF IndInv, LooseInv, Commands, At, Running
  <2>2. /\ Sound(cl[c].req, Code(c)) /\ cl[c].pc \in 1..Len(Code(c)) /\ Top(c) = Code(c)[cl[c].pc]
        /\ Len(Code(c)) \in Nat
    BY <2>1, CodeSound DEF Typed, Top
  <2>3. PICK g \in 1..Len(Code(c)) : Chooses(Code(c), g, cl[c].pc, p)
    BY <1>0, <2>1, <2>2 DEF Sound, Good
  <2>4. Meets(c, g, cl[c].pc, p)
    BY <1>0, <2>1, <2>2, <2>3 DEF Keeping
  <2>5. g + 1 < cl[c].pc /\ cl[c].pc <= cl[c].pc
    BY <2>2, <2>3 DEF Chooses
  <2> QED BY <1>0, <2>2, <2>4, <2>5 DEF Meets
<1>1. IndInv => Met
  <2> SUFFICES ASSUME IndInv, NEW c \in Clients, NEW p \in {<<"eq", "mode">>, <<"commit", "points">>},
                      Commands(c, p[1]), mode[p[2]] # Top(c).a
               PROVE  p[2] \in cl[c].loose
    BY Zenon
  <2>1. (p[1] = "eq" /\ p[2] = "mode") \/ (p[1] = "commit" /\ p[2] = "points")
    OBVIOUS
  <2> QED BY <1>0, <2>1
<1>2. IndInv /\ [Next]_vars => [Met]_vars
  BY <1>1
<1> HIDE DEF Met
<1>3. Spec => [][Met]_vars
  BY <1>2, MotionInductive, PTL DEF Spec
<1> QED BY <1>3 DEF CommandMeetsItsMode, Met

\* The unpark that a slew of the dome sends is over before its azimuth is sent
\* (SlewToAzimuth, unparkForMotion), through every order of the driver's updates,
\* every loss of the child and every other request, with the exceptions that the
\* property names.  What it needs beyond IndInv is ParkInv: a property that is not
\* Busy runs no command, and what the wait of a slew has seen since it began.
THEOREM DomesUnparkFirst == Spec => UnparkedFirst
<1> DEFINE Free == \A c \in Clients :
                     At(c, "write") /\ Top(c).v = "az" /\ pend' # pend /\ "park" \notin cl[c].loose =>
                       ~Outstanding("parkOp") \/ "parkOp" \in cl[c].torn
<1>1. Spec => []ParkInv
  <2>1. IndInv /\ ParkInv /\ [Next]_vars => ParkInv'
    BY ParkStep, ParkStutter DEF IndInv
  <2>2. Init => ParkInv
    BY ParkInit
  <2> QED BY <2>1, <2>2, MotionInductive, PTL DEF Spec
<1>2. IndInv /\ ParkInv => Free
  <2> SUFFICES ASSUME IndInv, ParkInv, NEW c \in Clients, At(c, "write"), Top(c).v = "az",
                      "park" \notin cl[c].loose
               PROVE  ~Outstanding("parkOp") \/ "parkOp" \in cl[c].torn
    OBVIOUS
  <2>1. Typed /\ cl[c].req # None /\ cl[c].err = None /\ Top(c).op = "write" /\ Unparking(c)
    BY DEF IndInv, ParkInv, At, Running
  <2>2. Sound(cl[c].req, Code(c)) /\ cl[c].pc \in 1..Len(Code(c)) /\ Top(c) = Code(c)[cl[c].pc]
    BY <2>1, CodeSound DEF Typed, Top
  <2>3. Code(c) = DomeSlewToAzimuth
    BY <2>1, <2>2 DEF Sound, Good, Commanding
  <2>4. cl[c].pc \in 8..10
    <3> DEFINE s == Code(c)
    <3>1. s = DomeSlewToAzimuth /\ cl[c].pc \in 1..10 /\ s[cl[c].pc].op = "write"
      BY <2>1, <2>2, <2>3, DomeSlewToAzimuthListed
    <3> HIDE DEF s
    <3>2. \A i \in 1..10 : s[i].op = "write" => i = 10
      BY <3>1, DomeSlewToAzimuthListed
    <3> QED BY <3>1, <3>2
  <2> QED BY <2>1, <2>3, <2>4 DEF Unparking
<1>3. IndInv /\ ParkInv /\ [Next]_vars => [Free]_vars
  BY <1>2
<1> HIDE DEF Free
<1>4. Spec => [][Free]_vars
  BY <1>1, <1>3, MotionInductive, PTL DEF Spec
<1> QED BY <1>4 DEF UnparkedFirst, Free

\* A poll of a device that may answer "not moving" (IsMoving, Slewing, AtPark,
\* AtHome, ShutterStatus, CameraState, IsPulseGuiding, DeviceState) has had a moment
\* without an outstanding command of the marker it asks about, or was misled in one
\* of the three ways that the property names, through every order of the driver's
\* updates, every lost child and every other request.  Beyond IndInv and ParkInv it
\* needs StopInv: an update younger than a marker means that its command has been
\* taken up by a property the marker watches; what such a property runs after a
\* poll has looked at it tears the poll; and a poll that never rested has had a
\* command outstanding all along.
THEOREM PollsTellTheTruth == Spec => StoppedMeansStopped
<1> DEFINE Told == \A c \in Clients :
                     Passes(c) /\ <<c, Top(c).m>> \notin rested =>
                       Top(c).m \in crossed \cup withdrawn \cup cl[c].torn
<1>1. Spec => [](IndInv /\ ParkInv /\ StopInv)
  <2>1. IndInv /\ ParkInv /\ StopInv /\ [Next]_vars => ParkInv' /\ StopInv'
    BY ParkStep, ParkStutter, StopStep, StopStutter DEF IndInv, ParkInv
  <2>2. Init => ParkInv /\ StopInv
    BY ParkInit, StopInit
  <2> QED BY <2>1, <2>2, MotionInductive, PTL DEF Spec
<1>2. IndInv /\ StopInv => Told
  BY PassesTrue DEF IndInv
<1>3. IndInv /\ ParkInv /\ StopInv /\ [Next]_vars => [Told]_vars
  BY <1>2
<1> HIDE DEF Told
<1>4. Spec => [][Told]_vars
  BY <1>1, <1>3, PTL DEF Spec
<1> QED BY <1>4 DEF StoppedMeansStopped, Told
=============================================================================
