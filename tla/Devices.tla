------------------------------ MODULE Devices ------------------------------
(***************************************************************************)
(* What the methods of the Alpaca devices that move (devtype/*/device.go)   *)
(* ask of the binding kit, in their order.  A method is a program: a        *)
(* sequence of instructions, one for each moment at which the method looks  *)
(* at or changes something another goroutine shares.  Motion runs them.     *)
(*                                                                          *)
(* An instruction names a property v of the driver, an in-flight marker m,  *)
(* a value a and how many instructions n a branch leaves out.  Coordinates, *)
(* angles and steps are the one value "go".                                 *)
(***************************************************************************)
EXTENDS Integers, Sequences, TLC

None == "-"

Instr(op, v, m, a, n) == [op |-> op, v |-> v, m |-> m, a |-> a, n |-> n, also |-> {}]

\* Return an error unless v is defined (kit.Avail, kit.Has, kit.Vector).
Need(v)       == Instr("need", v, None, None, 0)
Available     == Instr("avail", None, None, None, 0)
\* Leave out the next n instructions unless v is defined, or has member a on.
IfHas(v, n)   == Instr("if", v, None, None, n)
IfOn(v, a, n) == Instr("if", v, None, a, n)
IfOff(v, a, n) == Instr("ifnot", v, None, a, n)
Start(m)      == Instr("start", None, m, None, 0)
Clear(m)      == Instr("clear", None, m, None, 0)
\* Send a to v; when that fails, clear m and return the error.
Send(v, m, a) == Instr("send", v, m, a, 0)
\* The same through WriteNumber or WriteSwitch, which look v up and check the range.
Write(v, m, a) == Instr("write", v, m, a, 0)
Since         == Instr("since", None, None, None, 0)
Settle(v, m)  == Instr("settle", v, m, None, 0)
Echo(v)       == Instr("echo", v, None, None, 0)
\* The value, the payload or the permission is not acceptable: an error is returned.
Check         == Instr("check", None, None, None, 0)
SyncSeen(v)   == Instr("syncseen", v, None, None, 0)
Return        == Instr("return", None, None, None, 0)
Axis(a)       == Instr("axis", None, None, a, 0)
\* Polls: the answer is "moving" when v is Busy, when m is active for the
\* update time read last, or when an axis moves; else the poll goes on.
Busy(v)       == Instr("busy", v, None, None, 0)
BusyOrAlert(v) == Instr("busy", v, None, "Alert", 0)
Updated(v)    == Instr("updated", v, None, None, 0)
Active(m)     == Instr("active", None, m, None, 0)
AxisMoving    == Instr("axismoving", None, None, None, 0)
\* The answer is "moving" (the negative one) unless v has a on, or is Ok.
IsOn(v, a)    == Instr("ison", v, None, a, 0)
IsOk(v)       == Instr("isok", v, None, None, 0)
NotAlert(v)   == Instr("need", v, None, "Alert", 0)
\* State and update time of v and the properties vs, from one snapshot.
Snap(v, vs)   == [Instr("snap", v, None, None, 0) EXCEPT !.also = vs]
SnapNotAlert(v) == Instr("snap", v, None, "Alert", 0)
\* A poll of a device that may be down: then it only runs clears.
Still         == Instr("still", None, None, None, 0)
Gated(clears, looks) ==
  <<Instr("gate", None, None, None, Len(looks) + 1)>> \o looks \o <<Still>> \o clears

\* A setting that nothing else depends on: look it up, check the value, send.
Setting(v)    == <<Need(v), Check, Send(v, None, "go")>>
\* INDI: actions on the properties that the typed methods leave alone.
Action(v)     == <<Available>> \o Setting(v)

(***************************************************************************)
(* Focuser.                                                                 *)
(***************************************************************************)
\* Mutant of FocuserMove: the marker is set once the command is on its way.
FocuserMoveLate == <<Need("abs"), Write("abs", "move", "go"), Start("move")>>

FocuserMove     == <<Need("abs"), Start("move"), Write("abs", "move", "go")>>
FocuserHalt     == <<Write("abort", None, "go")>>
FocuserIsMoving == Gated(<<Clear("move")>>,
        <<Busy("abs"), Busy("rel"), Updated("abs"), Active("move")>>)

FocuserDeviceState == <<Snap("abs", {}), Active("move")>>

(***************************************************************************)
(* Rotator.                                                                 *)
(***************************************************************************)
RotatorMoveAbsolute == <<Available, Start("move"), Write("abs", "move", "go")>>
RotatorMoveRelative ==
  <<Available, IfHas("rel", 3), Start("move"), Send("rel", "move", "go"), Return>>
  \o RotatorMoveAbsolute
RotatorHalt     == <<Clear("move"), Write("abort", None, "go")>>
RotatorSetReverse == Setting("reverse")
RotatorSync     == <<Write("sync", None, "go")>>
RotatorIsMoving == Gated(<<Clear("move")>>,
        <<Busy("abs"), Updated("abs"), Active("move")>>)

(***************************************************************************)
(* Filter wheel.  Position is -1 exactly when moving is true.               *)
(***************************************************************************)
FilterWheelSetPosition == <<Available, Start("move"), Write("slot", "move", "go")>>
FilterWheelMoving      == Gated(<<Clear("move")>>,
        <<Busy("slot"), Updated("slot"), Active("move")>>)

(***************************************************************************)
(* Cover and calibrator.                                                    *)
(***************************************************************************)
CoverParkCap == <<Need("cap"), Start("coverOp"), Send("cap", "coverOp", "go")>>
HaltCover    == <<Clear("coverOp"), Write("abort", None, "go")>>
CoverMoving  == Gated(<<Clear("coverOp")>>,
        <<Busy("cap"), Updated("cap"), Active("coverOp")>>)
CoverState   == <<NotAlert("cap")>> \o CoverMoving
CalibratorOn ==
  <<Need("light"), Start("calOp"), IfHas("intensity", 1),
    Write("intensity", "calOp", "go"), Send("light", "calOp", "go")>>
CalibratorOff ==
  <<Need("light"), Start("calOp"), Send("light", "calOp", "go")>>
CalibratorChanging ==
  Gated(<<Clear("calOp")>>,
        <<Busy("light"), Busy("intensity"),
    Updated("light"), Updated("intensity"), Active("calOp")>>)

CalibratorState == <<NotAlert("light")>> \o CalibratorChanging

(***************************************************************************)
(* Dome.                                                                    *)
(***************************************************************************)
\* Mutant of UnparkForMotion: the slew follows at once.
UnparkNoWait ==
  <<IfHas("park", 3), IfOn("park", "PARK", 2), Start("parkOp"), Send("park", "parkOp", "UNPARK")>>

UnparkForMotion ==
  <<IfHas("park", 6), IfOn("park", "PARK", 5), Since, Start("parkOp"),
    Send("park", "parkOp", "UNPARK"), Settle("park", "parkOp"), Clear("parkOp")>>
DomeSlewToAzimuth ==
  <<Available>> \o UnparkForMotion \o <<Start("azOp"), Write("az", "azOp", "go")>>
DomeShutter == <<Need("shutter"), Start("shutOp"), Send("shutter", "shutOp", "go")>>
DomePark    == <<Need("park"), Start("parkOp"), Send("park", "parkOp", "PARK")>>
DomeAbortSlew ==
  <<Clear("azOp"), Clear("parkOp"), Clear("shutOp"), Write("abort", None, "go")>>
DomeSlewing ==
  Gated(<<Clear("azOp"), Clear("parkOp"), Clear("shutOp")>>,
        <<Busy("az"), Busy("rel"), Busy("motion"), Busy("park"),
    Busy("shutter"), Updated("az"), Active("azOp"), Updated("park"), Active("parkOp"),
    Updated("shutter"), Active("shutOp")>>)
DomeSetSlaved == <<Need("autosync"), Send("autosync", None, "go")>>
DomeShutterStatus == <<SnapNotAlert("shutter"), Active("shutOp")>>
DomeAtPark ==
  <<IsOn("park", "PARK"), Busy("park"), Updated("park"), Active("parkOp")>>

(***************************************************************************)
(* Telescope.                                                               *)
(***************************************************************************)
SetCoordMode(a) == <<IfHas("mode", 1), Send("mode", None, a)>>

\* Mutant of SlewAsync: the coordinates go out before the mode.
SlewAsyncCoordsFirst ==
  <<Available, Start("slew"), Send("eq", "slew", "TRACK")>> \o SetCoordMode("TRACK")

SlewAsync == <<Available>> \o SetCoordMode("TRACK") \o <<Start("slew"), Send("eq", "slew", "TRACK")>>
SlewSync  == <<Since>> \o SlewAsync \o <<Settle("eq", None)>>
SlewAltAzAsync == <<Need("hor"), Start("slew"), Send("hor", "slew", "go")>>
SlewAltAz == <<Since>> \o SlewAltAzAsync \o <<Settle("hor", None)>>

\* Mutant of SyncCoords: the mode is not put back.
SyncCoordsNoRestore ==
  <<IfHas("align", 2), IfOff("align", "go", 1), Send("align", None, "go")>>
  \o SetCoordMode("SYNC") \o <<Send("eq", None, "SYNC"), SyncSeen("eq")>>

SyncCoords ==
  <<IfHas("align", 2), IfOff("align", "go", 1), Send("align", None, "go")>>
  \o SetCoordMode("SYNC") \o <<Send("eq", None, "SYNC"), SyncSeen("eq")>>
  \o SetCoordMode("TRACK")
TelescopeSlewing ==
  Gated(<<Axis("off"), Clear("slew"), Clear("parkOp"), Clear("home")>>,
        <<Busy("eq"), Busy("hor"), Busy("park"),
    Busy("homing"), AxisMoving, Updated("eq"), Active("slew"), Updated("park"), Active("parkOp"),
    Updated("homing"), Active("home")>>)
TelescopeAbortSlew ==
  <<Axis("off"), Clear("slew"), Clear("parkOp"), Clear("home"), Write("abort", None, "go")>>
TelescopePark(a) == <<Available, Start("parkOp"), Send("park", "parkOp", a)>>
TelescopeAtPark ==
  <<IsOn("park", "PARK"), Busy("park"), Updated("park"), Active("parkOp")>>
FindHome == <<Need("homing"), Start("home"), Send("homing", "home", "go")>>
AtHome   == <<IsOk("homing"), Updated("homing"), Active("home")>>
SetTracking == <<Need("track"), Since, Send("track", None, "go"), Echo("track")>>
SetTrackingRate == <<Check, Need("rate"), Since, Send("rate", None, "go"), Echo("rate")>>

\* Latitude and longitude; the alignment points are cleared: the action, its
\* commit, and the action that the next sync relies on.
SetSite == Setting("geo")
  \o <<IfHas("points", 3), Send("points", None, "CLEAR"), Send("commit", None, "CLEAR"),
       Send("points", None, "APPEND")>>
SetSiteElevation == Setting("geo")
SetUTCDate == <<Check, Need("time")>> \o Setting("time")
SetRightAscensionRate == Setting("trackRate")
PulseGuide(v) == <<Need(v), Start("guide"), Send(v, "guide", "go")>>
IsPulseGuiding ==
  Gated(<<Clear("guide")>>,
        <<Busy("guideNS"), Busy("guideWE"), Updated("guideNS"), Updated("guideWE"),
    Active("guide")>>)
MoveAxis(a) == <<Need("motion"), Axis(a), Send("motion", None, a)>>
TelescopeDeviceState ==
  <<Snap("eq", {"park", "homing"}), AxisMoving, Active("slew"), Active("parkOp"), Active("home")>>

(***************************************************************************)
(* Camera: the exposure's marker and the guider.  Its image is in Camera.   *)
(***************************************************************************)
StartExposure ==
  <<Available, IfHas("ftype", 1), Send("ftype", None, "go"), Start("exposure"),
    Write("exp", "exposure", "go")>>
AbortExposure == <<Clear("exposure"), Write("abort", None, "go")>>
CameraState   == Gated(<<Clear("exposure")>>,
                       <<BusyOrAlert("exp"), Updated("exp"), Active("exposure")>>)
SetBin(bin)   == IF bin = 1 THEN <<IfHas("bin", 3)>> \o Setting("bin")
                 ELSE <<Need("bin")>> \o Setting("bin")
SetCoolerOn   == <<Need("cooler"), Send("cooler", None, "go")>>
SetControl    == Setting("gain")
SetReadoutMode == Setting("readout")
CameraPulseGuide(v)  == PulseGuide(v)
CameraIsPulseGuiding == IsPulseGuiding
CameraDeviceState    == <<SnapNotAlert("exp"), Active("exposure")>>

(***************************************************************************)
(* The requests of each kind of device.                                     *)
(***************************************************************************)
FocuserRequests ==
  [Move |-> FocuserMove, Halt |-> FocuserHalt, IsMoving |-> FocuserIsMoving,
   DeviceState |-> FocuserDeviceState, Action |-> Action("extra")]
RotatorRequests ==
  [MoveAbsolute |-> RotatorMoveAbsolute, Move |-> RotatorMoveRelative,
   Halt |-> RotatorHalt, IsMoving |-> RotatorIsMoving, SetReverse |-> RotatorSetReverse,
   Sync |-> RotatorSync]
FilterwheelRequests ==
  [SetPosition |-> FilterWheelSetPosition, Moving |-> FilterWheelMoving]
CoverRequests ==
  [ParkCap |-> CoverParkCap, HaltCover |-> HaltCover, CoverState |-> CoverState]
CalibratorRequests ==
  [CalibratorOn |-> CalibratorOn, CalibratorOff |-> CalibratorOff,
   CalibratorState |-> CalibratorState]
DomeRequests ==
  [SlewToAzimuth |-> DomeSlewToAzimuth, Shutter |-> DomeShutter, Park |-> DomePark,
   AbortSlew |-> DomeAbortSlew, Slewing |-> DomeSlewing,
   ShutterStatus |-> DomeShutterStatus, AtPark |-> DomeAtPark, SetSlaved |-> DomeSetSlaved]
CameraRequests ==
  [StartExposure |-> StartExposure, AbortExposure |-> AbortExposure,
   CameraState |-> CameraState, DeviceState |-> CameraDeviceState,
   PulseGuide |-> CameraPulseGuide("guideNS"), IsPulseGuiding |-> CameraIsPulseGuiding,
   SetBin |-> SetBin(2), SetUnbinned |-> SetBin(1), SetCoolerOn |-> SetCoolerOn,
   SetControl |-> SetControl, SetReadoutMode |-> SetReadoutMode]
TelescopeRequests ==
  [SlewAsync |-> SlewAsync, SlewSync |-> SlewSync, SlewAltAz |-> SlewAltAz,
   SyncCoords |-> SyncCoords, Slewing |-> TelescopeSlewing,
   AbortSlew |-> TelescopeAbortSlew, Park |-> TelescopePark("PARK"),
   Unpark |-> TelescopePark("UNPARK"), AtPark |-> TelescopeAtPark, FindHome |-> FindHome,
   AtHome |-> AtHome, SetTracking |-> SetTracking, PulseGuideNS |-> PulseGuide("guideNS"),
   PulseGuideWE |-> PulseGuide("guideWE"), IsPulseGuiding |-> IsPulseGuiding,
   SetTrackingRate |-> SetTrackingRate, SetSite |-> SetSite,
   SetSiteElevation |-> SetSiteElevation, SetUTCDate |-> SetUTCDate,
   SetRightAscensionRate |-> SetRightAscensionRate,
   MoveAxis |-> MoveAxis("on"), StopAxis |-> MoveAxis("off"),
   DeviceState |-> TelescopeDeviceState]

Program ==
  [focuser |-> FocuserRequests,
   rotator |-> RotatorRequests,
   filterwheel |-> FilterwheelRequests,
   cover |-> CoverRequests,
   calibrator |-> CalibratorRequests,
   dome |-> DomeRequests,
   camera |-> CameraRequests,
   telescope |-> TelescopeRequests]
=============================================================================
