------------------------------ MODULE MCMotion ------------------------------
(* Motion with small drivers of every kind. *)
EXTENDS Motion

D(k, vs, rs, n) == [kind |-> k, props |-> vs, reqs |-> rs, n |-> n]
All(k, vs, n)   == D(k, vs, DOMAIN Program[k], n)
MCDrivers ==
  {D("focuser", {"abs"}, {"Move", "IsMoving", "DeviceState"}, 2),
   D("focuser", {"abs", "abort"}, {"Move", "Halt", "IsMoving"}, 1),
   D("focuser", {"extra"}, {"Action"}, 1),
   D("rotator", {"abs", "rel"}, {"Move", "IsMoving"}, 1),
   D("rotator", {"abs"}, {"MoveAbsolute", "Halt", "IsMoving"}, 2),
   All("filterwheel", {"slot"}, 1),
   All("cover", {"cap"}, 1),
   D("calibrator", {"light", "intensity"}, {"CalibratorOn", "CalibratorState"}, 1),
   All("calibrator", {"light"}, 1),
   D("dome", {"az", "park"}, {"SlewToAzimuth"}, 1),
   D("dome", {"az"}, {"SlewToAzimuth", "Slewing"}, 1),
   D("dome", {"park"}, {"Park", "AtPark"}, 2),
   D("dome", {"shutter"}, {"Shutter", "ShutterStatus"}, 2),
   D("dome", {"shutter"}, {"Shutter", "AbortSlew", "Slewing"}, 1),
   D("camera", {"exp"}, {"StartExposure", "AbortExposure", "CameraState"}, 2),
   D("camera", {"exp", "ftype"}, {"StartExposure", "DeviceState"}, 1),
   D("camera", {"guideNS"}, {"PulseGuide", "IsPulseGuiding"}, 1),
   D("telescope", {"eq", "mode"}, {"SlewAsync", "SyncCoords"}, 2),
   D("telescope", {"eq", "align"}, {"SyncCoords"}, 1),
   D("telescope", {"eq"}, {"SlewAsync", "DeviceState"}, 1),
   D("telescope", {"eq"}, {"SlewSync", "AbortSlew", "Slewing"}, 1),
   D("telescope", {"hor"}, {"SlewAltAz", "Slewing"}, 1),
   D("telescope", {"park"}, {"Park", "Unpark", "AtPark"}, 1),
   D("telescope", {"homing"}, {"FindHome", "AtHome"}, 2),
   D("telescope", {"motion"}, {"MoveAxis", "StopAxis", "Slewing"}, 1),
   D("telescope", {"track"}, {"SetTracking"}, 2),
   D("telescope", {"geo", "points", "commit"}, {"SetSite"}, 2),
   D("telescope", {"geo"}, {"SetSite", "SetSiteElevation"}, 1),
   D("telescope", {"rate", "time"}, {"SetTrackingRate", "SetUTCDate"}, 1),
   D("telescope", {"trackRate"}, {"SetRightAscensionRate"}, 1),
   D("rotator", {"reverse", "sync"}, {"SetReverse", "Sync"}, 1),
   D("dome", {"autosync"}, {"SetSlaved"}, 1),
   D("camera", {"bin", "cooler"}, {"SetBin", "SetUnbinned", "SetCoolerOn"}, 1),
   D("camera", {"gain", "readout"}, {"SetControl", "SetReadoutMode"}, 1),
   D("telescope", {"guideNS", "guideWE"}, {"PulseGuideNS", "PulseGuideWE", "IsPulseGuiding"}, 1)}
Symmetry == Permutations(Clients)
=============================================================================
