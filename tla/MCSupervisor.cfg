SPECIFICATION Spec
CONSTANTS
  Devices = {d1}
  Wanted = {d1}
  Before = {"PORT"}
  After = {"PORT"}
  HoldConnect = FALSE
  Nudgers = {n1, n2}
  Quirks = {"deldevice", "misfit", "backlog"}
INVARIANTS WriterHasChild ObserverForgetsChild ObserverAgrees DownHasNoData PresetOncePerChild
PROPERTIES ReaderConnectsAfterPresets
CHECK_DEADLOCK FALSE
SYMMETRY NudgerSymmetry
