SPECIFICATION Spec
CONSTANTS
  Devices = {d1}
  Wanted = {d1}
  Before = {"PORT"}
  After = {}
  HoldConnect = FALSE
  Nudgers = {n1}
  Quirks = {}
PROPERTY ConnectAfterPresets
CHECK_DEADLOCK FALSE
