SPECIFICATION FairSpec
CONSTANTS
  Devices = {d1, d2}
  Wanted = {d1}
  Before = {}
  After = {}
  HoldConnect = FALSE
  Nudgers = {n1}
  Quirks = {}
INVARIANTS UnwantedNeverConnects PhaseFollowsConnection
PROPERTIES CancelledStops DeadChildReplaced SilentDriverIsNudged
CHECK_DEADLOCK FALSE
