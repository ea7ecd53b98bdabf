SPECIFICATION Spec
CONSTANTS
  a = a
  b = b
  x = x
  y = y
  z = z
  Names = {a}
  Execs = {x, y, z}
  NoExec = NoExec
  Buildable = {x, z}
  Found = {x, y}
  Modes <- TwoModes
  Drafts <- OneEdited
  Profiles = {}
  NoProfile = NoProfile
  Missing = Missing
  Broken = Broken
  External = TRUE
  MaxSessions = 1
INVARIANTS NoCompetingInstance RoutesFollowActive
