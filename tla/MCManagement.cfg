SPECIFICATION Spec
CONSTANTS
  a = a
  b = b
  x = x
  y = y
  z = z
  Names = {a, b}
  Execs = {x}
  NoExec = NoExec
  Buildable = {x}
  Found = {x}
  Modes <- TwoModes
  Drafts <- ProfileDrafts
  Profiles = {p}
  NoProfile = NoProfile
  Missing = Missing
  Broken = Broken
  External = FALSE
  MaxSessions = 1
INVARIANTS ActiveIsEnabled ObserversCurrent LabelMatchesFlags
