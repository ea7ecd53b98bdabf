SPECIFICATION FairSpec
CONSTANTS
  Callers = {w1, w2}
  Keys = {k1}
  Chans = {c1, c2, c3}
  NoChan = NoChan
INVARIANTS RegisteredEmpty NoOrphan
PROPERTY WaitReturns
