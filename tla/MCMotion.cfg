SPECIFICATION Spec
CONSTANTS
  Clients = {c1, c2}
  Drivers <- MCDrivers
  MaxPend = 1
INVARIANTS MarkerHasCause 
PROPERTIES StoppedMeansStopped UnparkedFirst CommandMeetsItsMode
CHECK_DEADLOCK FALSE
SYMMETRY Symmetry
