SPECIFICATION Spec
CONSTANTS
  Clients = {c1, c2}
  Workloads <- MCWorkloads
  MaxExp = 3
  MaxPipe = 2
INVARIANTS NoStaleImage ImageAsAsked
PROPERTIES WindowKeepsOthers ExposureDelivers
CHECK_DEADLOCK FALSE
