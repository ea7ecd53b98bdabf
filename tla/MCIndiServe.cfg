SPECIFICATION Spec
CONSTANTS
  a = a
  Children = {a}
  Clients = {c1}
  Devices = {"da"}
  Device <- OwnDevice
  BlobChildren = {a}
  Values = {"x", "y"}
  Selections <- OffOrOn
  QueueMessages = 3
INVARIANTS ClientFollowsChild ClientForgetsDead SelectionIsFresh
