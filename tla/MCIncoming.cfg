SPECIFICATION Spec
CONSTANTS
  Menus <- MCMenus
  MaxItems = 3
  MaxMembers = 3
  MaxMsg = 2
  MaxQueue = 3
INVARIANTS NothingLeaks BlobIsItsOwn
PROPERTIES ImplementsElementStream
CHECK_DEADLOCK FALSE
