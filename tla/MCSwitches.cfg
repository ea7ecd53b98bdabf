SPECIFICATION Spec
CONSTANTS
  Clients = {c1}
  Props <- MCProps
  Shapes <- MCShapes
  MaxPipe = 1
INVARIANT CommandHitsItsSwitch
PROPERTY ReadsBack
