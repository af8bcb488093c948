SPECIFICATION Spec
CONSTANTS
  p1 = p1
  p2 = p2
  RC = RC
  AtHead = AtHead
  Paras <- TwoParas
  BiteAt <- AllPinned
  Faults = FALSE
  MaxBlock = 2
INVARIANT OverridesMatchTheState
