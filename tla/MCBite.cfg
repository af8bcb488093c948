SPECIFICATION Spec
CONSTANTS
  p1 = p1
  p2 = p2
  RC = RC
  AtHead = AtHead
  Paras <- TwoParas
  BiteAt <- OnePinned
  Faults = TRUE
  MaxBlock = 3
INVARIANTS
  TypeOK
  RelayKnowsTheHeads
  OverridesMatchTheState
  ReadyTellsTheBlocks
PROPERTY BiteEnds
