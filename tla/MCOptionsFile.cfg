CONSTANTS
  rc = rc
  para = para
  RC = rc
  Paras <- OnePara
  MaxGiven = 3
SPECIFICATION Spec
INVARIANT FileFillsIn
