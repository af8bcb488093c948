CONSTANTS
  rc = rc
  para = para
  noDir = noDir
  RC = rc
  NoDir = noDir
  Paras <- OnePara
  Validators = 4
  Helpers = FALSE
  Reuse = FALSE
  MaxBites = 1
  MaxRuns = 2
SPECIFICATION Spec
PROPERTIES
  TeardownNeverPanics
