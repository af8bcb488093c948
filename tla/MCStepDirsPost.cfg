CONSTANTS
  rc = rc
  para = para
  noDir = noDir
  RC = rc
  NoDir = noDir
  Paras <- NoParas
  Validators = 2
  Helpers = FALSE
  Reuse = FALSE
  MaxBites = 1
  MaxRuns = 2
SPECIFICATION Spec
PROPERTIES
  SignalledArtifactsLoad
