CONSTANTS
  rc = rc
  para = para
  noDir = noDir
  RC = rc
  NoDir = noDir
  Paras <- OnePara
  Validators = 2
  Helpers = TRUE
  Reuse = FALSE
  MaxBites = 2
  MaxRuns = 4
  MaxPacks = 1
SPECIFICATION BundleSpec
INVARIANTS
  BundleTypeOK
  RunsOnOneState
  NoArtifactLost
  ReadyHasArtifacts
PROPERTIES
  AckMeansArtifacts
  BiteLeftUntouched
  ContentMovedAside
  TeardownNeverPanics
  UnpackedStepLoads
  DepotSpec
  SignalEndsTheRun
