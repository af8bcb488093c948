SPECIFICATION Spec
CONSTANTS
  NParas = 2
  MaxCores = 4
INVARIANTS
  TypeOK
  DevSetStays
  StaysWithoutMetadata
  EveryCoreIsServed
  AuthoritiesAreTheNodes
