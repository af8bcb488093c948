SPECIFICATION Spec
CONSTANTS
  NParas = 1
  Offset = 2
  Blocks = 2
  Timeout = 1
  MaxHeight = 2
INVARIANTS
  TypeOK
  FollowerIsCaught
  RelayUpgradedFirst
  UpgradesEnacted
PROPERTY StartupEnds
