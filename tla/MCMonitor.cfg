CONSTANTS
  alice = alice
  bob = bob
  collator = collator
  noCollator = noCollator
  Nodes = {alice, bob, collator}
  Alice = alice
  Bob = bob
  Collator = collator
  NoCollator = noCollator
  CheckEvery = 1
  BiteHeight = 1
  MaxHeight = 2
SPECIFICATION Spec
INVARIANTS
  TypeOK
  StallCaughtInTwoPeriods
  OneRestartPerCheck
  CollatorFollowsAlice
PROPERTIES
  StopIsHonoured
