SPECIFICATION FairSpec
CONSTANTS
  MaxCuts = 2
  MaxPresses = 2
INVARIANTS
  TypeOK
  ConfigIsSaved
  LongPressPairs
PROPERTIES
  PairingEnds
  HoldEnds
CHECK_DEADLOCK FALSE
