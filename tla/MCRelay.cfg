CONSTANTS
  Switches = {sw1, sw2}
  WaitTicks = 2
SPECIFICATION FairSpec
INVARIANTS
  PulseHasTimer
  CoilIsWanted
  ContactIsStatus
PROPERTIES
  PulseEnds
  HoldLetGo
