SPECIFICATION FairSpec
CONSTANTS
  k1 = k1
  Keys = {k1}
  MaxPress = 2
  StartTicks = 1
  QueueSize = 3
INVARIANTS
  TypeOK
  AwakeRuns
  SleepIsQuiet
PROPERTIES
  SleepsAgain
  PressSeen
  CommandHandled
  MessageIsPress
  ShortXorLong
CHECK_DEADLOCK FALSE
