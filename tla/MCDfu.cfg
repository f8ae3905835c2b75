CONSTANTS
  ImageLength = 10
  Header = 1
  Sector = 4
  BankSize = 12
  BufferSize = 4
  Erased = Erased
  Garbage = Garbage
  MaxFaults = 2
  Mtu = 2
  Burst = 3
  Credits = 1
  Newer = "patch"
  NoMsg = NoMsg
  MaxLosses = 1
SPECIFICATION FairSpec
INVARIANTS
  DfuTypeOK
  PrefixWritten
PROPERTIES
  ReadyIsWhole
  OnlyBankErased
  UpdateArrives
CHECK_DEADLOCK FALSE
