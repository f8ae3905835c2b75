CONSTANTS
  Attrs = {sw1, sw2}
  Values = {0, 1}
  NoAttr = noattr
  InfoAttrs = {noattr}
  Depth = 2
  Tries = 3
  AckPeriods = {2, 3}
SPECIFICATION FairBufSpec
INVARIANTS
  OneReportPerAttr
PROPERTIES
  PacedSends
  BufferDrains
