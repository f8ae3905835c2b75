CONSTANTS
  Attrs = {swt}
  Values = {0, 1}
  NoAttr = noattr
  InfoAttrs = {noattr}
  Depth = 2
  Tries = 2
  AckPeriods = {1, 2}
  Unheard = unheard
  Lossy = TRUE
  LateAcks = TRUE
  MaxMade = 2
SPECIFICATION Spec
INVARIANTS
  TypeOK
  Informed
