CONSTANTS
  CheckMs = 1
  AliveMs = 12
  GatewayMs = 22
  Wakeups = 3
  FilterMs = 2
  LateMs = 2
  TripMs = 3
  MaxLost = 1
SPECIFICATION Spec
PROPERTIES
  AskedAgain
