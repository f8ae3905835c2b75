CONSTANTS
  Filtered = {on5, off6}
  Provisioned = provisioned
  NoEvent = NoEvent
  Depth = 3
  Window = 2
  TickMod = 6
  Preemption = FALSE
SPECIFICATION Spec
INVARIANTS
  ProvisionedTriggered
PROPERTIES
  RingIsQueue
  RepeatsAreApart
  FilterForgets
