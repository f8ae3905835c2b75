CONSTANTS
  Filtered = {on5}
  Provisioned = provisioned
  NoEvent = NoEvent
  Depth = 3
  Window = 1
  TickMod = 4
  Preemption = TRUE
SPECIFICATION Spec
INVARIANT ProvisionedTriggered
