CONSTANTS
  Switches = {sw1}
  WaitTicks = 3
SPECIFICATION Spec
PROPERTY OffAfterOn
