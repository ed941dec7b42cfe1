CONSTANTS
  Ports = {0, 1}
  Callbacks = {rx, ie}
  Payloads = {x}
  Depth = 2
  NoFrame = none
  MaxGeneration = 3
SPECIFICATION Spec
PROPERTIES
  ImplementsChannel
  PeriodicWorkGoesOn
CHECK_DEADLOCK FALSE
