CONSTANTS
  LossLimit = 2
  Configured = "gptp"
  MaxWindows = 2
SPECIFICATION FairSpec
INVARIANTS
  FallbackInv
  RestartNotForgotten
PROPERTIES
  EndpointActedOn
CHECK_DEADLOCK FALSE
