SPECIFICATION Spec
CONSTANTS
  a = a
  b = b
  c = c
  Macs <- Stations
  SlotCount = 2
  PhysicalCount = 2
  PhysicalPort = 2
  Hosted = TRUE
  Reporting = TRUE
  Patched = TRUE
  NoPeer = NoPeer
  NoFrame = NoFrame
  NoItem = NoItem
  Idle = Idle
  QueueMax = 2
  MaxChanges = 3
  MaxTraffic = 1
INVARIANTS RegistryInv ReconciledIsRadio LateFrameOnlyInWindow SentToPresentStation
PROPERTIES AssociationsAreNew SurvivorsKeepTheirPort
SYMMETRY StationSymmetry
CHECK_DEADLOCK FALSE
