SPECIFICATION Spec
CONSTANTS
  a = a
  b = b
  c = c
  Macs <- TwoStations
  SlotCount = 2
  PhysicalCount = 2
  PhysicalPort = 2
  Hosted = TRUE
  Reporting = TRUE
  Patched = TRUE
  NoPeer = NoPeer
  NoFrame = NoFrame
  NoItem = NoItem
  Idle = Idle
  QueueMax = 2
  MaxChanges = 2
  MaxTraffic = 0
PROPERTIES EventuallyServed
CHECK_DEADLOCK FALSE
