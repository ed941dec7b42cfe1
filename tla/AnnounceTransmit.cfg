SPECIFICATION FairSpec
CONSTANTS
  Second = 1
  InitialLog = 0
  SlowestLog = 2
  Requests = {1, 2, 60, 126, 127}
  SerialMax = 2
  MaxRequests = 3
  MaxLate = 2
  MaxLost = 1
INVARIANTS PaceInv StationHoldsOn OneFrameOfRetiredSource
PROPERTIES InformationIsSent AnnouncesGoOn
