CONSTANTS
  Responders = {self, p1, p2}
  Self = self
  NoResponder = none
  GptpInterval = 1
  StandardInterval = 1
  NegotiatedIntervals = {1}
  MaxNow = 2
  MaxRequests = 3
  MaxLinkChanges = 2
  MaxSteps = 1
  MaxResets = 2
  MaxChanges = 2
SYMMETRY Symmetry
SPECIFICATION Spec
INVARIANTS
  CoherentMeasurement RateIsContinuous AverageOneNeighbor
  CapabilityIsEarned LossesAreSound
CHECK_DEADLOCK FALSE
