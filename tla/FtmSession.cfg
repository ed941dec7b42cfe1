SPECIFICATION FairSpec
CONSTANTS
  APs = {a1, a2}
  Confirm = 2
  EventMax = 3
  MaxMoves = 3
INVARIANTS SessionInv AcceptedIsOwn OneDriverSession
PROPERTIES RangingGoesOn ResetNoticed
CHECK_DEADLOCK FALSE
