CONSTANTS
  Callers = {a, b}
  NoCaller = none
SPECIFICATION Spec
INVARIANTS
  SimultaneousRequestsAnswered
CHECK_DEADLOCK FALSE
