CONSTANTS
  p1 = p1
  p2 = p2
  Process = {p1}
  Objective = {"o1"}
  Finding = {"f1"}
  Offered = {"ATTEMPT_STARTED"}
  Ceiling = 3
  Budget = 25
  MaxEvents = 5
SPECIFICATION ThemedSpec
INVARIANT CeilingHolds
CHECK_DEADLOCK FALSE
