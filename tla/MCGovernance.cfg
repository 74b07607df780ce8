CONSTANTS
  p1 = p1
  p2 = p2
  Process = {p1, p2}
  Objective = {"o1"}
  Finding = {"f1"}
  Offered = {"ATTEMPT_STARTED", "FINDING_OWNED", "FINDING_DELIVERED",
             "FINDING_CLOSED", "TERMINAL_BLOCKED",
             "AUDIT_OPENED", "BREAK_GLASS_RECORDED", "TERMINAL_COMPLETED"}
  Ceiling = 1
  Budget = 3
  MaxEvents = 5
SYMMETRY Symmetry
SPECIFICATION ThemedSpec
INVARIANTS
  BudgetOverrunBounded
  AttemptOverrunBounded
  BlocksAreEarned
  BlockEndsTheChain
  FindingsAreDriven
  ReauditsBreakGlass
  ReceiptsLast
CHECK_DEADLOCK FALSE
