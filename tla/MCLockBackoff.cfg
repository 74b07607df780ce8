\* Scaled: 1 tick for the 5 ms first delay, 4 for the 200 ms cap.
CONSTANTS
  backoff = backoff
  fixed = fixed
  impatient = impatient
  Unset = Unset
  Process <- MCProcess
  Options <- MCOptions
  InitialDelay = 1
  MaxDelay = 4
  DefaultBudget = 4
  DefaultAttempts = 3
  DefaultRetry = 1
  MaxLate = 1
  ElapsedCap = 7
SPECIFICATION Spec
INVARIANTS
  RefusalIsEarned
  OverrunBounded
PROPERTIES
  ImplementsRegistryLock
  EveryWaitEnds
