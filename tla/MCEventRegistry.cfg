CONSTANTS
  p1 = p1
  p2 = p2
  old = old
  done = done
  undated = undated
  Process = {p1, p2}
  Event = {old, done, undated}
  Class <- Classes
  ClassOf <- Classify
  Terminal = "TERMINAL"
  TsOf <- Dates
  Undated = {undated}
  TtlDays <- OneDay
  Instants = {1, 2}
  Summary = Summary
  Corrupt = Corrupt
  NoFile = NoFile
  MaxLines = 4
SPECIFICATION Spec
INVARIANTS
  ReadsAreComplete
  EveryLineAccounted
PROPERTIES
  AppendOnly
  ImplementsRegistryLock
CHECK_DEADLOCK FALSE
