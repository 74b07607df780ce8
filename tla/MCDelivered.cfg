CONSTANTS
  Tool = {"say"}
  c1 = c1
  s1 = s1
  Call = {c1}
  Stranger = {s1}
  Sessions <- SomeSessions
  Versions = {"listed", "overlong"}
  Allowlist = {"listed"}
  EnvFlaws <- SomeEnvFlaws
  Foreign <- SomeForeign
  NewColumn = {"violation_classes", "role_slot_count"}
  NoRequest = NoRequest
  w1 = w1
  w2 = w2
  Writer = {w1, w2}
  Absent = Absent
  Empty = Empty
  Torn = Torn
  PacingEvents <- SomeEvents
  WatchScreens = {{"working"}, {"working", "approval"}, {}}
  WatchPaths = {"outside"}
  WatchScope = {}
  WatchScoped = TRUE
  WatchEmits = TRUE
  Interval = 1
  AuditInterval = 2
  MaxLate = 1
  MaxRefused = 1
  Poll = 2
  Budget = 3
  MaxRead = 1
  MaxMoves = 3
SPECIFICATION SideSpec
INVARIANT DeliveredIsSubmitted
CHECK_DEADLOCK FALSE
