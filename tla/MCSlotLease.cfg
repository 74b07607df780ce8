CONSTANTS
  r1 = r1
  r2 = r2
  r3 = r3
  h1 = h1
  h2 = h2
  s1 = s1
  s2 = s2
  Runner = {r1, r2}
  Holder = {h1, h2}
  HolderOf <- OneEach
  NoHolder = NoHolder
  Slot = {s1}
  Orders <- OneSlotOrders
  Ops <- SingleSlotCalls
  Ttl = {1}
  MaxTtl = 1
  Skew = 1
  Drift <- FastSecond
  AllowLists <- NoList
  Presented = {1, 2}
  MaxTime = 2
  MaxToken = 2
SPECIFICATION Spec
INVARIANTS
  FenceSeparatesHolders
PROPERTIES
  NoEarlyTakeover
  ImplementsFencedLease
CHECK_DEADLOCK FALSE
