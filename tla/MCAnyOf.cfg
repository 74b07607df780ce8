CONSTANTS
  r1 = r1
  r2 = r2
  r3 = r3
  h1 = h1
  h2 = h2
  s1 = s1
  s2 = s2
  Runner = {r1, r2}
  Holder = {h1, h2}
  HolderOf <- OneEach
  NoHolder = NoHolder
  Slot = {s1, s2}
  Orders <- BothOrders
  Ops <- AnyOfCalls
  Ttl = {1}
  MaxTtl = 1
  Skew = 0
  Drift <- InSync
  AllowLists <- NoList
  Presented = {1}
  MaxTime = 1
  MaxToken = 2
SPECIFICATION Spec
INVARIANTS
  OneSlotPerHolder
CHECK_DEADLOCK FALSE
