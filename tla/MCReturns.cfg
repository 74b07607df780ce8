CONSTANTS
  r1 = r1
  r2 = r2
  r3 = r3
  h1 = h1
  h2 = h2
  s1 = s1
  s2 = s2
  Runner = {r1, r2}
  Holder = {h1, h2}
  HolderOf <- OneEach
  NoHolder = NoHolder
  Slot = {s1, s2}
  Orders <- SameOrder
  Ops <- AnyOfAgainstTaker
  Ttl = {1}
  MaxTtl = 1
  Skew = 0
  Drift <- InSync
  AllowLists <- Delisting
  Presented = {1}
  MaxTime = 0
  MaxToken = 2
SPECIFICATION FairSpec
PROPERTIES
  EveryCallReturns
CHECK_DEADLOCK FALSE
