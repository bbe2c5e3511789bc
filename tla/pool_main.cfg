SPECIFICATION FairSpec
CONSTANTS
  t1 = t1
  t2 = t2
  d1 = d1
  d2 = d2
  d3 = d3
  d4 = d4
  k1 = k1
  k2 = k2
  k3 = k3
  null = null
  Threads = {t1}
  Deferreds = {d1, d2, d3}
  Wrappers = {d2}
  Keys = {k1, k2, k3}
  Null = null
  Date <- MCDate
  Limits = {1, 2}
  Liberties = {"duplicate", "drain", "limit"}
  MaxDepth = 6
INVARIANTS TypeOK ActiveHoldsSlot SlotIsFreed NoSelfDeadlock
PROPERTIES Served
CHECK_DEADLOCK FALSE
