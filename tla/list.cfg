\* DKDeferredList: three deferreds, of which one may end in another.
SPECIFICATION FairSpec
CONSTANTS
  m1 = m1
  m2 = m2
  m3 = m3
  Things = {m1, m2, m3}
  Foreign = {m3}
  Lists <- MCLists
  Values = {v}
  Errors = {e}
  Null = Null
  Pending = Pending
INVARIANTS TypeOK EachOnce Prompt Truthful
PROPERTIES Once Fires
CHECK_DEADLOCK FALSE
