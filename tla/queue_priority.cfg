SPECIFICATION Spec
CONSTANTS
  k1 = k1
  k2 = k2
  k3 = k3
  k4 = k4
  k5 = k5
  k6 = k6
  k7 = k7
  o1 = o1
  o2 = o2
  o3 = o3
  null = null
  Keys = {k1, k2, k3, k4, k5, k6, k7}
  Objects = {o1, o2, o3}
  Date <- MCDate
  Selectors = {"compareDates:"}
  Null = null
  MaxCount = 7
SYMMETRY KeySymmetry
INVARIANTS
  KeysAgree
  HeapOrdered
PROPERTIES
  ByPriority
