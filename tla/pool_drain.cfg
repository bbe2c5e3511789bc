SPECIFICATION Spec
CONSTANTS
  t1 = t1
  t2 = t2
  d1 = d1
  d2 = d2
  d3 = d3
  d4 = d4
  k1 = k1
  k2 = k2
  k3 = k3
  null = null
  Threads = {t1}
  Deferreds = {d1, d2}
  Wrappers = {}
  Keys = {k1, k2}
  Null = null
  Date <- MCDate
  Limits = {1}
  Liberties = {"drain"}
  MaxDepth = 6
SYMMETRY KeySymmetry
PROPERTIES
  Drained
CHECK_DEADLOCK FALSE
