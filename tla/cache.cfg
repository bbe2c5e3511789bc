SPECIFICATION Spec
CONSTANTS
  Keys = {k1, k2, k3, k4, k5}
  Threads = {t1, t2}
  MaxEntries = 2
  CullFrequency = 2
  Timeout = 1
  Null = Null
  MaxTime = 1
SYMMETRY Symmetry
INVARIANTS TypeOK Bounded
PROPERTIES KeptUntilExpiry
