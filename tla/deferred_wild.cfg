SPECIFICATION Spec
CONSTANTS
  d1 = d1
  d2 = d2
  d3 = d3
  plain = plain
  special = special
  v = v
  error = error
  null = null
  Deferreds = {d1, d2}
  Class <- MCClass
  Root = plain
  HasCanceller = {d2}
  Values = {}
  Errors = {error}
  Null = null
  CanceledError = error
  GenericError = error
  Liberties = {"reenter", "unbalanced", "reuse", "raise"}
  MaxAdds = 2
  MaxPause = 0
  MaxDepth = 2
INVARIANTS
  OneOutcome
  FinalizedChainEmpty
PROPERTIES
  InOrder
CHECK_DEADLOCK FALSE
