SPECIFICATION Spec
CONSTANTS
  d1 = d1
  d2 = d2
  d3 = d3
  plain = plain
  special = special
  v = v
  error = error
  null = null
  Deferreds = {d1, d2}
  Class <- MCOneClass
  Root = plain
  HasCanceller = {d2}
  Values = {v}
  Errors = {error}
  Null = null
  CanceledError = error
  GenericError = error
  Liberties = {}
  MaxAdds = 2
  MaxPause = 1
  MaxDepth = 3
INVARIANTS
  FreshResult
CHECK_DEADLOCK FALSE
