SPECIFICATION FairSpec
CONSTANTS
  d1 = d1
  d2 = d2
  d3 = d3
  plain = plain
  special = special
  v = v
  error = error
  null = null
  Deferreds = {d1, d2}
  Class <- MCOneClass
  Root = plain
  HasCanceller = {d2}
  Values = {}
  Errors = {error}
  Null = null
  CanceledError = error
  GenericError = error
  Liberties = {}
  MaxAdds = 1
  MaxPause = 1
  MaxDepth = 2
CHECK_DEADLOCK FALSE
PROPERTIES
  CallsReturn
  Delivered
