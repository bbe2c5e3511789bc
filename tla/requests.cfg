\* One connection that the client cancels and that fails afterwards.
SPECIFICATION Spec
CONSTANTS
  c = c
  w = w
  l = l
  Connections = {c}
  Workers = {w}
  Locations = {}
  Sources = {c, w}
  Liberties = {}
  Null = Null
  MaxDepth = 3
  MaxMade = 2
  MaxUpdates = 2
INVARIANT RequestCount
CHECK_DEADLOCK FALSE
