\* A connection, a thread and a location on one run loop.
SPECIFICATION FairSpec
CONSTANTS
  c = c
  w = w
  l = l
  Connections = {c}
  Workers = {w}
  Locations = {l}
  Sources = {c, w, l}
  Liberties = {"late"}
  Null = Null
  MaxDepth = 4
  MaxMade = 2
  MaxUpdates = 2
INVARIANTS TypeOK NoLostWakeup CountExact LocationStops RaisesOnly
PROPERTIES AnsweredWait WaitsEnd
CHECK_DEADLOCK FALSE
