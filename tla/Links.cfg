SPECIFICATION Spec
CONSTANTS
  Ids = {v1}
  NoId = NoId
  Requests = {q1, q2}
  LinksPerVideo = 2
  LinkTTL = 1
  MaxRuns = 2
  MaxTokens = 3
  MaxTime = 1
  MaxStops = 1
  MaxLosses = 1
  MaxFaults = 1
SYMMETRY Symmetry
CHECK_DEADLOCK FALSE
INVARIANTS
  TypeOK
  LinksAreOnDisk
  WithinLimit
  RunsAreFresh
PROPERTIES
  RemovedRunsStayClosed
  LinksLast
