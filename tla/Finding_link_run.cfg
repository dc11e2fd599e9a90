SPECIFICATION Spec
CONSTANTS
  Ids = {v1}
  NoId = NoId
  Requests = {q1}
  LinksPerVideo = 2
  LinkTTL = 2
  MaxRuns = 2
  MaxTokens = 1
  MaxTime = 0
  MaxStops = 0
  MaxLosses = 0
  MaxFaults = 0
SYMMETRY Symmetry
CHECK_DEADLOCK FALSE
INVARIANTS
  OpensOwnRun
