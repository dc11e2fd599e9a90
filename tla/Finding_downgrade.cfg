SPECIFICATION Spec
CONSTANTS
  Ids = {v1}
  NoId = NoId
  Clients = {c1, c2}
  Calls = {"Submit", "Retry", "Delete", "List"}
  TitleWorkers = {}
  MaxUnfinished = 1
  TitleAttempts = 1
  MaxRuns = 1
  MaxSeq = 2
  MaxPending = 1
  MaxRestarts = 0
  MaxFaults = 0
  MaxVanish = 1
SYMMETRY Symmetry
CHECK_DEADLOCK FALSE
PROPERTIES
  DowngradedIsMissing
