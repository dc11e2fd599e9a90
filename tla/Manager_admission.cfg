SPECIFICATION ServedSpec
CONSTANTS
  Ids = {v1, v2, v3}
  NoId = NoId
  Clients = {c1}
  Calls = {"Submit", "Retry"}
  TitleWorkers = {}
  MaxUnfinished = 2
  TitleAttempts = 1
  MaxRuns = 3
  MaxSeq = 3
  MaxPending = 1
  MaxRestarts = 0
  MaxFaults = 0
  MaxVanish = 0
CHECK_DEADLOCK FALSE
INVARIANTS
  WaitingWithinLimit
PROPERTIES
  QueuedIsServed
