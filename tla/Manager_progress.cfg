SPECIFICATION FairSpec
CONSTANTS
  Ids = {v1}
  NoId = NoId
  Clients = {c1}
  Calls = {"Submit", "Delete"}
  TitleWorkers = {t1}
  MaxUnfinished = 1
  TitleAttempts = 1
  MaxRuns = 1
  MaxSeq = 1
  MaxPending = 1
  MaxRestarts = 1
  MaxFaults = 0
  MaxVanish = 0
CHECK_DEADLOCK FALSE
PROPERTIES
  DeletionEnds
  CloseEnds
