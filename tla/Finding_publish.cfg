SPECIFICATION Spec
CONSTANTS
  Ids = {v1}
  NoId = NoId
  Clients = {c1}
  Calls = {"Submit"}
  TitleWorkers = {}
  MaxUnfinished = 1
  TitleAttempts = 1
  MaxRuns = 1
  MaxSeq = 1
  MaxPending = 1
  MaxRestarts = 0
  MaxFaults = 1
  MaxVanish = 0
SYMMETRY Symmetry
CHECK_DEADLOCK FALSE
INVARIANTS
  SuccessIsPublished
