SPECIFICATION Spec
CONSTANTS
  Ids = {v1}
  NoId = NoId
  Clients = {c1}
  Calls = {"Submit", "Retry", "Delete", "List"}
  TitleWorkers = {}
  MaxUnfinished = 1
  TitleAttempts = 1
  MaxRuns = 3
  MaxSeq = 2
  MaxPending = 1
  MaxRestarts = 1
  MaxFaults = 1
  MaxVanish = 1
SYMMETRY Symmetry
CHECK_DEADLOCK FALSE
INVARIANTS
  CardsAreOnDisk
  RemovedStaysRemoved
  WaitersHaveAnAttempt
  NoneIsStranded
PROPERTIES
  ImplementsLibrary
