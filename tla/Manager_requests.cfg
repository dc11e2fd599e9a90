SPECIFICATION Spec
CONSTANTS
  Ids = {v1}
  NoId = NoId
  Clients = {c1, c2}
  Calls = {"Submit", "Retry", "Delete", "List"}
  TitleWorkers = {t1}
  MaxUnfinished = 1
  TitleAttempts = 2
  MaxRuns = 1
  MaxSeq = 2
  MaxPending = 1
  MaxRestarts = 0
  MaxFaults = 0
  MaxVanish = 1
SYMMETRY Symmetry
CHECK_DEADLOCK FALSE
INVARIANTS
  TypeOK
  OwnedIsRegistered
  OneFinalizer
  SettledMatchesDisk
  NoSleepOverWork
PROPERTIES
  ReadyLeavesThroughFailed
