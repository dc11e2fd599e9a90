SPECIFICATION FairSpec
CONSTANTS
  MaxSaves = 2
  MaxDownloads = 2
  MaxFaults = 1
  MaxStops = 1
CHECK_DEADLOCK FALSE
INVARIANTS
  TypeOK
  NothingOutlivesRun
  KillIsNotBlamed
  CrashSafe
  PublishedIsVerified
PROPERTIES
  PublishedIsOwn
  CancelledEnds
  ImplementsFiles
