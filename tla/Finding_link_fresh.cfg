SPECIFICATION HSpec
CONSTANTS
  Ids = {v1}
  NoId = NoId
  Requests = {q1}
  LinksPerVideo = 2
  LinkTTL = 2
  MaxRuns = 1
  MaxTokens = 1
  MaxTime = 0
  MaxStops = 0
  MaxLosses = 0
  MaxFaults = 0
CHECK_DEADLOCK FALSE
PROPERTIES
  FreshDownloadInvalidates
