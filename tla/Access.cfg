SPECIFICATION AccessSpec
CONSTANTS
  Passwords = {p1, p2}
  NoPassword = NoPassword
  MaxSessions = 2
  SessionTTL = 2
  MaxTokens = 3
  MaxTime = 4
  MaxStops = 2
  MaxLosses = 1
  MaxFaults = 1
  Clients = {c1, c2}
  TrustedProxies = {x1}
  Unparsable = Unparsable
  Window = 2
  MaxFailures = 2
  MaxAttempts = 3
  MaxLog = 4
SYMMETRY Symmetry
CHECK_DEADLOCK FALSE
INVARIANTS
  AccessTypeOK
  SessionsAreOnDisk
  WithinLimit
  OnlyThisPassword
  WindowBound
  DecidesAsReference
PROPERTIES
  SessionsLast
