SPECIFICATION FairSpec
CONSTANTS
  Refreshers = {r1, r2}
  Logins = {l1, l2}
  MaxRevs = 2
  MaxMishaps = 2
INVARIANTS
  TypeOK
  PollsOrAsks
PROPERTIES
  ListNeverGoesBack
  CatchesUp
