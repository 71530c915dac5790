CONSTANTS
  Procs = {p1, p2}
  x = x
  y = y
  Nobody = Nobody
  NoWork = NoWork
  Users = {x, y}
  Founders <- Found
  Configured = TRUE
  MaxFaults = 2
SPECIFICATION FairSpec
INVARIANT ServesMigrated
PROPERTIES StartsLoseNothing ComesUp
