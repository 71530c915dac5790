CONSTANTS
  Calls = {g1, g2}
  Names = {n1}
  Ops = {"list", "stats", "profile", "write"}
  TTL = 1
  CmdTime = 1
  MaxInFlight = 2
  MaxTime = 1
  MaxVer = 1
  NoCall = NoCall
  NoList = NoList
  NoAnswer = NoAnswer
  Failed = Failed
  Torn = Torn
\* A stop with a call in flight violates CallsReturn, which says more; the other
\* runs of the module check for deadlock.
CHECK_DEADLOCK FALSE
SPECIFICATION FairSpec
INVARIANT AckedWriteSeen
PROPERTY CallsReturn
