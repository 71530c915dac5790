CONSTANTS
  Calls = {g1, g2}
  Names = {n1}
  Ops = {"list", "refresh", "write"}
  TTL = 2
  CmdTime = 1
  MaxInFlight = 2
  MaxTime = 6
  MaxVer = 1
  NoCall = NoCall
  NoList = NoList
  NoAnswer = NoAnswer
  Failed = Failed
  Torn = Torn
SPECIFICATION Spec
SYMMETRY Symmetric
INVARIANTS TypeOK RefreshAlmostLive
PROPERTY ListsAreRecent
