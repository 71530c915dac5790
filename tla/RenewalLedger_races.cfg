CONSTANTS
  Calls = {g1, g2}
  Accounts = {a1}
  Managers = {m1}
  Requests <- Races
  MaxShared = 2
  MaxInFlight = 2
  MaxTime = 0
  MaxActs = 2
  MaxChanges = 1
  NoManager = NoManager
  NoRow = NoRow
  Absent = Absent
  NoCall = NoCall
SPECIFICATION Spec
SYMMETRY Symmetric
INVARIANTS TypeOK SettledExactly
PROPERTY SettledSharesKept
