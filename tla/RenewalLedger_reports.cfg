CONSTANTS
  Calls = {g1}
  Accounts = {a1, a2}
  Managers = {m1}
  Requests <- Reports
  MaxShared = 2
  MaxInFlight = 1
  MaxTime = 1
  MaxActs = 2
  MaxChanges = 1
  NoManager = NoManager
  NoRow = NoRow
  Absent = Absent
  NoCall = NoCall
SPECIFICATION Spec
INVARIANTS NewestHealed ReportAddsUp
PROPERTY HistoryKept
