CONSTANTS
  Calls = {c1, c2, c3}
  m = m
  a = a
  g = g
  Names = {a}
  Managers = {m}
  NoOwner = NoOwner
  NoAccount = NoAccount
  NoList = NoList
  NoId = NoId
  NoInput = NoInput
  NameOwner <- SlugPattern
  Quota <- Ceiling3
  MaxShared = 2
  Inputs <- RaceInputs
  Legacy <- RaceLegacy
  MaxInFlight = 3
  MaxFaults = 1
  MaxCrashes = 0
  MaxEdits = 0
SPECIFICATION Spec
SYMMETRY Symmetric
INVARIANTS LedgerIntact FailedCreateUndone AckedCreateBacked
PROPERTIES RollbackSparesOthers RowsLeaveOnPurpose
