CONSTANTS
  Calls = {c1, c2, c3}
  u = u
  v = v
  m = m
  t1 = t1
  t2 = t2
  t3 = t3
  i1 = i1
  i2 = i2
  k1 = k1
  k2 = k2
  k3 = k3
  Requests <- SomeRequests
  Names = {u, v, t2}
  Managers = {m}
  Titles = {t1, t2, t3, BadTitle}
  BadTitle = BadTitle
  NoTitle = NoTitle
  NoPass = NoPass
  NoRow = NoRow
  NoFile = NoFile
  NoManager = NoManager
  NoRequest = NoRequest
  NoReply = NoReply
  Owner <- Owners
  Blank = {u, v}
  Ids = {i1, i2}
  Keys = {k1, k2, k3}
  Kept <- PassFiles
  Founders <- SomeFounders
  MaxInFlight = 2
  MaxFaults = 1
SPECIFICATION Spec
SYMMETRY Symmetric
INVARIANTS KeyOpens TitledHasFile TempRemoved NoBlankProfile
