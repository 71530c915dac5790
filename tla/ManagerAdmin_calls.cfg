CONSTANTS
  Calls = {c1, c2}
  a = a
  A = A
  s = s
  pw1 = pw1
  pw2 = pw2
  d = d
  t1 = t1
  Letters = {a, A, s}
  Sep <- Separator
  Folded <- Fold
  Requests <- AllRequests
  Passwords = {pw1, pw2, BadPassword}
  BadPassword = BadPassword
  Displays = {d}
  Titles = {t1, BadTitle}
  BadTitle = BadTitle
  NoTitle = NoTitle
  Absent = Absent
  NoRow = NoRow
  NoRequest = NoRequest
  NoReply = NoReply
  Founders <- OneOrTwo
  Usages <- SomeUsages
  Accounts <- SomeAccounts
  MaxQuota = 2
  MaxManagers = 3
  MaxInFlight = 2
  MaxFaults = 1
  MaxChanges = 1
SPECIFICATION Spec
SYMMETRY Symmetric
INVARIANTS TypeOK OwnersUnique QuotaCoversUsage
PROPERTIES OwnerChangesMarked UpdateIsAtomic CallsTakeEffect
