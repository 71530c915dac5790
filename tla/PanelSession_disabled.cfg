CONSTANTS
  Users = {adm, mgr}
  Admins = {adm}
  Calls = {c1}
  Nobody = Nobody
  MaxPairs = 2
SPECIFICATION Spec
INVARIANT DisabledBlocked
