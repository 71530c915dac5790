CONSTANTS
  Users = {adm, mgr}
  Admins = {adm}
  Calls = {c1, c2}
  Nobody = Nobody
  MaxPairs = 3
SPECIFICATION FairSpec
INVARIANTS SessionMatches RanAsSender
PROPERTIES SessionKept CallsEnd PanelSettles
