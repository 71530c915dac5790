--------------------------- MODULE MCVpnAccounts ---------------------------
(***************************************************************************)
(* Instances of VpnAccounts for TLC: one manager m with the account name a *)
(* of its slug pattern, and the name g of no pattern, which only a comment *)
(* can give to m.                                                          *)
(***************************************************************************)
EXTENDS VpnAccounts, TLC

CONSTANTS m, a, g

SlugPattern == [n \in Names |-> IF n = g THEN NoOwner ELSE m]

Symmetric == Permutations(Calls)

Ceiling3 == [x \in Managers |-> 3]

Req(op, via, n) ==
  [op |-> op, via |-> via, name |-> n, mgr |-> NoOwner, shared |-> 0,
   assign |-> FALSE, disabled |-> "absent"]

Create(n, mgr, s, as) ==
  [Req("create", "name", n) EXCEPT !.mgr = mgr, !.shared = s, !.assign = as,
                                   !.disabled = "no"]
Patch(via, n, mgr, s, d) ==
  [Req("patch", via, n) EXCEPT !.mgr = mgr, !.shared = s, !.disabled = d]

Acct(n, s, d, c, p) ==
  [id |-> n, shared |-> s, disabled |-> d, comment |-> c, profile |-> p]

Nobody == [n \in Names |-> NoAccount]

\* Creation, adoption and deletion of accounts race for one name.
RaceInputs ==
  {Create(a, m, 1, TRUE), Create(a, m, 1, FALSE),
   Req("open", "name", a), Req("assign", "id", a),
   Req("delete", "name", a), Req("delete", "id", a)}
RaceLegacy ==
  {Nobody, [Nobody EXCEPT ![a] = Acct(a, 1, FALSE, NoOwner, "idle")]}

\* Calls of every kind on an account of the manager and on a foreign name that only
\* its comment gives to the manager, for the rules on quota and ownership.
RuleInputs ==
  {Create(a, m, 2, TRUE), Create(a, m, 2, FALSE), Create(g, NoOwner, 1, FALSE),
   Patch("id", a, NoOwner, 3, "yes"), Patch("name", g, m, 2, "absent"),
   Patch("id", g, NoOwner, 1, "no"), Req("assign", "id", g), Req("unassign", "name", g),
   Req("delete", "id", g)}
RuleLegacy ==
  {[Nobody EXCEPT ![g] = Acct(g, 1, FALSE, m, "active")],
   [Nobody EXCEPT ![a] = Acct(a, 1, TRUE, m, "active"),
                  ![g] = Acct(g, 1, FALSE, NoOwner, "idle")]}

\* The panel dies, the router fails and Winbox edits while an account is created,
\* adopted and deleted.
EndInputs ==
  {Create(a, m, 1, TRUE), Create(a, m, 1, FALSE), Req("open", "name", a),
   Req("delete", "name", a)}
=============================================================================
