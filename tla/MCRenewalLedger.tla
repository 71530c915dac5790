-------------------------- MODULE MCRenewalLedger --------------------------
(***************************************************************************)
(* Instances of RenewalLedger for TLC.                                     *)
(***************************************************************************)
EXTENDS RenewalLedger, TLC

Symmetric == Permutations(Calls)

AnyManager == CHOOSE m \in Managers : TRUE
AnyAccount == CHOOSE n \in Accounts : TRUE
\* Fields that an operation does not read.
AnyRequest == [op |-> "list", account |-> AnyAccount, scope |-> AnyManager,
               filter |-> "unsettled", to |-> MaxTime, through |-> 1, shared |-> 1]

List(filter, to) == [AnyRequest EXCEPT !.filter = filter, !.to = to]
Op(op, n) == [AnyRequest EXCEPT !.op = op, !.account = n, !.shared = MaxShared]
SettleThrough(i, scope) ==
  [AnyRequest EXCEPT !.op = "settle", !.through = i, !.scope = scope]

\* Settlements against healing, recording and everything that happens besides.
Races == {List("unsettled", MaxTime), Op("create", AnyAccount),
          Op("patch", AnyAccount)}
           \union {SettleThrough(i, AnyManager) : i \in 1..MaxActs}

\* One request after the other, of every kind.
Reports == {List(f, t) : f \in {"unsettled", "settled", "all"}, t \in {0, MaxTime}}
             \union {Op(op, n) : op \in {"details", "patch", "assign", "create"},
                                n \in Accounts}
             \union {SettleThrough(i, AnyManager) : i \in 1..MaxActs}
=============================================================================
