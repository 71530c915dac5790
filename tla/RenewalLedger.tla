--------------------------- MODULE RenewalLedger ---------------------------
(***************************************************************************)
(* The renewal ledger: the activations of the table profile_activations,   *)
(* how they are recorded, kept in step with the router, reported and       *)
(* settled (backend/internal/app/renewals_handlers.go,                     *)
(* shared_users_sync.go, vpn_service.go; backend/internal/store/store.go). *)
(*                                                                         *)
(* An action is one SQL statement or one command of the router.  Accounts  *)
(* are rows of vpn_user_meta; the payment, the profile, the texts and the  *)
(* name search of a list are left out, and a page holds the whole list.    *)
(***************************************************************************)
EXTENDS Naturals, FiniteSets

CONSTANTS
  Calls,       \* requests that are served
  Accounts,    \* rows of vpn_user_meta
  Managers,    \* values of manager_id
  Requests,    \* the requests that are made, a subset of Request
  MaxShared,   \* SHARED_USERS_MAX
  MaxInFlight, \* bound: requests served at the same time
  MaxTime,     \* bound of the clock, and no upper date in a filter
  MaxActs,     \* bound of the activations that are recorded
  MaxChanges,  \* bound of the changes that are no request
  NoManager,   \* manager_id IS NULL: an orphan
  NoRow,       \* the row was deleted
  Absent,      \* the account is not on the router
  NoCall

Scopes == Managers \union {NoManager}
\* shared-users of the router; intField reads "unlimited" as 0.
Shares == 0..MaxShared

Activation ==
  [id : Nat, account : Accounts, created : Nat, shared : Nat, settled : BOOLEAN]

\* list: GET /renewals and /admin/renewals; details: GET of an account;
\* settle: POST /admin/renewals/settle-through; patch, assign, create: the
\* requests of an account that change shared-users or add a profile.
Ops == {"list", "details", "settle", "patch", "assign", "create"}

\* Fields that an operation does not have are arbitrary.
Request == [op : Ops, account : Accounts, scope : Scopes,
            filter : {"unsettled", "settled", "all"}, to : 0..MaxTime,
            through : 1..MaxActs, shared : Shares \ {0}]

ASSUME LedgerAssumption ==
  /\ Requests \subseteq Request /\ Requests # {}
  /\ {MaxShared, MaxInFlight, MaxTime, MaxActs, MaxChanges} \subseteq Nat
  /\ NoManager \notin Managers /\ NoRow \notin Scopes
  /\ Absent \notin Nat /\ NoCall \notin Calls

VARIABLES
  now,           \* datetime('now'), in seconds
  shared,        \* the router: shared-users of an account
  owner,         \* manager_id of a row
  acts, nextId,  \* the table and its AUTOINCREMENT
  pc, req, loc,  \* the requests and their local variables
  cuts,          \* history: the settlements that were acknowledged
  moved,         \* history: accounts that have changed their manager
  calm,          \* history: a call that nothing disturbed, see Start
  changes        \* changes so far that are no request

tables  == <<owner, acts, nextId>>
calls   == <<pc, req, loc>>
history == <<cuts, moved, changes>>
vars    == <<now, shared, tables, calls, history, calm>>

\* seen: rows read; items: rows shown; summed: rows whose shared_users are
\* added up in the summary; todo: rows to be healed; value: shared-users to be
\* recorded.
Local == [seen : SUBSET Activation, items : SUBSET Activation,
          summed : SUBSET Activation, todo : SUBSET Activation, value : Nat]
Blank == [seen |-> {}, items |-> {}, summed |-> {}, todo |-> {}, value |-> 0]

Steps == {"idle", "readItems", "readRows", "askRouter", "heal", "readActs",
          "findAct", "checkScope", "settle", "setShared", "sync", "readUser",
          "record", "done", "failed"}
Ended == {"done", "failed"}

NoRequest == CHOOSE q \in Requests : TRUE \* of an idle goroutine

TypeOK ==
  /\ now \in 0..MaxTime
  /\ shared \in [Accounts -> Shares \union {Absent}]
  /\ owner \in [Accounts -> Scopes \union {NoRow}]
  /\ acts \subseteq {a \in Activation : a.shared > 0} /\ nextId \in 1..(MaxActs + 1)
  /\ pc \in [Calls -> Steps]
  /\ req \in [Calls -> Requests]
  /\ loc \in [Calls -> Local]
  /\ cuts \subseteq [scope : Scopes, created : Nat, id : Nat]
  /\ moved \subseteq Accounts
  /\ calm \in Calls \union {NoCall}
  /\ changes \in 0..MaxChanges

InFlight == {g \in Calls : pc[g] \notin {"idle"} \union Ended}

----------------------------------------------------------------------------
(* The order of the ledger and the statements.                             *)

\* created_at < c OR (created_at = c AND id <= i)
Before(a, b) == a.created < b.created \/ (a.created = b.created /\ a.id <= b.id)

\* renewalWhere
InFilter(a, q) ==
  /\ owner[a.account] = q.scope
  /\ q.filter = "settled" => a.settled
  /\ q.filter = "unsettled" => ~a.settled
  /\ a.created <= q.to

\* Mutant of Current: settled activations count as well.
CurrentOfAll(n) ==
  {a \in acts : /\ a.account = n
                /\ \A b \in acts : b.account = n => b.created <= a.created}
\* The unsettled activations of the account n that no unsettled one is newer
\* than: one, unless several were recorded within a second.
Current(n) ==
  {a \in acts : /\ a.account = n /\ ~a.settled
                /\ \A b \in acts : b.account = n /\ ~b.settled
                                     => b.created <= a.created}

\* The same of the rows of a report; any may come first in its order.
Newest(rows, n) ==
  {a \in rows : /\ a.account = n /\ ~a.settled
                /\ \A b \in rows : b.account = n /\ ~b.settled
                                     => b.created <= a.created}

\* Mutant of Latest: all unsettled rows are taken for the current ones.
LatestAll(rows) == {{a \in rows : ~a.settled}}
\* latestUnsettledPerUser, and the first unsettled row of the details.
Latest(rows) ==
  {l \in SUBSET UNION {Newest(rows, n) : n \in Accounts} :
     \A n \in Accounts : Newest(rows, n) # {} =>
       Cardinality({a \in l : a.account = n}) = 1}

\* liveSharedUsers, for the rows that were chosen.
Overlay(a, chosen) ==
  IF a.id \in {b.id : b \in chosen} /\ ~a.settled /\ shared[a.account] # Absent
  THEN [a EXCEPT !.shared = shared[a.account]]
  ELSE a

\* Mutant of Changed: a value that has become smaller is not stored.
Grown(a, b) == a.shared > b.shared
Changed(a, b) == a.shared # b.shared

Shown(rows, chosen) == {Overlay(a, chosen) : a \in rows}
\* Mutant of Summed: the stored values are added up.
SummedStored(rows, chosen) == rows
Summed(rows, chosen) == Shown(rows, chosen)

\* Mutant of Stored: the row is written back as it was read.
StoredRow(a, row) == row
\* UPDATE profile_activations SET shared_users = ? WHERE id = ?
Stored(a, row) == [a EXCEPT !.shared = row.shared]

\* Mutant of Accepted: the table has no CHECK.
AcceptedAlways(value) == TRUE
\* CHECK (shared_users > 0)
Accepted(value) == value > 0

Store(row) ==
  acts' = IF Accepted(row.shared)
          THEN {IF a.id = row.id THEN Stored(a, row) ELSE a : a \in acts}
          ELSE acts

----------------------------------------------------------------------------
(* A request begins and ends.                                              *)

FirstStep(op) ==
  CASE op = "list"    -> "readItems"
    [] op = "details" -> "readActs"
    [] op = "settle"  -> "findAct"
    [] op = "patch"   -> "setShared"
    [] op = "assign"  -> "readUser"
    [] op = "create"  -> "record"

\* A call is calm as long as there is no other, nothing else changes the
\* ledger or the router, and no statement fails.
Start(g) ==
  /\ pc[g] = "idle" /\ Cardinality(InFlight) < MaxInFlight
  /\ \E q \in Requests :
       /\ req' = [req EXCEPT ![g] = q]
       /\ pc' = [pc EXCEPT ![g] = FirstStep(q.op)]
       /\ loc' = [loc EXCEPT ![g].value = IF q.op = "create" THEN q.shared
                                                             ELSE 0]
  /\ calm' = IF InFlight = {} THEN g ELSE NoCall
  /\ UNCHANGED <<now, shared, tables, history>>

Finish(g) ==
  /\ pc[g] \in Ended
  /\ pc' = [pc EXCEPT ![g] = "idle"]
  /\ req' = [req EXCEPT ![g] = NoRequest]
  /\ loc' = [loc EXCEPT ![g] = Blank]
  /\ calm' = IF calm = g THEN NoCall ELSE calm
  /\ UNCHANGED <<now, shared, tables, history>>

Go(g, step) == pc' = [pc EXCEPT ![g] = step] /\ UNCHANGED req

\* A statement or a command fails, which disturbs the call.
Fail(g, step) == Go(g, step) /\ calm' = NoCall

----------------------------------------------------------------------------
(* writeRenewals and buildVPNDetail: reading and healing.                  *)

ReadItems(g) ==
  /\ pc[g] = "readItems"
  /\ \/ /\ loc' = [loc EXCEPT ![g].items = {a \in acts : InFilter(a, req[g])}]
        /\ Go(g, "readRows") /\ UNCHANGED calm
     \/ Fail(g, "failed") /\ UNCHANGED loc
  /\ UNCHANGED <<now, shared, tables, history>>

\* ListRenewalSharedUsersInScope; a list of settled rows needs no router.
ReadRows(g) ==
  LET rows == {a \in acts : InFilter(a, req[g])}
  IN /\ pc[g] = "readRows"
     /\ \/ /\ req[g].filter = "settled"
           /\ loc' = [loc EXCEPT ![g].summed = rows]
           /\ Go(g, "done") /\ UNCHANGED calm
        \/ /\ req[g].filter # "settled"
           /\ loc' = [loc EXCEPT ![g].seen = rows]
           /\ Go(g, "askRouter") /\ UNCHANGED calm
        \/ Fail(g, "failed") /\ UNCHANGED loc
     /\ UNCHANGED <<now, shared, tables, history>>

\* buildVPNDetail; patch and assign answer with it as well.  GetUser may find the
\* account in a cached list when it is gone already.  An error of the list of
\* activations is ignored.
ReadActs(g) ==
  LET rows == {a \in acts : a.account = req[g].account}
  IN /\ pc[g] = "readActs"
     /\ \/ /\ loc' = [loc EXCEPT ![g].seen = rows, ![g].items = rows]
           /\ Go(g, "askRouter") /\ UNCHANGED calm
        \/ Fail(g, "failed") /\ UNCHANGED loc
        \/ Fail(g, "done") /\ UNCHANGED loc
     /\ UNCHANGED <<now, shared, tables, history>>

\* The live values are laid over the rows that are shown and added up; rows that
\* differ are then stored.  Without the router a list fails, and details show
\* what is stored.
AskRouter(g) ==
  /\ pc[g] = "askRouter"
  /\ \/ \E chosen \in Latest(loc[g].seen) :
          LET stale == {a \in chosen : Changed(Overlay(a, chosen), a)}
          IN /\ loc' = [loc EXCEPT
                   ![g].items = Shown(@, chosen),
                   ![g].summed = IF req[g].op = "list"
                                 THEN Summed(loc[g].seen, chosen) ELSE {},
                   ![g].todo = Shown(stale, chosen),
                   ![g].seen = {}]
             /\ Go(g, IF stale = {} THEN "done" ELSE "heal")
             /\ UNCHANGED calm
     \/ /\ Fail(g, IF req[g].op = "list" THEN "failed" ELSE "done")
        /\ loc' = [loc EXCEPT ![g].seen = {}]
  /\ UNCHANGED <<now, shared, tables, history>>

\* UpdateActivationSharedUsers, newest row first; an error is ignored.
Heal(g) ==
  /\ pc[g] = "heal"
  /\ \E row \in loc[g].todo :
       /\ \A other \in loc[g].todo : other.created <= row.created
       /\ loc' = [loc EXCEPT ![g].todo = @ \ {row}]
       /\ LET next == IF loc[g].todo = {row} THEN "done" ELSE "heal"
          IN \/ Store(row) /\ Go(g, next) /\ UNCHANGED calm
             \/ UNCHANGED acts /\ Fail(g, next)
  /\ UNCHANGED <<now, shared, owner, nextId, history>>

----------------------------------------------------------------------------
(* HandleSettleThrough and SettleThrough.                                  *)

FindAct(g) ==
  /\ pc[g] = "findAct"
  /\ \/ \E a \in acts : /\ a.id = req[g].through
                        /\ loc' = [loc EXCEPT ![g].seen = {a}]
                        /\ Go(g, "checkScope") /\ UNCHANGED calm
     \/ Fail(g, "failed") /\ UNCHANGED loc \* also if there is none
  /\ UNCHANGED <<now, shared, tables, history>>

\* The manager of the activation's row, before the update.
CheckScope(g) ==
  /\ pc[g] = "checkScope"
  /\ \/ /\ \A a \in loc[g].seen : owner[a.account] = req[g].scope
        /\ Go(g, "settle") /\ UNCHANGED calm
     \/ Fail(g, "failed") \* also if it is in another scope
  /\ UNCHANGED <<now, shared, tables, loc, history>>

\* Mutant of Covers: all activations of the same second are settled.
CoversSecond(a, scope, through) ==
  owner[a.account] = scope /\ a.created <= through.created
Covers(a, scope, through) == owner[a.account] = scope /\ Before(a, through)

\* The UPDATE selects the rows of the scope itself.
Settle(g) ==
  /\ pc[g] = "settle"
  /\ \E through \in loc[g].seen :
       \/ /\ acts' = {[a EXCEPT !.settled = @ \/ Covers(a, req[g].scope, through)]
                        : a \in acts}
          /\ cuts' = cuts \union {[scope |-> req[g].scope, id |-> through.id,
                                   created |-> through.created]}
          /\ Go(g, "done") /\ UNCHANGED calm
       \/ UNCHANGED <<acts, cuts>> /\ Fail(g, "failed")
  /\ loc' = [loc EXCEPT ![g].seen = {}]
  /\ UNCHANGED <<now, shared, owner, nextId, moved, changes>>

----------------------------------------------------------------------------
(* patchVPNUser, assignVPNProfile and the two creates.                     *)

\* SetUser; a command that fails may have been carried out.
SetShared(g) ==
  LET n == req[g].account
      Set == shared' = [shared EXCEPT ![n] = req[g].shared]
  IN /\ pc[g] = "setShared"
     /\ \/ shared[n] # Absent /\ Set /\ Go(g, "sync") /\ UNCHANGED calm
        \/ shared[n] # Absent /\ Set /\ Fail(g, "failed")
        \/ UNCHANGED shared /\ Fail(g, "failed")
     /\ UNCHANGED <<now, tables, loc, history>>

\* UpdateLatestUnsettledActivationSharedUsers, one statement; an error is
\* ignored.  UpdateVPNMeta may fail after it.
Sync(g) ==
  LET n == req[g].account
      Last(a) == \A b \in Current(n) : Before(b, a)
  IN /\ pc[g] = "sync"
     /\ \/ \E a \in Current(n) :
             Last(a) /\ Store([a EXCEPT !.shared = req[g].shared])
        \/ UNCHANGED acts /\ Current(n) = {}
     /\ \/ Go(g, "readActs") /\ UNCHANGED calm
        \/ Fail(g, "failed")
     /\ UNCHANGED <<now, shared, owner, nextId, loc, history>>

SyncFails(g) ==
  /\ pc[g] = "sync"
  /\ Fail(g, "readActs") \/ Fail(g, "failed")
  /\ UNCHANGED <<now, shared, tables, loc, history>>

\* GetUser, whose value is that of a cached list and so may be any that the
\* account has had, and AddUserProfile, for which the account has to be there.
ReadUser(g) ==
  /\ pc[g] = "readUser"
  /\ \/ /\ shared[req[g].account] # Absent
        /\ \E s \in Shares : loc' = [loc EXCEPT ![g].value = s]
        /\ Go(g, "record") /\ UNCHANGED calm
     \/ Fail(g, "failed") /\ UNCHANGED loc
  /\ UNCHANGED <<now, shared, tables, history>>

\* CreateActivation; the row has to exist, the value to be positive, and an
\* error is ignored.
Record(g) ==
  LET n == req[g].account
      next == IF req[g].op = "assign" THEN "readActs" ELSE "done"
      new == [id |-> nextId, account |-> n, created |-> now,
              shared |-> loc[g].value, settled |-> FALSE]
  IN /\ pc[g] = "record"
     /\ \/ /\ owner[n] # NoRow /\ Accepted(loc[g].value) /\ nextId <= MaxActs
           /\ acts' = acts \union {new} /\ nextId' = nextId + 1
           /\ Go(g, next) /\ UNCHANGED calm
        \/ UNCHANGED <<acts, nextId>> /\ Fail(g, next)
     /\ loc' = [loc EXCEPT ![g].value = 0]
     /\ UNCHANGED <<now, shared, owner, history>>

----------------------------------------------------------------------------
(* What happens besides.                                                   *)

Tick ==
  /\ now < MaxTime /\ now' = now + 1
  /\ UNCHANGED <<shared, tables, calls, history, calm>>

Change == changes < MaxChanges /\ changes' = changes + 1 /\ calm' = NoCall

\* Winbox, or a request that creates or removes the account on the router.
Edit(n) ==
  /\ Change
  /\ \E s \in (Shares \union {Absent}) \ {shared[n]} :
       shared' = [shared EXCEPT ![n] = s]
  /\ UNCHANGED <<now, tables, calls, cuts, moved>>

\* ensureVPNMeta or a patch repairs manager_id.
Move(n) ==
  /\ Change /\ owner[n] # NoRow
  /\ \E m \in Scopes \ {owner[n]} : owner' = [owner EXCEPT ![n] = m]
  /\ moved' = moved \union {n}
  /\ UNCHANGED <<now, shared, acts, nextId, calls, cuts>>

\* DeleteVPNMeta; ON DELETE CASCADE takes the activations.
DeleteRow(n) ==
  /\ Change /\ owner[n] # NoRow
  /\ owner' = [owner EXCEPT ![n] = NoRow]
  /\ acts' = {a \in acts : a.account # n}
  /\ UNCHANGED <<now, shared, nextId, calls, cuts, moved>>

----------------------------------------------------------------------------
Init ==
  /\ now = 0
  /\ shared \in [Accounts -> Shares \ {0}]
  /\ owner \in [Accounts -> Scopes]
  /\ acts = {} /\ nextId = 1
  /\ pc = [g \in Calls |-> "idle"]
  /\ req = [g \in Calls |-> NoRequest]
  /\ loc = [g \in Calls |-> Blank]
  /\ cuts = {} /\ moved = {} /\ calm = NoCall /\ changes = 0

Serve(g) ==
  \/ ReadItems(g) \/ ReadRows(g) \/ ReadActs(g) \/ AskRouter(g) \/ Heal(g)
  \/ FindAct(g) \/ CheckScope(g) \/ Settle(g)
  \/ SetShared(g) \/ Sync(g) \/ SyncFails(g) \/ ReadUser(g) \/ Record(g)

Next ==
  \/ \E g \in Calls : Start(g) \/ Serve(g) \/ Finish(g)
  \/ \E n \in Accounts : Edit(n) \/ Move(n) \/ DeleteRow(n)
  \/ Tick

Spec == Init /\ [][Next]_vars

----------------------------------------------------------------------------
(* Properties.                                                             *)

\* Among accounts that have kept their manager exactly those activations are
\* settled that an acknowledged settle-through of their scope covers, whatever
\* is recorded, healed, patched and deleted meanwhile.
SettledExactly ==
  \A a \in acts : a.account \notin moved =>
    (a.settled <=> \E c \in cuts : c.scope = owner[a.account] /\ Before(a, c))

\* Somebody heals the activation, which was not settled when it was read.
Healed(a) ==
  \E g \in Calls : pc[g] = "heal" /\ \E row \in loc[g].todo :
                                       row.id = a.id /\ ~row.settled

\* A settled activation keeps the shares it was settled with: no patch, report
\* or new activation rewrites it, unless a report that had read it before the
\* settlement heals it after.
SettledSharesKept ==
  [][\A a \in acts, b \in acts' :
       a.id = b.id /\ a.settled /\ ~Healed(a) => b.shared = a.shared]_vars

\* A call that nothing disturbs, and that has no upper date, changes the shares
\* of the newest unsettled activation of an account only: settled and older
\* activations are history.
HistoryKept ==
  [][calm' # NoCall /\ req[calm'].to = MaxTime =>
       \A a \in acts, b \in acts' : a.id = b.id /\ a.shared # b.shared =>
         a \in Current(a.account)]_vars

\* The accounts whose activations a call has compared with the router.
Compared(g) ==
  IF pc[g] # "done" THEN {}
  ELSE CASE req[g].op \in {"details", "patch", "assign"} -> {req[g].account}
         [] req[g].op = "list" /\ req[g].filter # "settled"
              /\ req[g].to = MaxTime ->
                {n \in Accounts : owner[n] = req[g].scope}
         [] OTHER -> {}

\* After a report or the details of an account that nothing disturbed, the
\* newest unsettled activation has the shares the router has.
NewestHealed ==
  calm # NoCall =>
    \A n \in Compared(calm) :
      shared[n] \notin {0, Absent} /\ Current(n) # {} =>
        \E a \in Current(n) : a.shared = shared[n]

\* The summary of such a report adds up the rows it shows, although it reads
\* the rows twice.
ReportAddsUp ==
  calm # NoCall /\ pc[calm] = "done" /\ req[calm].op = "list" =>
    loc[calm].summed = loc[calm].items
=============================================================================
