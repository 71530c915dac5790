---------------------------- MODULE VpnAccounts ----------------------------
(***************************************************************************)
(* The VPN account service of the panel (backend/internal/app/vpn_*.go).   *)
(*                                                                         *)
(* A VPN account is kept in two stores with no transaction across them:    *)
(* the User Manager of the router, and the panel's SQLite tables           *)
(* vpn_user_meta (rows) and profile_activations (acts).  Every HTTP call   *)
(* runs in a goroutine of its own and takes no lock, so calls interleave   *)
(* between any two of their router commands and SQL statements.  One       *)
(* action below is one such command or statement, with the branch that     *)
(* the handler takes on its result.  What a handler reads of the router    *)
(* comes through a cache, CachedClient; RouterCache has its fields and its *)
(* clock, here it is what it may still return.                             *)
(*                                                                         *)
(* The ids of accounts, rows and activations are the call that inserted    *)
(* them (a call inserts at most one of each); what exists when the panel   *)
(* starts carries its own name as id.  AUTOINCREMENT never reuses an id,   *)
(* and neither do calls.                                                   *)
(***************************************************************************)
EXTENDS Naturals, FiniteSets, FiniteSetsExt

CONSTANTS
  Calls,        \* ids of HTTP calls; each is made at most once
  Names,        \* names of User Manager accounts
  Managers,     \* managers of the panel
  NoOwner,      \* resolve_owner of an orphan; an absent manager_id
  NameOwner,    \* the manager whose slug pattern prefixes a name, or NoOwner
  Quota,        \* managers.quota
  MaxShared,    \* SHARED_USERS_MAX
  Inputs,       \* the requests that may arrive, a subset of Input
  Legacy,       \* the possible contents of the router at the start
  NoAccount,    \* the name is free on the router
  NoList,       \* nothing is cached
  NoId,         \* no row was looked up
  NoInput,      \* the call has not been made
  MaxInFlight,  \* bound: calls served at the same time
  MaxFaults,    \* bound: commands and statements that fail
  MaxCrashes,   \* bound: crashes of the panel process
  MaxEdits      \* bound: edits made on the router with Winbox

Owners == Managers \union {NoOwner}
Ids    == Calls \union Names

\* A row of /user-manager/user with what matters of its user-profile rows:
\* one of them is active, there are only inactive ones, or there is none.
\* comment is the owner its panel={slug} token names.
Profiles == {"none", "idle", "active"}
Account == [id : Ids, shared : 1..MaxShared, disabled : BOOLEAN,
            comment : Owners, profile : Profiles]
Routers == [Names -> Account \union {NoAccount}]

Row == [id : Ids, name : Names, mgr : Owners]        \* vpn_user_meta
Act == [id : Calls, row : Ids]                       \* profile_activations

Ops == {"create", "open", "patch", "assign", "unassign", "delete"}

\* A request: via tells the /by-name/ routes from the /:id ones, mgr is its
\* manager_id, shared its shared_users (0 if absent), assign its
\* assign_profile.  "open" is a GET of the bundle or of the .ovpn file.
Input == [op : Ops, via : {"name", "id"}, name : Names, mgr : Owners,
          shared : 0..MaxShared, assign : BOOLEAN,
          disabled : {"absent", "yes", "no"}]

\* What the handlers accept: a manager's name is its slug pattern and a local
\* name; an administrator's call without manager_id takes any name.
Admissible(q) ==
  q.op = "create" => /\ q.shared # 0
                     /\ q.mgr \in {NoOwner, NameOwner[q.name]}

\* What a handler waits for: the command or statement it performs next.
Steps == {"idle", "quota", "addUser", "certs", "insertRow", "addProfile",
          "record", "undoUser", "undoRow", "findRow", "adoptRead",
          "adoptInsert", "adoptFind", "patchRead", "patchCheck", "setUser",
          "updateRead", "updateWrite", "assignRead", "removeProfile",
          "checkUser", "removeUser", "deleteRow", "detail", "done"}

Replies == {"none", "ok", "quota", "taken", "refused", "notfound", "error"}

ASSUME ConstantsAssumption ==
  /\ Calls \intersect Names = {}
  /\ IsFiniteSet(Calls) /\ IsFiniteSet(Names)
  /\ NoOwner \notin Managers
  /\ NameOwner \in [Names -> Owners]
  /\ Quota \in [Managers -> Nat]
  /\ {MaxShared, MaxInFlight} \subseteq Nat \ {0}
  /\ {MaxFaults, MaxCrashes, MaxEdits} \subseteq Nat
  /\ NoAccount \notin Account /\ NoId \notin Ids /\ NoInput \notin Input
  /\ NoList \notin Routers \union Profiles
  /\ Inputs \subseteq Input /\ \A q \in Inputs : Admissible(q)
  /\ Legacy \subseteq Routers
  /\ \A f \in Legacy, n \in Names : f[n] # NoAccount => f[n].id = n

VARIABLES
  router,    \* name -> its account on the router
  rows,      \* table vpn_user_meta
  acts,      \* table profile_activations
  pc,        \* call -> its next step
  req,       \* call -> its request
  mem,       \* call -> the local variables of its handler
  reply,     \* call -> the answer it got
  users,     \* the list of accounts that is cached, without their profiles
  profiles,  \* name -> the profiles of its account that are cached
  failedAt,  \* history: call -> the steps of it that failed
  untold,    \* history: a change may be missing from what is cached
  disturbed, \* history: see Disturb and Reads
  faults, crashes, edits   \* how many so far, for the bounds

tables == <<router, rows, acts>>
cache  == <<users, profiles, untold>>
bounds == <<crashes, edits>>
vars   == <<tables, cache, pc, req, mem, reply, failedAt, disturbed, faults, bounds>>

\* row: id of the row the handler works on; owner, shared: what it has read
\* of the account (owner becomes the manager_id to write in UpdateRead);
\* wrote: history, a router write of this handler was acknowledged.
Local == [row : Ids \union {NoId}, owner : Owners, shared : 0..MaxShared,
          wrote : BOOLEAN]
NewLocal == [row |-> NoId, owner |-> NoOwner, shared |-> 0, wrote |-> FALSE]

TypeOK ==
  /\ router \in Routers
  /\ users \in Routers \union {NoList}
  /\ profiles \in [Names -> Profiles \union {NoList}]
  /\ untold \in BOOLEAN /\ disturbed \subseteq Calls
  /\ rows \subseteq Row
  /\ acts \subseteq Act
  /\ pc \in [Calls -> Steps]
  /\ req \in [Calls -> Inputs \union {NoInput}]
  /\ \A r \in Calls : req[r] = NoInput <=> pc[r] = "idle"
  /\ mem \in [Calls -> Local]
  /\ reply \in [Calls -> Replies]
  /\ failedAt \in [Calls -> SUBSET Steps]
  /\ faults \in 0..MaxFaults /\ crashes \in 0..MaxCrashes
  /\ edits \in 0..MaxEdits

----------------------------------------------------------------------------
(* Ownership and quota.                                                    *)

\* owner.Registry.Resolve: the name's pattern wins over the comment's token.
Resolve(n, comment) == IF NameOwner[n] # NoOwner THEN NameOwner[n] ELSE comment

OwnerOf(n) == Resolve(n, router[n].comment)

Present(n) == router[n] # NoAccount

\* quota.UsedForManager of the accounts list: those of m that are enabled and
\* have an active profile.
Counted(list, m) ==
  {n \in Names : /\ list[n] # NoAccount /\ Resolve(n, list[n].comment) = m
                 /\ ~list[n].disabled
                 /\ list[n].profile = "active"}

UsedIn(list, m) == MapThenSumSet(LAMBDA n : list[n].shared, Counted(list, m))
Used(m) == UsedIn(router, m)

NoQuotaCheck(used, quota, new) == TRUE
\* quota.CheckAdd
CheckAdd(used, quota, new) == used + new <= quota

CheckNewAlone(used, quota, old, new) == new <= quota
\* quota.CheckIncrease; used counts old only if the account is enabled, so
\* the difference is written without a subtraction that could go below 0.
CheckIncrease(used, quota, old, new) == used + new <= quota + old

----------------------------------------------------------------------------
(* How a handler moves on.                                                 *)

Go(r, step) ==
  /\ pc' = [pc EXCEPT ![r] = step]
  /\ UNCHANGED reply

Answer(r, code) ==
  /\ pc' = [pc EXCEPT ![r] = "done"]
  /\ reply' = [reply EXCEPT ![r] = code]

\* The command or statement of this step succeeds, or fails.
Works == UNCHANGED <<failedAt, faults>>
Fails(r) ==
  /\ faults < MaxFaults
  /\ faults' = faults + 1
  /\ failedAt' = [failedAt EXCEPT ![r] = @ \union {pc[r]}]

Kept(r) == UNCHANGED <<req, bounds>> /\ UNCHANGED mem

Named(n) == {x \in rows : x.name = n}

InFlight == {r \in Calls : pc[r] \notin {"idle", "done"}}

\* History: the calls under way whose account or row a step of somebody else has
\* changed, or during which it has raised the sum of some manager; by: whose step.
Disturb(by) ==
  disturbed' = disturbed \union
    {k \in InFlight \ by :
       \/ router'[req[k].name] # router[req[k].name]
       \/ \E x \in (rows \ rows') \union (rows' \ rows) : x.name = req[k].name
       \/ \E m \in Managers : UsedIn(router', m) > Used(m)}

----------------------------------------------------------------------------
(* The cache.                                                              *)

\* What the router answers, now.
UsersNow == [n \in Names |-> IF Present(n) THEN [router[n] EXCEPT !.profile = "none"]
                                          ELSE NoAccount]
ProfilesNow(n) == IF Present(n) THEN router[n].profile ELSE "none"

\* ListUsers and ListUserProfiles: what is cached, or if there is nothing or it is
\* too old, what the router answers.
UsersRead == {UsersNow} \union ({users} \ {NoList})
ProfilesRead(n) == {ProfilesNow(n)} \union ({profiles[n]} \ {NoList})

\* The results of GetUser.
GetUser(n) == {u[n] : u \in UsersRead}

\* The accounts and their profiles that managerUsedQuota may put together.
Listed(u, p) == [n \in Names |-> IF u[n] = NoAccount THEN NoAccount
                                                ELSE [u[n] EXCEPT !.profile = p[n]]]
AllProfilesRead == {p \in [Names -> Profiles] : \A n \in Names : p[n] \in ProfilesRead(n)}

\* A list is read; disturbed has the calls that a change is perhaps kept from.
Reads(r) ==
  /\ UNCHANGED <<tables, cache>>
  /\ disturbed' = IF untold THEN disturbed \union {r} ELSE disturbed

\* Somebody, a call or a page that lists accounts, reads from the router, and what
\* was read is cached.
Fill ==
  /\ \/ users' = UsersNow /\ UNCHANGED profiles
     \/ /\ \E n \in Names : profiles' = [profiles EXCEPT ![n] = ProfilesNow(n)]
        /\ UNCHANGED users
  /\ UNCHANGED <<tables, untold, pc, req, mem, reply, failedAt, disturbed, faults,
                 bounds>>

NoProfiles == [n \in Names |-> NoList]

\* Mutant of Dropped: the profiles stay.
DroppedUsers == users' = NoList /\ UNCHANGED profiles
\* InvalidateCache.
Dropped == users' = NoList /\ profiles' = NoProfiles

\* A list that somebody has read before the write is stored after it.
StoredLate ==
  \/ users' \in UsersRead /\ profiles' = NoProfiles
  \/ \E n \in Names : \E p \in ProfilesRead(n) :
       users' = NoList /\ profiles' = [NoProfiles EXCEPT ![n] = p]

\* A write of the router is acknowledged.
Writes(new) ==
  /\ router' = new
  /\ \/ Dropped /\ untold' = FALSE
     \/ StoredLate /\ untold' = TRUE

\* A write of the router fails: it was refused, or it was carried out and the reply
\* was lost (timeout, connection reset).  The cache stays.
FailedWrite(r, new) ==
  /\ Fails(r)
  /\ router' \in {router, new}
  /\ untold' = (untold \/ router' # router)
  /\ UNCHANGED <<users, profiles>>

NoWrite == UNCHANGED <<router, cache>>

----------------------------------------------------------------------------
(* A call arrives.                                                         *)

FirstStep(q) ==
  CASE q.op = "create" -> IF q.mgr = NoOwner THEN "addUser" ELSE "quota"
    [] q.op = "delete" /\ q.via = "name" -> "checkUser"
    [] OTHER -> "findRow"

Start(r) ==
  /\ pc[r] = "idle"
  /\ Cardinality(InFlight) < MaxInFlight
  /\ \E q \in Inputs : /\ req' = [req EXCEPT ![r] = q]
                       /\ pc' = [pc EXCEPT ![r] = FirstStep(q)]
  /\ UNCHANGED <<tables, cache, mem, reply, failedAt, disturbed, faults, bounds>>

----------------------------------------------------------------------------
(* createVPNUser and createOrphanVPNUser.                                  *)

\* managerUsedQuota and quota.CheckAdd; without assign nothing is compared,
\* but the lists are read all the same.
CheckQuota(r) ==
  LET q == req[r]
      fits(u, p) == q.assign => CheckAdd(UsedIn(Listed(u, p), q.mgr), Quota[q.mgr], q.shared)
  IN /\ pc[r] = "quota"
     /\ \/ \E u \in UsersRead, p \in AllProfilesRead :
             /\ Works
             /\ \/ fits(u, p) /\ Go(r, "addUser")
                \/ ~fits(u, p) /\ Answer(r, "quota")
        \/ Fails(r) /\ Answer(r, "error")
     /\ Reads(r) /\ Kept(r)

NewAccount(r) ==
  [id |-> r, shared |-> req[r].shared, disabled |-> req[r].disabled = "yes",
   comment |-> req[r].mgr, profile |-> "none"]

\* Mutant of OnNameTaken: the rollback runs for an account of another call.
UndoOnNameTaken(r) == Go(r, "undoUser")
\* The name is taken: there is nothing to undo.
OnNameTaken(r) == Answer(r, "taken")

\* MT.AddUser; the router keeps names unique.
AddUser(r) ==
  LET n == req[r].name
      with == [router EXCEPT ![n] = NewAccount(r)]
  IN /\ pc[r] = "addUser"
     /\ \/ /\ Present(n)
           /\ Works /\ OnNameTaken(r)
           /\ NoWrite /\ UNCHANGED mem
        \/ /\ ~Present(n)
           /\ Writes(with)
           /\ mem' = [mem EXCEPT ![r].wrote = TRUE]
           /\ Works /\ Go(r, "certs")
        \/ /\ FailedWrite(r, IF Present(n) THEN router ELSE with)
           /\ Answer(r, "error")
           /\ UNCHANGED mem
     /\ UNCHANGED <<rows, acts, req, bounds>> /\ Disturb({r})

\* setupVPNCertificates; on any error the account is taken back.
SetupCerts(r) ==
  /\ pc[r] = "certs"
  /\ \/ Works /\ Go(r, "insertRow")
     \/ Fails(r) /\ Go(r, "undoUser")
  /\ UNCHANGED <<tables, cache, disturbed>> /\ Kept(r)

NewRow(r, owner) == [id |-> r, name |-> req[r].name, mgr |-> owner]

\* UNIQUE(mikrotik_name) of vpn_user_meta.
NameFree(n) == Named(n) = {}

\* Mutant of OnInsertRefused: the account is left on the router.
ReportInsertRefused(r) == Answer(r, "error")
\* CreateVPNMeta failed: the account is taken back.
OnInsertRefused(r) == Go(r, "undoUser")

\* Store.CreateVPNMeta of the two create handlers.
InsertRow(r) ==
  /\ pc[r] = "insertRow"
  /\ \/ /\ NameFree(req[r].name)
        /\ rows' = rows \union {NewRow(r, req[r].mgr)}
        /\ mem' = [mem EXCEPT ![r].row = r]
        /\ Works
        /\ IF req[r].assign THEN Go(r, "addProfile") ELSE Answer(r, "ok")
     \/ /\ \/ ~NameFree(req[r].name) /\ Works
           \/ Fails(r)
        /\ OnInsertRefused(r)
        /\ UNCHANGED <<rows, mem>>
  /\ NoWrite /\ UNCHANGED <<acts, req, bounds>> /\ Disturb({r})

\* A profile could not be assigned: create takes back what it made, assign
\* only reports the error.
OnProfileRefused(r) ==
  IF req[r].op = "create" THEN Go(r, "undoUser") ELSE Answer(r, "error")

\* MT.AddUserProfile, of create and of assign; the new profile is active.
\* Its quota is not checked here.
AddProfile(r) ==
  LET n == req[r].name
      with == [router EXCEPT ![n].profile = "active"]
  IN /\ pc[r] = "addProfile"
     /\ \/ /\ Present(n)
           /\ Writes(with)
           /\ Works /\ Go(r, "record")
        \/ /\ \/ ~Present(n) /\ Works /\ NoWrite
              \/ FailedWrite(r, IF Present(n) THEN with ELSE router)
           /\ OnProfileRefused(r)
     /\ UNCHANGED <<rows, acts>> /\ Kept(r) /\ Disturb({r})

\* Mutant of RowExists: foreign keys are off.
AnyRow(i) == i \in Ids
\* The foreign key of profile_activations on vpn_user_meta.
RowExists(i) == \E x \in rows : x.id = i

\* recordActivation; both handlers ignore its error.
Record(r) ==
  /\ pc[r] = "record"
  /\ \/ /\ RowExists(mem[r].row)
        /\ acts' = acts \union {[id |-> r, row |-> mem[r].row]}
        /\ Works
     \/ /\ \/ ~RowExists(mem[r].row) /\ Works
           \/ Fails(r)
        /\ UNCHANGED acts
  /\ IF req[r].op = "create" THEN Answer(r, "ok") ELSE Go(r, "detail")
  /\ UNCHANGED <<router, rows, cache, disturbed>> /\ Kept(r)

\* The rollback of a create: RemoveUser by name, then DeleteVPNMeta if the
\* row had been inserted.  The errors of both are only logged.
UndoUser(r) ==
  LET without == [router EXCEPT ![req[r].name] = NoAccount]
  IN /\ pc[r] = "undoUser"
     /\ \/ Present(req[r].name) /\ Works /\ Writes(without)
        \/ ~Present(req[r].name) /\ Works /\ NoWrite
        \/ FailedWrite(r, without)
     /\ IF mem[r].row = NoId THEN Answer(r, "error") ELSE Go(r, "undoRow")
     /\ UNCHANGED <<rows, acts>> /\ Kept(r) /\ Disturb({r})

\* Mutant of DeleteRowOf: DELETE by name instead of by id.
DeleteRowNamed(r) ==
  /\ rows' = {x \in rows : x.name # req[r].name}
  /\ acts' = {a \in acts : \A x \in Named(req[r].name) : a.row # x.id}
\* Store.DeleteVPNMeta; ON DELETE CASCADE takes the activations along.
DeleteRowOf(r) ==
  /\ rows' = {x \in rows : x.id # mem[r].row}
  /\ acts' = {a \in acts : a.row # mem[r].row}

UndoRow(r) ==
  /\ pc[r] = "undoRow"
  /\ \/ Works /\ DeleteRowOf(r)
     \/ Fails(r) /\ UNCHANGED <<rows, acts>>
  /\ Answer(r, "error")
  /\ NoWrite /\ Kept(r) /\ Disturb({r})

----------------------------------------------------------------------------
(* The row of the account: vpnMetaByID, FindVPNMetaByName, ensureVPNMeta.  *)

\* Mutant of StepWithRow: with a row, delete leaves the account alone.
StepRowOnly(q) ==
  CASE q.op = "patch"    -> "patchRead"
    [] q.op = "assign"   -> "assignRead"
    [] q.op = "unassign" -> "removeProfile"
    [] q.op = "delete"   -> "deleteRow"
    [] OTHER             -> "detail"
\* What each handler does once it has the row.
StepWithRow(q) ==
  CASE q.op = "patch"    -> "patchRead"
    [] q.op = "assign"   -> "assignRead"
    [] q.op = "unassign" -> "removeProfile"
    [] q.op = "delete"   -> "removeUser"
    [] OTHER             -> "detail"

\* Store.FindVPNMetaByID / FindVPNMetaByName.  The id of an /:id route may be
\* that of a row which is gone, and its name may have another row by now.
FindRow(r) ==
  LET q == req[r]
  IN /\ pc[r] = "findRow"
     /\ \/ /\ Works
           /\ \E x \in Named(q.name) : mem' = [mem EXCEPT ![r].row = x.id]
           /\ Go(r, StepWithRow(q))
        \/ /\ Named(q.name) = {} \/ q.via = "id"
           /\ Works
           /\ CASE q.via = "id"      -> Answer(r, "notfound")
                [] q.op = "delete"   -> Go(r, "removeUser")
                [] OTHER             -> Go(r, "adoptRead")
           /\ UNCHANGED mem
        \/ Fails(r) /\ Answer(r, "error") /\ UNCHANGED mem
     /\ UNCHANGED <<tables, cache, disturbed, req, bounds>>

\* ensureVPNMeta without a row: MT.GetUser and Resolve.
AdoptRead(r) ==
  LET n == req[r].name
  IN /\ pc[r] = "adoptRead"
     /\ \/ \E a \in GetUser(n) \ {NoAccount} :
             /\ mem' = [mem EXCEPT ![r].owner = Resolve(n, a.comment)]
             /\ Works /\ Go(r, "adoptInsert")
        \/ /\ \/ NoAccount \in GetUser(n) /\ Works
              \/ Fails(r)
           /\ Answer(r, "notfound") /\ UNCHANGED mem
     /\ Reads(r) /\ UNCHANGED <<req, bounds>>

\* ensureVPNMeta: CreateVPNMeta; if that fails the row is looked up again.
AdoptInsert(r) ==
  /\ pc[r] = "adoptInsert"
  /\ \/ /\ NameFree(req[r].name)
        /\ rows' = rows \union {NewRow(r, mem[r].owner)}
        /\ mem' = [mem EXCEPT ![r].row = r]
        /\ Works /\ Go(r, StepWithRow(req[r]))
     \/ /\ \/ ~NameFree(req[r].name) /\ Works
           \/ Fails(r)
        /\ Go(r, "adoptFind") /\ UNCHANGED <<rows, mem>>
  /\ NoWrite /\ UNCHANGED <<acts, req, bounds>> /\ Disturb({r})

AdoptFind(r) ==
  /\ pc[r] = "adoptFind"
  /\ \/ /\ Works
        /\ \E x \in Named(req[r].name) : mem' = [mem EXCEPT ![r].row = x.id]
        /\ Go(r, StepWithRow(req[r]))
     \/ /\ \/ Named(req[r].name) = {} /\ Works
           \/ Fails(r)
        /\ Answer(r, "error") /\ UNCHANGED mem
  /\ UNCHANGED <<tables, cache, disturbed, req, bounds>>

----------------------------------------------------------------------------
(* patchVPNUser.                                                           *)

\* MT.GetUser; the owner and the old shared-users are kept for later.
PatchRead(r) ==
  LET n == req[r].name
  IN /\ pc[r] = "patchRead"
     /\ \/ \E a \in GetUser(n) \ {NoAccount} :
             /\ mem' = [mem EXCEPT ![r].owner = Resolve(n, a.comment),
                                   ![r].shared = a.shared]
             /\ Works /\ Go(r, "patchCheck")
        \/ /\ \/ NoAccount \in GetUser(n) /\ Works
              \/ Fails(r)
           /\ Answer(r, "error") /\ UNCHANGED mem
     /\ Reads(r) /\ UNCHANGED <<req, bounds>>

\* A patch that gives shared_users is compared with the quota if the account
\* has an owner and an active profile (a disabled account too).
RaiseRefused(r, u, p) ==
  LET q == req[r]
      owner == mem[r].owner
  IN /\ q.shared # 0 /\ owner # NoOwner
     /\ p[q.name] = "active"
     /\ ~CheckIncrease(UsedIn(Listed(u, p), owner), Quota[owner], mem[r].shared, q.shared)

\* Mutant of SyncRefused: any manager_id is taken.
SyncAnything(r) == FALSE
\* An administrator's manager_id must name the owner found on the router.
SyncRefused(r) == req[r].mgr # NoOwner /\ req[r].mgr # mem[r].owner

\* The quota and manager_id checks.  An error of managerUsedQuota is
\* reported, but after an error of ListUserProfiles (ignored) the account
\* counts as inactive and the quota check is skipped.
PatchCheck(r) ==
  LET goOn == IF SyncRefused(r) THEN Answer(r, "refused") ELSE Go(r, "setUser")
  IN /\ pc[r] = "patchCheck"
     /\ \/ \E u \in UsersRead, p \in AllProfilesRead :
             /\ Works
             /\ \/ RaiseRefused(r, u, p) /\ Answer(r, "quota")
                \/ ~RaiseRefused(r, u, p) /\ goOn
        \/ /\ req[r].shared # 0 /\ Fails(r)
           /\ \/ mem[r].owner # NoOwner /\ Answer(r, "error")
              \/ goOn
     /\ Reads(r) /\ Kept(r)

\* The account after SetUser.  The owner's panel token is written; for an
\* orphan the comment read before is written back unless it was empty.
Patched(a, q, comment) ==
  [a EXCEPT !.shared   = IF q.shared = 0 THEN @ ELSE q.shared,
            !.disabled = IF q.disabled = "absent" THEN @ ELSE q.disabled = "yes",
            !.comment  = comment]

\* Mutant of CommentsWritten: the token is taken from the request.
CommentAsRequested(r) == {req[r].mgr}
CommentsWritten(r) ==
  IF mem[r].owner # NoOwner THEN {mem[r].owner}
                            ELSE {router[req[r].name].comment, NoOwner}

SetUser(r) ==
  LET n == req[r].name
  IN /\ pc[r] = "setUser"
     /\ \/ /\ Present(n)
           /\ \E c \in CommentsWritten(r) :
                LET with == [router EXCEPT ![n] = Patched(@, req[r], c)]
                IN \/ /\ Writes(with)
                      /\ mem' = [mem EXCEPT ![r].wrote = TRUE]
                      /\ Works /\ Go(r, "updateRead")
                   \/ /\ FailedWrite(r, with)
                      /\ Answer(r, "error") /\ UNCHANGED mem
        \/ /\ ~Present(n)
           /\ Works /\ Answer(r, "error")
           /\ NoWrite /\ UNCHANGED mem
     /\ UNCHANGED <<rows, acts, req, bounds>> /\ Disturb({r})

\* Store.UpdateVPNMeta reads the whole row ...
UpdateRead(r) ==
  /\ pc[r] = "updateRead"
  /\ \/ /\ Works
        /\ \E x \in rows :
             /\ x.id = mem[r].row
             /\ mem' = [mem EXCEPT ![r].owner =
                          IF req[r].mgr = NoOwner THEN x.mgr ELSE req[r].mgr]
        /\ Go(r, "updateWrite")
     \/ /\ \/ ~RowExists(mem[r].row) /\ Works
           \/ Fails(r)
        /\ Answer(r, "error") /\ UNCHANGED mem
  /\ UNCHANGED <<tables, cache, disturbed, req, bounds>>

\* ... and writes it back in a second statement.
UpdateWrite(r) ==
  /\ pc[r] = "updateWrite"
  /\ \/ /\ Works
        /\ rows' = {IF x.id = mem[r].row THEN [x EXCEPT !.mgr = mem[r].owner]
                                         ELSE x : x \in rows}
        /\ Go(r, "detail")
     \/ Fails(r) /\ Answer(r, "error") /\ UNCHANGED rows
  /\ NoWrite /\ UNCHANGED acts /\ Kept(r) /\ Disturb({r})

----------------------------------------------------------------------------
(* assignVPNProfile, removeVPNProfile, deleteVPNUser and the readers.      *)

\* assignVPNProfile: MT.GetUser; an orphan gets no profile.  The rest is
\* AddProfile, Record and Detail.
AssignRead(r) ==
  LET n == req[r].name
  IN /\ pc[r] = "assignRead"
     /\ \/ \E a \in GetUser(n) \ {NoAccount} :
             /\ Works
             /\ \/ Resolve(n, a.comment) # NoOwner /\ Go(r, "addProfile")
                \/ Resolve(n, a.comment) = NoOwner /\ Answer(r, "refused")
        \/ /\ \/ NoAccount \in GetUser(n) /\ Works
              \/ Fails(r)
           /\ Answer(r, "error")
     /\ Reads(r) /\ Kept(r)

\* MT.RemoveUserProfile: the router refuses to remove an active profile;
\* beside an active one there may be inactive ones, which it removes.
RemoveProfile(r) ==
  LET n == req[r].name
      without == [router EXCEPT ![n].profile = "none"]
  IN /\ pc[r] = "removeProfile"
     /\ \/ /\ Present(n) /\ router[n].profile = "idle"
           /\ Writes(without)
           /\ Works /\ Answer(r, "ok")
        \/ /\ Present(n) /\ router[n].profile = "active"
           /\ Works /\ Answer(r, "ok") /\ Writes(router)
        \/ /\ \/ NoWrite /\ Works
              \/ FailedWrite(r, IF Present(n) /\ router[n].profile = "idle"
                                THEN without ELSE router)
           /\ Answer(r, "error")
     /\ UNCHANGED <<rows, acts>> /\ Kept(r) /\ Disturb({r})

\* The by-name delete handlers look at the router first.
CheckUser(r) ==
  /\ pc[r] = "checkUser"
  /\ \/ GetUser(req[r].name) # {NoAccount} /\ Works /\ Go(r, "findRow")
     \/ NoAccount \in GetUser(req[r].name) /\ Works /\ Answer(r, "notfound")
     \/ Fails(r) /\ Answer(r, "notfound")
  /\ Reads(r) /\ Kept(r)

\* MT.RemoveUser by name; with a row its error is ignored.
RemoveUser(r) ==
  LET n == req[r].name
      without == [router EXCEPT ![n] = NoAccount]
  IN /\ pc[r] = "removeUser"
     /\ \/ /\ Present(n)
           /\ Writes(without)
           /\ Works
           /\ IF mem[r].row = NoId THEN Answer(r, "ok") ELSE Go(r, "deleteRow")
        \/ /\ \/ ~Present(n) /\ Works /\ NoWrite
              \/ FailedWrite(r, without)
           /\ IF mem[r].row = NoId THEN Answer(r, "error") ELSE Go(r, "deleteRow")
     /\ UNCHANGED <<rows, acts>> /\ Kept(r) /\ Disturb({r})

\* Store.DeleteVPNMeta of the row looked up before.
DeleteRow(r) ==
  /\ pc[r] = "deleteRow"
  /\ \/ Works /\ DeleteRowOf(r) /\ Answer(r, "ok")
     \/ Fails(r) /\ Answer(r, "error") /\ UNCHANGED <<rows, acts>>
  /\ NoWrite /\ Kept(r) /\ Disturb({r})

\* buildVPNDetail and the bundle: the reads that make up the answer.  A patch
\* reads its row again first.
Detail(r) ==
  /\ pc[r] = "detail"
  /\ \/ \E a \in GetUser(req[r].name) :
          LET complete == /\ a # NoAccount
                          /\ req[r].op = "patch" => RowExists(mem[r].row)
          IN Works /\ Answer(r, IF complete THEN "ok" ELSE "error")
     \/ Fails(r) /\ Answer(r, "error")
  /\ Reads(r) /\ Kept(r)

----------------------------------------------------------------------------
(* The environment.                                                        *)

\* The end-time of the active profile passes.
Expire(n) ==
  /\ Present(n) /\ router[n].profile = "active"
  /\ router' = [router EXCEPT ![n].profile = "idle"]
  /\ UNCHANGED <<rows, acts, cache, pc, req, mem, reply, failedAt, disturbed, faults,
                 bounds>>

\* Somebody removes or edits an account with Winbox.
WinboxEdit(n) ==
  /\ Present(n) /\ edits < MaxEdits
  /\ edits' = edits + 1
  /\ \/ router' = [router EXCEPT ![n] = NoAccount]
     \/ \E c \in Owners : router' = [router EXCEPT ![n].comment = c]
     \/ \E s \in 1..MaxShared : router' = [router EXCEPT ![n].shared = s]
     \/ router' = [router EXCEPT ![n].disabled = ~@]
  /\ untold' = TRUE
  /\ UNCHANGED <<rows, acts, users, profiles, pc, req, mem, reply, failedAt, faults,
                 crashes>>
  /\ Disturb({})

\* The panel process dies; its handlers end without an answer, and nothing is
\* cached any more.
Crash ==
  /\ crashes < MaxCrashes /\ InFlight # {}
  /\ crashes' = crashes + 1
  /\ users' = NoList /\ profiles' = NoProfiles /\ untold' = FALSE
  /\ pc' = [r \in Calls |-> IF r \in InFlight THEN "done" ELSE pc[r]]
  /\ UNCHANGED <<tables, req, mem, reply, failedAt, disturbed, faults, edits>>

\* Every call of the instance has been answered.
AllAnswered == (\A r \in Calls : pc[r] = "done") /\ UNCHANGED vars

----------------------------------------------------------------------------
Init ==
  /\ router \in Legacy
  /\ \E known \in SUBSET {n \in Names : Present(n)} :
       \E mgr \in [known -> Owners] :
         rows = {[id |-> n, name |-> n, mgr |-> mgr[n]] : n \in known}
  /\ acts = {}
  /\ users = NoList /\ profiles = NoProfiles
  /\ untold = FALSE /\ disturbed = {}
  /\ pc = [r \in Calls |-> "idle"]
  /\ req = [r \in Calls |-> NoInput]
  /\ mem = [r \in Calls |-> NewLocal]
  /\ reply = [r \in Calls |-> "none"]
  /\ failedAt = [r \in Calls |-> {}]
  /\ faults = 0 /\ crashes = 0 /\ edits = 0

\* The handler of call r performs its next command or statement.
Serve(r) ==
  \/ CheckQuota(r) \/ AddUser(r) \/ SetupCerts(r) \/ InsertRow(r)
  \/ AddProfile(r) \/ Record(r) \/ UndoUser(r) \/ UndoRow(r)
  \/ FindRow(r) \/ AdoptRead(r) \/ AdoptInsert(r) \/ AdoptFind(r)
  \/ PatchRead(r) \/ PatchCheck(r) \/ SetUser(r)
  \/ UpdateRead(r) \/ UpdateWrite(r)
  \/ AssignRead(r) \/ RemoveProfile(r)
  \/ CheckUser(r) \/ RemoveUser(r) \/ DeleteRow(r) \/ Detail(r)

Next ==
  \/ \E r \in Calls : Start(r) \/ Serve(r)
  \/ \E n \in Names : Expire(n) \/ WinboxEdit(n)
  \/ Fill
  \/ Crash
  \/ AllAnswered

Spec == Init /\ [][Next]_vars

\* Router commands end within their 10 s timeout and statements end, so a
\* handler is never stuck; nothing obliges a call to arrive.
FairSpec == Spec /\ \A r \in Calls : WF_vars(Serve(r))

----------------------------------------------------------------------------
(* Properties.                                                             *)

Answered(r, op) == pc[r] = "done" /\ req[r].op = op
Stepped(r, step) == pc[r] = step /\ pc'[r] # step

\* vpn_user_meta has one row per id and per name, whichever of the create
\* handlers and ensureVPNMeta raced to insert it.
RowsUnique ==
  \A x, y \in rows : x.id = y.id \/ x.name = y.name => x = y

\* The renewal ledger never refers to a row that is gone, although Record
\* runs long after the row was looked up and calls delete rows meanwhile.
LedgerIntact == \A a \in acts : \E x \in rows : x.id = a.row

\* A create that was answered with an error has left nothing behind, neither
\* an account nor a row, unless the reply to its AddUser was lost or a step of
\* its rollback failed.
FailedCreateUndone ==
  \A r \in Calls : Answered(r, "create") /\ reply[r] \notin {"ok", "none"} =>
    /\ (\E n \in Names : Present(n) /\ router[n].id = r)
         => failedAt[r] \intersect {"addUser", "undoUser"} # {}
    /\ (\E x \in rows : x.id = r) => "undoRow" \in failedAt[r]

\* A create that was answered with success has its account and its row, and
\* keeps them whatever other calls, crashes and failures do, until a delete
\* call or a Winbox edit is made.
AckedCreateBacked ==
  \A r \in Calls :
    /\ Answered(r, "create") /\ reply[r] = "ok"
    /\ edits = 0 /\ \A d \in Calls : req[d] # NoInput => req[d].op # "delete"
    => /\ Present(req[r].name) /\ router[req[r].name].id = r
       /\ \E x \in rows : x.id = r /\ x.name = req[r].name

SparesOthers(r) ==
  \A n \in Names :
    Stepped(r, "undoUser") /\ Present(n) /\ router'[n] = NoAccount =>
      /\ mem[r].wrote
      /\ \/ router[n].id = r
         \/ \A k \in Names : Present(k) => router[k].id # r

\* The rollback of a create removes an account by name.  It takes the account
\* of another call only if its own, which the router had acknowledged, was
\* removed by somebody else in between; in particular a create that found the
\* name taken removes nothing.
RollbackSparesOthers == [][\A r \in Calls : SparesOthers(r)]_vars

LeavesOnPurpose(x) ==
  (\A y \in rows' : y.id # x.id) =>
    \E r \in Calls : \/ Stepped(r, "undoRow") /\ x.id = r
                     \/ Stepped(r, "deleteRow") /\ x.id = mem[r].row

\* A row disappears only in the rollback of the call that inserted it or in a
\* delete that had looked up this very row: a row inserted anew under the same
\* name is not taken by a delete or a rollback that is still under way.
RowsLeaveOnPurpose == [][\A x \in rows : LeavesOnPurpose(x)]_vars

WithinQuota(m) == Used(m)' > Used(m) => Used(m)' <= Quota[m]

\* A manager's create with a profile does not take the sum of shared-users of
\* the manager's active accounts above the quota (docs/business-rules.md, the
\* table of quota conditions), although its check reads lists that may be old and
\* the profile comes three steps later; unless in between another call has changed
\* the account or raised a sum, or the lists lacked a change the cache was not told
\* of.
CreateWithinQuota ==
  [][\A r \in Calls \ disturbed : Stepped(r, "addProfile") /\ req[r].op = "create"
       => \A m \in Managers : req[r].mgr = m => WithinQuota(m)]_vars

RaiseStep(r) ==
  Stepped(r, "setUser") /\ req[r].shared # 0 /\ "patchCheck" \notin failedAt[r]

\* A patch that raises shared-users and does not enable the account does not
\* take the sum above the quota, with the same exceptions.
RaiseWithinQuota ==
  [][\A r \in Calls \ disturbed : RaiseStep(r) /\ req[r].disabled # "no"
       => \A m \in Managers : WithinQuota(m)]_vars

\* The panel brings no row out of step whose manager_id agrees with the router,
\* however many calls there are, but by a patch whose account or row another call
\* has changed, or whose lists lacked a change; an administrator's manager_id can
\* only repair a row.
RowsStayInStep ==
  [][\A x \in rows, y \in rows' :
       /\ edits' = edits /\ x.id = y.id
       /\ Present(x.name) /\ x.mgr = OwnerOf(x.name) /\ Present(x.name)'
       => \/ y.mgr = OwnerOf(x.name)'
          \/ \E r \in disturbed : \/ Stepped(r, "setUser")
                                   \/ Stepped(r, "updateWrite")]_vars

\* A patch never moves an account to another owner: the panel token that it
\* writes is that of the owner it has read, and as long as nobody edits or
\* deletes accounts, this is still the owner when the comment is written.
PatchKeepsOwner ==
  [][\A r \in Calls :
       /\ Stepped(r, "setUser") /\ edits = 0
       /\ \A d \in Calls : req[d] # NoInput => req[d].op # "delete"
       /\ Present(req[r].name)
       => OwnerOf(req[r].name)' = OwnerOf(req[r].name)]_vars

\* After a delete answered with success, the account that was there when the
\* panel started is gone for good from the router, or the router failed in
\* this very call; a late step of another call does not bring it back.
DeletedForGood ==
  \A r \in Calls :
    /\ Answered(r, "delete") /\ reply[r] = "ok" /\ failedAt[r] = {}
    /\ Present(req[r].name)
    => router[req[r].name].id \in Calls

\* An account that a create put on the router does not stay there without a
\* row: the row follows, or the rollback or a delete removes the account;
\* unless the panel died, the reply to its AddUser was lost, or a RemoveUser of
\* its rollback or of a delete failed.
NoStrayAccount ==
  \A n \in Names, r \in Calls :
    []<>(\/ ~Present(n) \/ router[n].id # r
         \/ Named(n) # {}
         \/ crashes # 0 \/ failedAt[r] \intersect {"addUser", "undoUser"} # {}
         \/ \E d \in Calls : "removeUser" \in failedAt[d])
=============================================================================
