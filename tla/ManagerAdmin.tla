---------------------------- MODULE ManagerAdmin ----------------------------
(***************************************************************************)
(* The managers of the panel and how they log in (HandleCreateManager,     *)
(* HandlePatchManager, auth_handlers.go and the table managers).           *)
(*                                                                         *)
(* An HTTP call is at the SQL statement or router command that it makes    *)
(* next (pc); calls take no lock and interleave between any two of them.   *)
(* A manager's id is its place in mgrs: managers are never deleted.        *)
(***************************************************************************)
EXTENDS OwnerRegistry, FiniteSets

CONSTANTS
  Calls,        \* ids of HTTP calls; each is made at most once
  Requests,     \* the requests that may arrive, a subset of Request
  Passwords, Displays,
  BadPassword,  \* a password that ValidPanel refuses
  Titles,       \* titles of certificates
  BadTitle,     \* one of them, which ValidCertTitle refuses
  NoTitle,      \* the empty title
  Absent,       \* a field that the request does not have
  NoRow,        \* no manager was read
  NoRequest,    \* the call has not been made
  NoReply,      \* the call is not answered
  Founders,     \* the possible contents of the table at the start
  Usages,       \* the possible usages at the start
  Accounts,     \* names and comments of the router, for resolve_owner
  MaxQuota,     \* bound: quotas of requests and usage
  MaxManagers,  \* bound: managers
  MaxInFlight,  \* bound: calls served at the same time
  MaxFaults,    \* bound: statements and commands that fail
  MaxChanges    \* bound: changes of the usage

Quotas == 0..MaxQuota
Ids    == 1..MaxManagers

Row == [user : Text, pw : Passwords, name : Displays, slug : Text,
        quota : Quotas, active : BOOLEAN, cert : Titles \union {NoTitle}]

\* The fields of a PATCH: UpdateManager and, apart from it, the certificate.
Setting == [user : Text \union {Absent}, name : Displays \union {Absent},
            quota : Quotas \union {Absent}, active : BOOLEAN \union {Absent},
            pw : Passwords \union {Absent}]

Ops == {"create", "patch", "patchMe", "password", "login"}

\* row: what a create inserts, or a login names (user, pw); id: the manager of
\* the URL or of the token; current: current_password.
Request == [op : Ops, id : Ids, row : Row, set : Setting,
            title : Titles \union {NoTitle, Absent}, current : Passwords]

Steps == {"idle", "done", "listSlugs", "insert", "script", "storeCert", "find",
          "checkUser", "checkQuota", "checkPassword", "readRow", "writeRow",
          "answer", "me", "login"}

Replies == {"ok", "overlap", "taken", "missing", "invalid", "conflict",
            "belowUsage", "wrongPassword", "disabled", "router", "error"}

ASSUME ManagersAssumption ==
  /\ Requests \subseteq Request
  /\ \A q \in Requests :
       q.op # "patch" => /\ q.set.user = Absent /\ q.set.quota = Absent
                         /\ q.set.active = Absent /\ q.set.pw # BadPassword
  /\ BadTitle \in Titles /\ NoTitle \notin Titles /\ BadPassword \in Passwords
  /\ Absent \notin Text \union Displays \union Quotas \union BOOLEAN
                     \union Passwords \union Titles \union {NoTitle}
  /\ NoRow \notin Row /\ NoRequest \notin Request /\ NoReply \notin Replies
  /\ Founders \subseteq Seq(Row)
  /\ \A f \in Founders :
       /\ Len(f) <= MaxManagers
       /\ \A i, j \in DOMAIN f : i # j =>
            /\ ~SameText(f[i].user, f[j].user)
            /\ ~SlugOverlaps(f[i].slug, {f[j].slug})
  /\ Usages \subseteq [Ids -> Quotas]
  /\ \A f \in Founders, u \in Usages, i \in Ids :
       i \in DOMAIN f => u[i] <= f[i].quota
  /\ Accounts \subseteq [name : Text, comment : SUBSET Text]
  /\ {MaxQuota, MaxManagers, MaxInFlight, MaxFaults, MaxChanges} \subseteq Nat

VARIABLES
  mgrs,     \* the table managers, by id
  tokens,   \* the managers that tokens have been signed for
  used,     \* shared-users in use of each manager, as the quota counts them
  pc,       \* the next step of each call
  req, reply,
  target,   \* the manager that a call is about
  row,      \* the manager that a call has read
  listed,   \* the managers whose slugs a create has compared its own with
  saw,      \* history: listed of the create of each manager
  stale,    \* history: calls whose row was written since they read it
  before,   \* history: mgrs when a call began that has been alone since
  moved,    \* history: managers whose usage grew or is not what a patch saw
  faults, changes

calls   == <<pc, req, reply, target, row, listed>>
history == <<saw, stale, before, moved>>
bounds  == <<faults, changes>>
vars    == <<mgrs, tokens, used, calls, history, bounds>>

Slugs(table) == [i \in DOMAIN table |-> table[i].slug]

Served == {c \in Calls : pc[c] \notin {"idle", "done"}}

TypeOK ==
  /\ mgrs \in Seq(Row) /\ Len(mgrs) <= MaxManagers
  /\ tokens \subseteq Ids
  /\ used \in [Ids -> Quotas]
  /\ pc \in [Calls -> Steps]
  /\ req \in [Calls -> Requests \union {NoRequest}]
  /\ reply \in [Calls -> Replies \union {NoReply}]
  /\ target \in [Calls -> Ids \union {0}]
  /\ row \in [Calls -> Row \union {NoRow}]
  /\ listed \in [Calls -> SUBSET Ids]
  /\ saw \in [Ids -> SUBSET Ids]
  /\ stale \subseteq Calls
  /\ before \in [Calls -> Seq(Row) \union {NoRow}]
  /\ moved \subseteq Ids
  /\ faults \in Nat /\ changes \in Nat

----------------------------------------------------------------------------
(* A call and its steps.                                                   *)

\* Mutant of CertStep: the empty title is taken for an absent one.
CertStepKeep(title, other) ==
  IF title \in {Absent, NoTitle, BadTitle} THEN other ELSE "script"
\* What a certificate title makes the handler do: nothing, clear the columns,
\* or run the script and store the title.
CertStep(title, other) ==
  CASE title \in {Absent, BadTitle} -> other
    [] title = NoTitle              -> "storeCert"
    [] OTHER                        -> "script"

\* The checks of a patch are those of the fields it has.
QuotaStep(q) == IF q.set.quota # Absent THEN "checkQuota" ELSE "readRow"
UserStep(q) == IF q.set.user # Absent THEN "checkUser" ELSE QuotaStep(q)

FirstStep(q) ==
  CASE q.op = "create"   -> "listSlugs"
    [] q.op = "patch"    -> "find"
    [] q.op = "patchMe"  -> "readRow"
    [] q.op = "password" -> "checkPassword"
    [] q.op = "login"    -> "login"

\* The step after one that has succeeded.
After(q, step) ==
  CASE step = "listSlugs"     -> "insert"
    [] step = "script"        -> "storeCert"
    [] step = "storeCert"     -> IF q.op = "create" THEN "done" ELSE UserStep(q)
    [] step = "checkUser"     -> QuotaStep(q)
    [] step \in {"checkQuota", "checkPassword"} -> "readRow"
    [] step = "readRow"       -> "writeRow"
    [] step = "writeRow"      -> CASE q.op = "patch"   -> "answer"
                                   [] q.op = "patchMe" -> "me"
                                   [] OTHER            -> "done"
    [] OTHER                  -> "done"

\* The middleware asks for an access token; what it claims is not compared with
\* the table.
Allowed(q) ==
  q.op \in {"patchMe", "password"} => q.id \in tokens

Start(c) ==
  /\ req[c] = NoRequest /\ Cardinality(Served) < MaxInFlight
  /\ \E q \in Requests :
       /\ Allowed(q)
       /\ req' = [req EXCEPT ![c] = q]
       /\ pc' = [pc EXCEPT ![c] = FirstStep(q)]
       /\ target' = [target EXCEPT ![c] = IF q.op = "create" THEN 0 ELSE q.id]
  /\ before' = [d \in Calls |-> IF d = c /\ Served = {} THEN mgrs ELSE NoRow]
  /\ UNCHANGED <<mgrs, tokens, used, reply, row, listed, saw, stale, moved,
                 bounds>>

At(c, step) == pc[c] = step

Answer(c, r) ==
  /\ pc' = [pc EXCEPT ![c] = "done"]
  /\ reply' = [reply EXCEPT ![c] = r]

GoTo(c, step) ==
  IF step = "done" THEN Answer(c, "ok")
                   ELSE pc' = [pc EXCEPT ![c] = step] /\ UNCHANGED reply

Proceed(c) == GoTo(c, After(req[c], pc[c]))

\* A statement fails, for instance as the client has gone, or a command does.
Fail(c, r) ==
  /\ faults < MaxFaults /\ faults' = faults + 1
  /\ Answer(c, r)

\* The table and what goes with it stays as it is.
NoWrite == UNCHANGED <<mgrs, tokens, used, saw, stale, moved, before, req,
                       changes>>

----------------------------------------------------------------------------
(* HandleCreateManager.                                                    *)

\* If the slugs cannot be listed the create goes on without them.
ListSlugs(c) ==
  /\ At(c, "listSlugs")
  /\ \/ /\ SlugOverlaps(req[c].row.slug, {mgrs[i].slug : i \in DOMAIN mgrs})
        /\ Answer(c, "overlap") /\ UNCHANGED <<listed, faults>>
     \/ /\ ~SlugOverlaps(req[c].row.slug, {mgrs[i].slug : i \in DOMAIN mgrs})
        /\ listed' = [listed EXCEPT ![c] = DOMAIN mgrs]
        /\ Proceed(c) /\ UNCHANGED faults
     \/ /\ faults < MaxFaults /\ faults' = faults + 1
        /\ Proceed(c) /\ UNCHANGED listed
  /\ UNCHANGED <<target, row>> /\ NoWrite

UserFree(user, others) == \A i \in others : ~SameText(mgrs[i].user, user)
SlugFree(slug) == \A i \in DOMAIN mgrs : ~SameText(mgrs[i].slug, slug)

NewRow(q) == [q.row EXCEPT !.active = TRUE, !.cert = NoTitle]

\* Every error of the INSERT is answered with SLUG_IN_USE. An invalid title is
\* refused after it.
Insert(c) ==
  LET new  == NewRow(req[c])
      free == /\ UserFree(new.user, DOMAIN mgrs) /\ SlugFree(new.slug)
              /\ new.quota > 0
      id   == Len(mgrs) + 1
      title == IF req[c].title = NoTitle THEN Absent ELSE req[c].title
  IN /\ At(c, "insert")
     /\ \/ /\ free /\ id \in Ids
           /\ mgrs' = Append(mgrs, new)
           /\ target' = [target EXCEPT ![c] = id]
           /\ saw' = [saw EXCEPT ![id] = listed[c]]
           /\ moved' = moved \union {i \in {id} : used[i] > new.quota}
           /\ IF title = BadTitle THEN Answer(c, "invalid")
                                  ELSE GoTo(c, CertStep(title, "done"))
           /\ UNCHANGED <<tokens, used, stale, before, req, bounds>>
        \/ ~free /\ Answer(c, "taken") /\ UNCHANGED <<target, faults>> /\ NoWrite
        \/ Fail(c, "taken") /\ UNCHANGED target /\ NoWrite
     /\ UNCHANGED <<row, listed>>

----------------------------------------------------------------------------
(* The certificate of a manager: Certificates has what the script does.    *)

Script(c) ==
  /\ At(c, "script")
  /\ \/ Proceed(c) /\ UNCHANGED faults
     \/ Fail(c, "router")
  /\ UNCHANGED <<target, row, listed>> /\ NoWrite

WithCert(m, title) == [m EXCEPT !.cert = title]

\* UpdateManagerCert and ClearManagerCert; any error is answered as one of the
\* router.
StoreCert(c) ==
  /\ At(c, "storeCert")
  /\ \/ /\ mgrs' = [mgrs EXCEPT ![target[c]] = WithCert(@, req[c].title)]
        /\ Proceed(c)
        /\ UNCHANGED <<tokens, used, saw, stale, moved, before, req, bounds>>
     \/ Fail(c, "router") /\ NoWrite
  /\ UNCHANGED <<target, row, listed>>

----------------------------------------------------------------------------
(* HandlePatchManager.                                                     *)

\* FindManagerByID; an unchanged title has no effect, a changed one comes
\* before everything else.
Find(c) ==
  LET q == req[c]
      known == q.id \in DOMAIN mgrs
      title == IF q.title = mgrs[q.id].cert THEN Absent ELSE q.title
  IN /\ At(c, "find")
     /\ \/ /\ known /\ title # BadTitle
           /\ row' = [row EXCEPT ![c] = mgrs[q.id]]
           /\ GoTo(c, CertStep(title, UserStep(q))) /\ UNCHANGED faults
        \/ /\ ~known
           /\ Answer(c, "missing") /\ UNCHANGED <<row, faults>>
        \/ /\ known /\ title = BadTitle
           /\ Answer(c, "invalid") /\ UNCHANGED <<row, faults>>
        \/ Fail(c, "error") /\ UNCHANGED row
     /\ UNCHANGED <<target, listed>> /\ NoWrite

\* An empty name is refused before the statement, and after the certificate.
CheckUser(c) ==
  LET user == req[c].set.user
      free == UserFree(user, DOMAIN mgrs \ {target[c]})
  IN /\ At(c, "checkUser")
     /\ \/ user # <<>> /\ free /\ Proceed(c) /\ UNCHANGED faults
        \/ user # <<>> /\ ~free /\ Answer(c, "conflict") /\ UNCHANGED faults
        \/ user # <<>> /\ Fail(c, "error")
        \/ user = <<>> /\ Answer(c, "invalid") /\ UNCHANGED faults
     /\ UNCHANGED <<target, row, listed>> /\ NoWrite

\* Mutant of BelowUsage: compared with the old quota.
BelowOldUsage(quota, i) == quota < used[i] /\ mgrs[i].quota < used[i]
BelowUsage(quota, i) == quota < used[i]

CheckQuota(c) ==
  LET below == BelowUsage(req[c].set.quota, target[c])
  IN /\ At(c, "checkQuota")
     /\ \/ ~below /\ Proceed(c) /\ UNCHANGED faults
        \/ below /\ Answer(c, "belowUsage") /\ UNCHANGED faults
        \/ Fail(c, "router")
     /\ UNCHANGED <<target, row, listed>> /\ NoWrite

----------------------------------------------------------------------------
(* UpdateManager: the row is read and written back as a whole, but for its *)
(* certificate.                                                            *)

Given(new, old) == IF new = Absent THEN old ELSE new

\* Mutant of Merge: two parameters of one type are passed in the wrong order.
MergeSwapped(set, m) ==
  [m EXCEPT !.user = Given(set.user, @), !.name = Given(set.pw, @),
            !.quota = Given(set.quota, @), !.pw = Given(set.name, @),
            !.active = Given(set.active, @)]
Merge(set, m) ==
  [m EXCEPT !.user = Given(set.user, @), !.name = Given(set.name, @),
            !.quota = Given(set.quota, @), !.pw = Given(set.pw, @),
            !.active = Given(set.active, @)]

\* Mutant of Current: the row that the handler found before is taken.
CurrentFound(c) == IF row[c] # NoRow THEN row[c] ELSE mgrs[target[c]]
Current(c) == mgrs[target[c]]

\* The new password of a patch is refused before the statement, and after the
\* certificate and the checks.
ReadRow(c) ==
  LET refused == req[c].set.pw = BadPassword
  IN /\ At(c, "readRow")
     /\ \/ /\ ~refused
           /\ row' = [row EXCEPT ![c] = Current(c)]
           /\ Proceed(c) /\ UNCHANGED faults
        \/ ~refused /\ Fail(c, "error") /\ UNCHANGED row
        \/ refused /\ Answer(c, "invalid") /\ UNCHANGED <<row, faults>>
     /\ UNCHANGED <<target, listed>> /\ NoWrite

\* The calls that will write back what they have read of manager i.
Relying(i) == {d \in Calls : target[d] = i /\ At(d, "writeRow")}

\* The columns are NOT NULL UNIQUE COLLATE NOCASE and CHECK (quota > 0).
Written(c) == WithCert(Merge(req[c].set, row[c]), mgrs[target[c]].cert)

WriteRow(c) ==
  LET i    == target[c]
      new  == Written(c)
      fits == UserFree(new.user, DOMAIN mgrs \ {i}) /\ new.quota > 0
  IN /\ At(c, "writeRow")
     /\ \/ /\ fits
           /\ mgrs' = [mgrs EXCEPT ![i] = new]
           /\ stale' = stale \union (Relying(i) \ {c})
           /\ Proceed(c)
           /\ UNCHANGED <<tokens, used, saw, moved, before, req, bounds>>
        \/ ~fits /\ Answer(c, "error") /\ UNCHANGED faults /\ NoWrite
        \/ Fail(c, "error") /\ NoWrite
     /\ UNCHANGED <<target, row, listed>>

\* HandlePatchManager reads the row again and ignores an error; then m is nil
\* and the handler panics, which the Recoverer answers.
AnswerPatch(c) ==
  /\ At(c, "answer")
  /\ \/ Proceed(c) /\ UNCHANGED faults
     \/ Fail(c, "error")
  /\ UNCHANGED <<target, row, listed>> /\ NoWrite

\* HandlePatchMe ends with HandleMe, which asks the router for the usage.
Me(c) ==
  /\ At(c, "me")
  /\ \/ Proceed(c) /\ UNCHANGED faults
     \/ Fail(c, "error") \/ Fail(c, "router")
  /\ UNCHANGED <<target, row, listed>> /\ NoWrite

----------------------------------------------------------------------------
(* Passwords and tokens (auth_handlers.go, internal/auth).                 *)

Proven(c) == mgrs[target[c]].pw = req[c].current

\* HandleChangePassword; an error of the read is answered like a wrong
\* password.
CheckPassword(c) ==
  /\ At(c, "checkPassword")
  /\ \/ Proven(c) /\ Proceed(c) /\ UNCHANGED faults
     \/ ~Proven(c) /\ Answer(c, "wrongPassword") /\ UNCHANGED faults
     \/ Fail(c, "wrongPassword")
  /\ UNCHANGED <<target, row, listed>> /\ NoWrite

\* HandleLogin: one read of the row by its name. A refresh only signs the same
\* claims again (HandleRefresh), and a token that expires only takes calls away:
\* neither is a step.
Login(c) ==
  LET named == {i \in DOMAIN mgrs : SameText(mgrs[i].user, req[c].row.user)}
  IN /\ At(c, "login")
     /\ \/ \E i \in named :
             /\ mgrs[i].active /\ mgrs[i].pw = req[c].row.pw
             /\ tokens' = tokens \union {i}
             /\ Answer(c, "ok") /\ UNCHANGED faults
        \/ \E i \in named :
             /\ ~mgrs[i].active
             /\ Answer(c, "disabled") /\ UNCHANGED <<tokens, faults>>
        \/ /\ \A i \in named : mgrs[i].active /\ mgrs[i].pw # req[c].row.pw
           /\ Answer(c, "wrongPassword") /\ UNCHANGED <<tokens, faults>>
        \/ Fail(c, "error") /\ UNCHANGED tokens
     /\ UNCHANGED <<mgrs, used, saw, stale, moved, before, req, changes,
                    target, row, listed>>

\* Accounts are created and deleted, profiles begin and expire.
UsageChanges ==
  /\ changes < MaxChanges /\ changes' = changes + 1
  /\ \E i \in DOMAIN mgrs, n \in Quotas :
       /\ n # used[i]
       /\ used' = [used EXCEPT ![i] = n]
       /\ moved' = moved \union {i}
  /\ UNCHANGED <<mgrs, tokens, calls, saw, stale, before, faults>>

----------------------------------------------------------------------------
Init ==
  /\ mgrs \in Founders
  /\ used \in Usages
  /\ tokens = DOMAIN mgrs
  /\ pc = [c \in Calls |-> "idle"]
  /\ req = [c \in Calls |-> NoRequest]
  /\ reply = [c \in Calls |-> NoReply]
  /\ target = [c \in Calls |-> 0]
  /\ row = [c \in Calls |-> NoRow]
  /\ listed = [c \in Calls |-> {}]
  /\ saw = [i \in Ids |-> {j \in Ids : j < i}]
  /\ stale = {} /\ before = [c \in Calls |-> NoRow] /\ moved = {}
  /\ faults = 0 /\ changes = 0

Serve(c) ==
  \/ ListSlugs(c) \/ Insert(c) \/ Script(c) \/ StoreCert(c)
  \/ Find(c) \/ CheckUser(c) \/ CheckQuota(c)
  \/ ReadRow(c) \/ WriteRow(c) \/ AnswerPatch(c) \/ Me(c)
  \/ CheckPassword(c) \/ Login(c)

AllAnswered == (\A c \in Calls : reply[c] # NoReply) /\ UNCHANGED vars

Next ==
  \/ \E c \in Calls : Start(c) \/ Serve(c)
  \/ UsageChanges \/ AllAnswered

Spec == Init /\ [][Next]_vars

----------------------------------------------------------------------------
(* Properties.                                                             *)

\* A name has two managers by its pattern only if the later one was created
\* without seeing the other: by two creates at a time, or as the slugs could not
\* be listed (admin_handlers.go, HandleCreateManager).
OwnersUnique ==
  \A a \in Accounts : \A i, j \in ByPattern(Slugs(mgrs), a.name) :
    i < j => i \notin saw[j]

\* An account changes its manager only from one that a comment gave it to the one
\* whose pattern it has, and then the lists of the administrator mark it (owner.go,
\* Resolve and OwnerMismatch; the order of the ids decides between two patterns).
OwnerChangesMarked ==
  [][\A a \in Accounts :
       LET old == Resolve(Slugs(mgrs), a.name, a.comment)
       IN old \notin {0, Resolve(Slugs(mgrs'), a.name, a.comment)} =>
            /\ ByPattern(Slugs(mgrs), a.name) = {}
            /\ OwnerMismatch(Slugs(mgrs'), a.name, a.comment)]_vars

\* The row m with the fields that set has.
Wanted(set, m) ==
  [f \in DOMAIN m |->
     IF f \in DOMAIN set /\ set[f] # Absent THEN set[f] ELSE m[f]]

\* A write of a row changes the fields of its request and no others, unless the
\* row was written between the two statements of UpdateManager (store.go).
UpdateIsAtomic ==
  [][\A c \in Calls \ stale :
       At(c, "writeRow") /\ pc'[c] # pc[c] /\ mgrs' # mgrs =>
         mgrs' = [mgrs EXCEPT ![target[c]] = Wanted(req[c].set, @)]]_vars

\* However patches race, no quota is below the usage unless the usage itself has
\* changed (admin_handlers.go, QUOTA_BELOW_USAGE).
QuotaCoversUsage ==
  \A i \in DOMAIN mgrs : i \notin moved => used[i] <= mgrs[i].quota

\* What an acknowledged call that was alone has made of the table as it was when
\* the call began.
Applied(q, table) ==
  LET cert == IF q.title = Absent THEN table[q.id].cert ELSE q.title
  IN CASE q.op = "create" ->
            Append(table, [q.row EXCEPT !.active = TRUE,
                             !.cert = IF q.title = Absent THEN NoTitle ELSE q.title])
       [] q.op = "patch" ->
            [table EXCEPT ![q.id] = [Wanted(q.set, @) EXCEPT !.cert = cert]]
       [] q.op \in {"patchMe", "password"} ->
            [table EXCEPT ![q.id] = Wanted(q.set, @)]
       [] q.op = "login" -> table

Alone(c) == before[c] # NoRow
Refusals == Replies \ {"ok", "router", "error"}

\* A call that was alone and is acknowledged has done what was asked for, no more
\* and no less; one that is refused has changed nothing, but that the certificate of
\* a patch is changed before its other fields are checked, and that a create with an
\* invalid title leaves the manager (HandlePatchManager, HandleCreateManager,
\* HandlePatchMe, HandleChangePassword).
CallsTakeEffect ==
  [][\A c \in Calls : Alone(c) /\ reply'[c] # reply[c] =>
       LET q == req[c] old == before[c]
       IN /\ reply'[c] = "ok" => mgrs' = Applied(q, old)
          /\ reply'[c] \in Refusals =>
               \/ mgrs' = old
               \/ /\ q.op = "patch" /\ q.title \notin {Absent, BadTitle}
                  /\ mgrs' = [old EXCEPT ![q.id].cert = q.title]
               \/ q.op = "create" /\ q.title = BadTitle /\ reply'[c] = "invalid"]_vars
=============================================================================
