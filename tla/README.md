# TLA+ models of the User Manager panel (Fast-Bypass)

The panel is a Go server with an Angular frontend. It manages the VPN accounts
of a MikroTik router, whose *User Manager* is the source of truth for names,
passwords, limits, validity and ownership, and keeps panel data (contact, the
renewal ledger, managers) in SQLite. This directory models the parts of it that
keep state, checks them on small instances with TLC, and proves what matters
most about them with TLAPS.

## 1. Inventory

Paths are relative to `src/backend/internal/`, unless they begin with `src/`.

| Component | State | Operations | Talks to |
|---|---|---|---|
| VPN account service (`app/vpn_*.go`, part of `app/admin_handlers.go`) | none of its own; local variables of each handler | create (of a manager, of an orphan), adopt, patch, assign and remove a profile, delete, bundle and .ovpn, by row id and by account name | router (through the cache), tables `vpn_user_meta` and `profile_activations`, owner, quota, certificates |
| Owner resolution (`owner`) | none | `Resolve` (slug pattern before comment token), `SlugOverlaps`, `CommentForOwner` | reads the table `managers` |
| Quota (`quota`) | none | `UsedForManager`, `CheckAdd`, `CheckIncrease`, `AggregateByOwner` | the account and profile lists of the router |
| RouterOS client (`mikrotik/routeros.go`) | one API connection behind a mutex | user and profile commands, files, script | the router |
| Router cache (`mikrotik/types.go`, `CachedClient`) | list of accounts, profiles per account, two time stamps; no lock | reads with a TTL, invalidation after writes | the RouterOS client; every handler |
| Renewal ledger (`app/renewals_handlers.go`, `app/shared_users_sync.go`, `store`) | `profile_activations.is_settled`, `.shared_users` | record, heal/sync, set settled, settle through an activation, reports | router, store |
| Manager administration (`app/admin_handlers.go`, `app/auth_handlers.go`, `store`) | table `managers` | create with slug-overlap check, patch quota and is_active, rename, password | owner, store |
| Certificates (`app/cert.go`, `src/mikrotik/generate-certificate.rsc`) | files of the router, `vpn_user_meta.cert_password` | make, regenerate, read | router script, store |
| Store and migration (`store`) | the SQLite file | CRUD, `migrate` on start | SQLite |
| Authentication (`auth`, `password`, `app/auth_handlers.go`) | none (signed tokens) | login, refresh, middleware | store |
| Frontend session (`src/frontend/src/app/core/auth`) | tokens in web storage, one refresh in flight | attach, refresh and repeat, logout, login | the API |
| Frontend pages, server, configuration, HTTP helpers, test support | - | - | - |

### What is hard here

* **Two stores, no transaction.** Creating an account takes an account, files,
  a row, a profile and an activation on two stores; each step can fail, and the
  handlers undo some of it by hand.
* **No lock.** Each HTTP request runs in its own goroutine. Two requests
  interleave between any two of their commands: checks (the quota, a free
  name, a row looked up) are stale when used.
* **Commands are addressed by name, rows by id.** A name may have been freed and
  taken again by another account between two steps of a handler.
* **A failed command may have been carried out.** The router client gives up
  after 10 s or when the connection breaks.
* **Others edit the router.** Winbox users delete and edit accounts; profiles
  expire on their own.
* **The panel adopts accounts.** Reading an account by name inserts its row,
  which races with the create that is about to insert it.
* **The cache has no lock** and is filled after the command it caches; the
  ledger is healed from live data; `UpdateManager` and `UpdateVPNMeta` read a
  whole row and write it back; the migration drops a referenced table; the
  frontend shares one refresh between requests that a logout may overtake.

`PROJECT.json` lists each hazard with its line and the properties that cover it.

### What makes each component correct

* Account service: unique rows, an intact ledger, a failed create leaves
  nothing, an acknowledged one lasts, a rollback and a delete take only what is
  theirs, quotas hold, `manager_id` follows the owner, deletes are final.
* Cache: a read returns a value the router had within the TTL, and after a
  write of the panel that succeeded no older one.
* Ledger: what is settled is exactly what settlements cover, and keeps its
  shares; healing changes the newest unsettled activation of an account and no
  other; a summary adds up the rows that are shown.
* Owner resolution: with slugs that do not overlap at most one manager matches.
* Manager administration: slugs do not overlap, so no account changes its owner
  unmarked; no quota is below the usage; a call does what it was asked for.
* Certificates: the passphrase that a user is given opens the key in its file;
  no passphrase stays on the router in the clear.
* Migration: a panel that serves has the present schema, no start loses data,
  wherever an earlier one died, and the panel comes up in the end.
* Frontend session: tokens, role and requests are of the user who is logged in,
  and a session ends for a reason.

## 2. Modules

| Module | Contents |
|---|---|
| `VpnAccounts` | the account service over the router and the two tables |
| `MCVpnAccounts` | constants, requests and initial contents for TLC |
| `VpnAccountsProofs` | theorems about `VpnAccounts` |
| `RouterView` | abstract: what a list of accounts may show |
| `RouterCache` | `CachedClient` and the connection under it; implements `RouterView` |
| `MCRouterCache` | symmetry for TLC |
| `RouterCacheProofs` | theorems about `RouterCache`, among them the refinement |
| `RenewalLedger` | the activations: record, heal, sync, report and settle |
| `MCRenewalLedger` | the requests of the instances for TLC |
| `RenewalLedgerProofs` | theorems about `RenewalLedger` |
| `OwnerRegistry` | pure: slugs, patterns, `Resolve`, `SlugOverlaps` (`owner`) |
| `OwnerRegistryProofs` | what the overlap check is for |
| `ManagerAdmin` | the table `managers` and its calls; extends `OwnerRegistry` |
| `MCManagerAdmin` | letters, requests and tables for TLC |
| `ManagerAdminProofs` | theorems about `ManagerAdmin`, with that of `OwnerRegistryProofs` |
| `Certificates` | titles, passphrases, the files of the router and downloads |
| `MCCertificates` | requests and tables for TLC |
| `CertificatesProofs` | theorems about `Certificates` |
| `StoreMigration` | `store.Open`, `BootstrapAdmin` and restarts |
| `MCStoreMigration` | the databases that a start may find |
| `StoreMigrationProofs` | theorems about `StoreMigration` |
| `PanelSession` | a browser tab and its tokens, with the server's middleware |
| `MCPanelSession` | the instance for TLC |
| `PanelSessionProofs` | theorems about `PanelSession` |

### `VpnAccounts`: state and actions

| Variable | Code |
|---|---|
| `router` | `/user-manager/user` and `/user-manager/user-profile`: name to account, or `NoAccount` |
| `rows`, `acts` | the tables `vpn_user_meta`, `profile_activations` |
| `pc`, `req`, `mem` | the handler of each HTTP call: next step, request, local variables |
| `reply` | what the call was answered |
| `users`, `profiles` | what `CachedClient` holds: the list of accounts, the profiles of each |
| `failedAt` | history: the steps of a call that failed (for the properties) |
| `untold`, `disturbed` | history: whether the cache may lack a change that it was not told of; the calls that another has disturbed, or that have read while it did |
| `faults`, `crashes`, `edits` | counters for the bounds |

One action is one router command or one SQL statement, together with the branch
the handler takes on its result. The handlers are sequences of them:

    create    CheckQuota -> AddUser -> SetupCerts -> InsertRow
                [-> AddProfile -> Record]; on an error UndoUser [-> UndoRow]
    by name   FindRow, without a row AdoptRead -> AdoptInsert [-> AdoptFind]
    by id     FindRow, without a row 404
    patch     PatchRead -> PatchCheck -> SetUser -> UpdateRead -> UpdateWrite -> Detail
    assign    AssignRead -> AddProfile -> Record -> Detail
    unassign  RemoveProfile
    delete    [CheckUser ->] FindRow -> RemoveUser [-> DeleteRow]
    open      Detail                    (GET of the bundle or of the .ovpn file)

`Start` is the arrival of a request; `Expire`, `WinboxEdit` and `Crash` are the
environment. A crash ends all handlers without an answer; the tables and the
router survive, the cache does not.

What a handler reads of the router it reads through the cache: `UsersRead` and
`ProfilesRead` are what the cache holds or, as it may be empty or too old, what
the router has. `Fill` is a read whose result is cached, by a call or by a page
that lists accounts. A write that is acknowledged empties the cache (`Dropped`),
unless a list that somebody has read before it is stored after it
(`StoredLate`); one that fails leaves the cache as it is although it may have
been carried out. The fields of the cache one by one, its clock and its races
are the subject of `RouterCache`. `AllAnswered` lets an instance whose calls are
all served stutter, so that TLC's deadlock check reports only handlers that are
stuck.

An id is the call that inserted the account, row or activation (or, for what
exists at the start, its name); so "the account that this call created" can be
said in a property, although the code deletes by name. A failing write may have
been carried out or not (`FailedWrite`).

### Abstractions

* Authorisation is left out: every modelled request is one the caller may make.
* What is cached may be dropped or used at any time: the TTL has no clock here. A
  list that is torn between two goroutines (`RouterCache`) is left out.
* The lookup by name and the command by `.id` inside `RemoveUser` and `SetUser`
  are one command, and so are the list of accounts and the profile queries that
  a quota check reads.
* Passwords, contact, notes, certificates beyond "worked or failed" (that is
  `Certificates`), dates and `shared_users` of activations are left out.
* Answers are "ok" or the class of error that the handlers tell apart.
* A profile just added is active. On the router it may wait for the first
  login; the model reaches the waiting state through `Expire`, and does not leave it
  but by another assignment.
* `ListUserProfiles` errors in a patch are ignored by the code and then the quota
  check is skipped; so does `PatchCheck`.
* An orphan's comment is written back as it was read before, unless it was
  empty; `CommentsWritten` has both outcomes.
* At the start a row may disagree with the router about the owner, since
  Winbox edits happen while the panel is down.

### `RouterCache`: state and actions

| Variable | Code |
|---|---|
| `users`, `usersAt`, `profiles`, `profilesAt` | the fields of `CachedClient` |
| `line`, `lineAt` | the holder of `RouterOS.mu` and when its command was sent |
| `pc`, `req`, `seen` | the goroutines: next access, call, local value |
| `listed`, `profiled` | what a call has returned |
| `now`, `ver`, `past` | the clock; the contents of the router as a version; history: the versions and when the router had them |
| `from`, `alone`, `acked` | history: what a call found when it began, the calls that overlap with none, the last acknowledged write |

`CachedClient` has no lock, so every access to one of its fields is an action:
`CheckUsers` and `TakeUsers` are the check of the cached slice and its return,
`StoreUsers` and `StampUsers` its two assignments after a command. `Command` and
`Reply` are the begin and the end of `RouterOS.run`, between which the lock is
held. A write ends with `DropUsers` and `DropProfiles` (`InvalidateCache`).
A goroutine makes one call after the other; `Finish` forgets the answer.

Data races. The slice is read again to be returned, and pointer and length of
a slice are not stored at once: if another goroutine stores it meanwhile the
call may get the old list, the new one or `Torn` (an empty list, or one with the
length of another). Concurrent access to the map of profiles may end the process
(`MapRace`). Time stamps are taken to be stored whole.

`Tick` passes only while no goroutine is between two accesses to the cache, which
take microseconds where the TTL is 30 s; a command ends within its timeout.

`RouterView` is the abstract specification: calls are pending, and an answer is
any content the router had at most `Bound` before, an error, or, for a call that
overlapped with another, a torn list. `ListsAreRecent` is its `Spec` with
`Bound` set to `TTL + CmdTime`, the pending calls to those in flight and the
answers to `listed`.

### `RenewalLedger`: state and actions

| Variable | Code |
|---|---|
| `acts`, `nextId` | the table `profile_activations` and its AUTOINCREMENT |
| `owner` | `vpn_user_meta.manager_id` of each account, or `NoRow` |
| `shared` | `shared-users` of each account on the router, or `Absent` |
| `now` | `datetime('now')`, which has the resolution of a second |
| `pc`, `req`, `loc` | the requests: next statement or command, request, local variables |
| `cuts`, `moved`, `calm` | history: acknowledged settlements, accounts that have changed their manager, the request nothing has disturbed so far |
| `changes` | counter for the bound of what is no request |

    list      ReadItems -> ReadRows [-> AskRouter -> Heal ...]
    details   ReadActs -> AskRouter -> Heal ...
    settle    FindAct -> CheckScope -> Settle
    patch     SetShared -> Sync (or SyncFails) -> details
    assign    ReadUser -> Record -> details
    create    Record                       (the end of a create with a profile)

`AskRouter` takes the list of the router and computes what is shown, summed and
to be stored; `Heal` is one UPDATE. The activations of one second come in any
order in a list, as its `ORDER BY created_at DESC` leaves it open, whereas the
UPDATE of `Sync` breaks ties by id; `Latest` has all outcomes. `Edit`, `Move` and
`DeleteRow` are Winbox, the repair of `manager_id` and the deletion of a row by
requests of the account service.

Left out are the name search, the lower date and the paging of a report (the
sums are over all pages; a page only selects items), payments and texts. The two
sums are represented by the set of rows that they add up, each with the value
that is added. A list of accounts is read live: both callers ask for a refresh,
so what the cache may answer is at most a command old (`RefreshAlmostLive`);
`GetUser` reads the cache, so the value that an assignment records may be any
that the account has had (`ReadUser`), and the details of an account may be
begun when it is gone (`ReadActs`). An account whose row is inserted later is
one without activations, which behaves like an account that has just been
adopted.

### `OwnerRegistry` and `ManagerAdmin`: state and actions

`OwnerRegistry` has no state. Names and slugs are sequences of letters, so that
prefixes and the case mean what they mean in the code; a comment is the set of
slugs of its `panel=` tokens. `Resolve`, `OwnerMismatch` and `SlugOverlaps` are
the functions of `owner.go`; `SameText` is `COLLATE NOCASE` of the table, which the
overlap check does not share.

| Variable of `ManagerAdmin` | Code |
|---|---|
| `mgrs` | the table `managers`; an id is the place in the sequence |
| `tokens` | the managers that hold a token |
| `used` | the shared-users in use, as `quota.UsedForManager` counts them |
| `pc`, `req`, `reply`, `target`, `row`, `listed` | the HTTP calls and their local variables |
| `saw`, `stale`, `before`, `moved` | history: what a create has compared its slug with, calls whose row was written since they read it, the table when a lone call began, managers whose usage changed |
| `faults`, `changes` | counters for the bounds |

    create    ListSlugs -> Insert [-> Script -> StoreCert]
    patch     Find [-> Script] [-> StoreCert] [-> CheckUser] [-> CheckQuota]
                -> ReadRow -> WriteRow -> AnswerPatch
    patch /me ReadRow -> WriteRow -> Me
    password  CheckPassword -> ReadRow -> WriteRow
    login     Login

`UsageChanges` stands for everything that changes the used shared-users:
accounts, profiles, Winbox. Passwords are compared as values (Argon2 is a
library), expiry and refresh of tokens are in `PanelSession`. A create checks no
slug if the list of managers fails, and every error of its INSERT is answered
`SLUG_IN_USE`; both are in the model as they are in the code. So are the
refusals of a patch that come after its certificate was stored: an empty user
name (`CheckUser`), a quota below the usage (`CheckQuota`) and a password that
is not valid (`ReadRow`).

### `Certificates`: state and actions

| Variable | Code |
|---|---|
| `rows` | `cert_title` and `cert_key_pass` of users and managers |
| `accounts` | the users of the router |
| `files` | `open-vpns/config-NAME.ovpn`: whose certificate, which passphrase the key has |
| `temp` | `panel-cert-TITLE.rsc`, which hands the passphrase to the script |
| `global`, `late` | the variable `PASSPHRASE` of the router; titles whose script runs on after its command has ended by its deadline |
| `pc`, `req`, `reply`, `seen`, `body` | the HTTP calls, the row and the template they have read |
| `first`, `sent`, `built` | history: passphrases made for a title nobody had, the one that the script of a call was given, the one a user's file was made for |
| `cleared`, `leaked` | history: downloads overtaken by a clearing, temporary files that nobody is left to remove |

    create    AddUser [-> Provision] [-> ReadTemplate -> WriteFile] -> Insert -> Assign
                on an error UndoUser [-> UndoRow]
    patch     Provision [-> ReadTemplate -> WriteFile] -> StoreCert, or ClearCert
    delete    RemoveUser -> DeleteRow
    download  GetUser [-> Check -> Resolve] -> ReadFile

`Provision` is `WriteTemp -> Import -> RemoveTemp`, the last also when the import
failed (then from `dropTemp`). A command that fails may have been carried out:
`WriteTemp` may leave the temporary file, whose removal is then not deferred,
`WriteFile` the user's file and `AddUser` the user. An import that ends by its
deadline may go on (`late`) and export later (`Finish`), with what `PASSPHRASE` is
by then: it is one global variable, which the script of another title may have set.
`Import` runs `generate-certificate.rsc`: it makes a certificate only if
there is none, and exports it only if `config-TITLE` is not there; a `.pass` file
beside it wins over the passphrase it is given. A passphrase is named by the
call that made it. Users and titles share the names of files, as in the code.

The expiry and revocation of certificates, the texts that a template is filled
with, and the profile of the user are left out.

### `StoreMigration`: state and actions

| Variable | Code |
|---|---|
| `db` | the committed database: tables, columns, the shape of `vpn_user_meta`, users, activations, certificates, whether there is an administrator |
| `work`, `lock` | the database as an open transaction has it, and whose it is |
| `pc`, `next` | each process: the next statement of its start, the place in the list of tables or columns |

    start     CreateTable x4 -> CheckLegacy
                [-> CreateNew -> CopyRows -> DropOld -> Rename -> Commit]
                -> (CheckColumn [-> AddColumn]) x4 -> CountAdmins [-> CreateAdmin]
    serving   Request

`Fail` is a statement that fails or a process that dies, and rolls an open
transaction back. Two processes may start side by side, for instance when one
is replaced: nothing in the code keeps a second one from the file.
`DropOld` deletes the rows of the old table first and `foreign_keys(1)` takes the
activations along; this was checked against SQLite itself.

### `PanelSession`: state and actions

| Variable | Code |
|---|---|
| `issued`, `accessFrom`, `disabled` | the server: whose each pair of tokens is, which access tokens have not expired, `is_active` |
| `store` | `sessionStorage` (`token-storage.ts`) |
| `role`, `loggedIn` | the signals of `AuthService` |
| `page`, `goal` | the route shown, and the navigation under way |
| `call`, `refreshing` | the requests in the interceptor, `refreshInFlight` |
| `loggingIn` | a login that is being answered |
| `user`, `stray` | history: who has logged in, whether a logout or a login has overtaken a refresh |

| Action | Code |
|---|---|
| `Login`, `LoginAnswered`, `Logout` | `auth.service.ts`, `HandleLogin` |
| `Type` | the debounced search of `user-list.component.ts`, whose subscription outlives the page |
| `Send`, `Answered`, `Rejected`, `RejectedAgain` | `authInterceptor` and `auth.Middleware` |
| `Refreshed`, `RefreshFailed` | `refreshTokens`, `HandleRefresh` |
| `Navigate`, `Visit`, `Reload` | the guards (`auth.guard.ts`), the router, a new page load |
| `Expire`, `SetActive` | time, an administrator elsewhere |

A step is what JavaScript runs between two awaits. A token is the number of its
pair; the claims never change, so that the number tells the user. A request
bears in whose session it was sent (`by`), and whether it has used or joined
what a refresh leaves that a logout or a login has overtaken (`astray`); both
are history. That a refresh token has expired is one of the ways in which
`RefreshFailed` comes about. A user waits for a page before clicking or loading
again, and types into one form at a time; tabs share nothing, as each has its
own `sessionStorage`.

## 3. What is checked

### `VpnAccounts`

All runs use one manager, with the pattern of the name `a`, and the name `g` that
belongs to no pattern. The quota is 3. Lists may be cached and old in all of them.

| Run | Instance | What it shows |
|---|---|---|
| `accounts_races` | 3 concurrent calls (create with and without a profile, open, assign, delete by name and by id) on one name, 1 failing step | `LedgerIntact`, `FailedCreateUndone`, `AckedCreateBacked`, `RollbackSparesOthers`, `RowsLeaveOnPurpose` |
| `accounts_rules` | 2 concurrent calls out of 9 requests of every kind on two names, 1 failing step, profiles expiring | `CreateWithinQuota`, `RaiseWithinQuota`, `RowsStayInStep`, `PatchKeepsOwner` |
| `accounts_ends` | 2 concurrent calls (create, open, delete) on one name, 1 failing step, 1 crash, 1 Winbox edit, fair handlers | `DeletedForGood`, `NoStrayAccount` |

The bounds. One name is enough for the races: handlers touch only the account
and row of their own name, and the quota, which relates several names, has a run
of its own with two. Three calls are needed and are enough to have a create,
somebody who takes the name away, and somebody who takes it again. One failing
step lets every step fail once, cleanly or with a lost reply; two failures in
one rollback leave debris the code has no means to clear, which `failedAt`
exempts. A crash and an edit fall between any two steps of a create that meets a
reader or a delete. In the rules one call is the one that is judged and the
other meets it, has filled the cache before it, or has written before it with a
reply that was lost. The code has no lock between a check and what it allows, so
calls that do meet break these rules (below): the rules are stated of each call
that is not in `disturbed`, that is, whose account and row nobody has changed
since it began, in whose time nobody has raised a sum, and whose lists lacked no
change which the cache was not told of. Whatever else happens at the same time,
and whatever else the cache holds, they have to hold of that call. No
administrator creates under a manager's pattern, as such a create checks no
quota at all (the theorems of section 4 do not exclude these creates); the quota
of 3 with shares 1 to 3 has requests that just fit and that just do not.

Fairness is weak fairness of each handler (`FairSpec`): router commands end
within their 10 s timeout and SQLite statements end, so a handler goes on. No
fairness is assumed of arrivals, expiry, edits, or crashes.

### `RouterCache`

| Run | Instance | What it shows |
|---|---|---|
| `cache_sharing` | 2 goroutines that list, refresh and write; TTL 2, command time 1, clock 2 to 6, 1 change of the router | `TypeOK`, `RefreshAlmostLive`, `ListsAreRecent` (refinement of `RouterView`) |
| `cache_returns` | 2 goroutines that list, count, look up profiles and write, fair; TTL 1, clock 1, 1 change | `AckedWriteSeen`, `CallsReturn` |

Deadlock is checked in the first; in `cache_returns` a stop with a call in
flight is a violation of `CallsReturn` itself. `AckedWriteSeen` exempts what a
call in flight beside the write may hide, and so says most of calls one after
the other.

Two goroutines have every overlap of a fill with a write, a refresh or another
fill, and the waiting for the connection. The clock runs one unit further than a
list may be old, so that a list that is too old would be seen. The theorems below
lift these bounds.

`FairSpec` has weak fairness of each goroutine and strong fairness of its
`Command`: a Go `sync.Mutex` hands the lock to a goroutine that has waited for a
millisecond, so nobody waits for ever while others come and go.

### `RenewalLedger`

| Run | Instance | What it shows |
|---|---|---|
| `ledger_races` | 2 concurrent requests (list, settle, record) on an account, 2 activations of one second, 1 change from outside | `TypeOK`, `SettledExactly`, `SettledSharesKept` |
| `ledger_reports` | requests of every kind one after the other on 2 accounts, 2 seconds, 2 activations, 1 change from outside | `NewestHealed`, `ReportAddsUp`, `HistoryKept` |

Two requests suffice for the races, as a conflict needs a read of one and a write
of the other; within one second the order by id is what tells activations
apart, and in the second run the order by date. Two activations give one that is
the newest and one that is history, of the same or of two accounts. The
properties of the second run speak of a request that nothing disturbs, which
`calm` tracks even in instances with more of them. With both MaxTime and MaxInFlight
raised the instance no longer fits the time of a run; `SettledExactly` is
proved for all of them.

Shares of 0 stand for "unlimited", which `intField` reads as 0 and the table
refuses. Every request can end and another one begin, so deadlock is checked in
both runs.

### `ManagerAdmin`

| Run | Instance | What it shows |
|---|---|---|
| `managers` | 2 concurrent calls out of 14 requests (creates with slugs that overlap, differ in case or are free, patches, own profile, password, login), 1 or 2 managers and room for 3, 1 failing step, 1 change of the usage | `TypeOK`, `OwnersUnique`, `OwnerChangesMarked`, `UpdateIsAtomic`, `QuotaCoversUsage`, `CallsTakeEffect` |

Every property here is about two calls that meet or about one that is alone, so
two calls are enough; a third manager lets both create. The letters are `a`, its
capital and the separator, which a slug may contain: the shortest texts in which
case, overlap and separator all matter. `OwnersUnique` and `UpdateIsAtomic` exempt
exactly the races that the code leaves open (two creates that have not seen each
other; a row written between the two statements of `UpdateManager`), which `saw`
and `stale` record. `CallsTakeEffect` compares what a lone call did with what it
was asked, by a definition that does not use the steps of the model.

### `Certificates`

| Run | Instance | What it shows |
|---|---|---|
| `certificates` | 3 calls, 2 at a time, out of 16 requests on 1 manager and 3 users, 1 failure or crash | `KeyOpens`, `TitledHasFile`, `TempRemoved`, `NoBlankProfile` |

User `u` belongs to the manager, `v` to nobody, and the name of the third is a
title as well; title `t3` has a `.pass` file. A failure may be one without effect, a
lost reply, or a script that outlasts its command. Three calls are a provisioning, a
second one that meets it or takes the title over, and a download or delete after
them. One failure lets each step fail; two would let the removal of the temporary
file fail as well as the import, which `leaked` exempts anyway.

### `StoreMigration`

| Run | Instance | What it shows |
|---|---|---|
| `startup` | 2 processes, 2 users, 7 databases to begin with, 2 failures or deaths | `ServesMigrated`, `StartsLoseNothing`, `ComesUp` |

The databases are an empty file, one before certificates, one of the first
version, the present one, and such that an operator has prepared by hand with
`db/migrations/001` in part. Two failures allow a start that dies, another that dies
while it completes the first, and a third that has to cope.

Fairness: whoever runs the panel starts it again, and a start goes on (weak
fairness of `StartUp` of each process). Two processes that start at once may make
each other exit, on a column added in between, but not for ever.

### `PanelSession`

| Run | Instance | What it shows |
|---|---|---|
| `session` | an administrator and a manager, 2 requests, 3 pairs of tokens, fair | `SessionMatches`, `RanAsSender`, `SessionKept`, `CallsEnd`, `PanelSettles` |
| `disabled` | the same with 1 request and 2 pairs, not fair | `DisabledBlocked` is violated (below) |

Two requests share a refresh, and one may begin it while the other has been
answered. Three pairs are a login, a refresh that a logout overtakes, and the
login of somebody else. The three safety properties are proved for any number of
each.

Fairness: the browser ends every request, with an answer or an error (`Reply`,
`RefreshAnswered`), and the router goes on with a navigation (`Navigate`). Nothing
is assumed of what users do, of time, or of logins. A refresh needs a new pair,
whose number is bounded; it may also fail at any time, so the bound does not hold
up anybody.

### Where the code and the documents disagree

`disabled` is a run that violates what a document states: `docs/architecture.md:71`
has the middleware close the operations of a disabled manager to an old token as
well, but `auth.Middleware` and `HandleRefresh` do not look at `is_active`. The
tokens of a disabled manager go on working, and are renewed. The finding in
`PROJECT.json` quotes the document.

The others were met while modelling. The models have these behaviours, and the
properties above are stated around them.

Accounts, cache and ledger:

* a failed `RemoveUser` is ignored and the deletion is answered with success
  (`vpn_service.go:419`);
* a list fetched before a write is stored after the write has emptied the cache,
  so that an acknowledged write is not seen for up to a TTL (`types.go:66`);
* a report overwrites the shares of an activation that was settled after the
  report had read it (`shared_users_sync.go:59`);
* a later assignment is not compared with the quota (`vpn_service.go:431`), where
  `docs/business-rules.md:120` makes it subject to the ceiling;
* a patch whose database step fails leaves the router changed
  (`vpn_service.go:408`), where `docs/architecture.md:41` asks for a
  compensating transaction;
* fetching the profiles of one account renews the time stamp for all, so those of
  the others are served beyond the TTL (`types.go:118`), which
  `docs/business-rules.md:263` gives them;
* a report with an upper date takes the newest activation before that date
  for the current one and overwrites it with the live value
  (`shared_users_sync.go:103`), where `docs/business-rules.md:176` leaves older
  activations alone; `HistoryKept` and `NewestHealed` exempt such reports;
* settle-through answers 403 for every error, also for an activation that does
  not exist (`renewals_handlers.go:105`), where `docs/api.md:488` says 404;
* two concurrent creates (or assigns) of one manager both pass the quota check
  and exceed the quota together (`vpn_service.go:166`; `CreateWithinQuota`
  leaves out the calls that another has disturbed);
* a profile or an account that a command added whose reply was lost is not in the
  cached lists, so that a quota check may pass which should not for up to a TTL
  (`types.go:102`, `vpn_service.go:25`);
* a patch that raises the shared-users of a disabled account and enables it
  subtracts a share that the used quota did not contain (`vpn_service.go:388`);
  a patch that only enables is not checked at all;
* a failed INSERT of an activation is ignored (`vpn_service.go:435`), where
  `docs/business-rules.md:166` says that it is always recorded;
* an administrator's create without a manager under a manager's pattern stores
  no `manager_id` and checks no quota (`vpn_service.go:236`), where
  `docs/business-rules.md:401` derives it from `resolve_owner`;
* a refresh may return a list that another call fetched before it
  (`types.go:168`; it is still at most a command old, `RefreshAlmostLive`), and it
  keeps the cached profiles, which the statistics then count (`types.go:169`,
  `docs/api.md:230`).

Managers:

* two creates at a time, or one whose list of managers fails, may leave slugs
  that overlap (`admin_handlers.go:101`, `docs/business-rules.md:23`); then the
  order of the ids decides whose an account is;
* the certificate of a patch is committed before its other fields are checked, and
  a create with an invalid title leaves the manager although it is answered 400;
* any error of the INSERT of a manager is answered `SLUG_IN_USE`;
* a patch of the slug, which `docs/api.md:374` describes, is not implemented;
* `UpdateManager` reads and writes in two statements: of two patches of one manager
  the later write takes the fields of the other back (`store.go:263`);
* `HandlePatchManager` uses the manager it reads at its end without looking at the
  error, and panics if there was one;
* a new manager is not compared with the usage that its pattern already has;
* a manager with the user name of an administrator can never log in, as
  `HandleLogin` asks for administrators first.

Certificates:

* the script keeps a certificate that exists, so that a title provisioned again,
  shared with another holder, or made by a call that ended by its deadline gets a
  new passphrase that does not open the key (`cert.go:108`, `cert.go:148`;
  `docs/certificates.md:23`);
* a user whose title is cleared keeps its file while it is given the manager's
  passphrase (`docs/certificates.md:84`), and a manager's new certificate does not
  reach the files of existing users;
* the temporary file that hands a passphrase over is named by the title alone
  (`files.go:70`): of two calls with one title one may import the file of the other
  and store its own passphrase, where `docs/certificates.md:44` says that the one
  stored is the one that was sent; `KeyOpens` leaves it out (`RanWithOwn`);
* if the reply to the command that writes the temporary file is lost, nobody removes
  it, and the passphrase stays on the router until the title is provisioned again
  (`files.go:71`);
* the scripts of two titles that run at the same time share `PASSPHRASE`, so that a
  key may be exported with that of another title;
* a user with the name of a title shares its file with it;
* a missing file is answered `OVPN_MISSING` where `docs/certificates.md:63` falls
  back to the template;
* if the database fails after the router has succeeded, the file is new and the
  stored passphrase old; a deletion leaves the file.

Migration: the rebuild of `vpn_user_meta` drops the old table with foreign keys
switched on, so that all activations of a legacy database go with it
(`store.go:111`), although the comment at `store.go:85` speaks of dropping and
renaming columns only. `StartsLoseNothing` exempts that transaction and no other.

Session:

* a refresh that a logout or another login has overtaken stores its tokens all the
  same (`auth.interceptor.ts:44`): the tab then holds tokens of the user before,
  or tokens without a role, with which the guards send a navigation from `/` to
  `/admin` and back for ever;
* a request under way at a logout may be repeated with the token of the user who
  logs in next;
* a failed refresh clears the storage but not the signals, so that the panel looks
  logged in until the next navigation or load.

## 4. What is proved

`VpnAccountsProofs` proves, from `ConstantsAssumption` alone and hence for every
set of calls, names, managers, quotas, requests, initial contents and bounds:

| Theorem | Statement |
|---|---|
| `TypeCorrect` | `Spec => []TypeOK` |
| `RowsAlwaysUnique` | `Spec => []RowsUnique` |
| `LedgerAlwaysIntact` | `Spec => []LedgerIntact` |
| `RollbackSafe` | `Spec => RollbackSparesOthers` |
| `RowsKept` | `Spec => RowsLeaveOnPurpose` |
| `FailedCreatesUndone` | `Spec => []FailedCreateUndone` |
| `AckedCreatesBacked` | `Spec => []AckedCreateBacked` |
| `DeletesLast` | `Spec => []DeletedForGood` |
| `PatchesKeepOwner` | `Spec => PatchKeepsOwner` |
| `RowsInStep` | `Spec => RowsStayInStep` |
| `CreatesWithinQuota` | `Spec => CreateWithinQuota` |
| `RaisesWithinQuota` | `Spec => RaiseWithinQuota` |

The argument goes in layers, each inductive with the help of those below.

1. `TypeInv` is `TypeOK` and `Control`: a handler in a step of the create path
   serves a create, one in a row step does not. Without it the request of the
   handler would not bound what it writes.
2. `TablesInv` adds `RowsUnique`, `LedgerIntact` and `Fresh`: a call that has
   not come to its insert owns no row. `Fresh` is why the id of a new row is
   new; the UNIQUE constraint alone makes only names unique. `LedgerIntact`
   is inductive with it because a delete takes the activations of the row along
   and an insert of an activation needs the row.
3. `OwnInv` says what is each call's own: a call that is in its rollback has had
   its `AddUser` acknowledged (`wrote`), an account with its id carries its
   name, and a call that has not added an account owns none. From it a
   rollback can meet an account of another call only if its own is gone.
4. `HeldInv` follows what a call has made to the call that made it. An account
   or a row of a create is there only while the create is past the step that made
   it and before the one that takes it back, or after it has succeeded or died, or
   if a router command or the delete of the row failed (`AccountHeld`, `RowHeld`).
   A delete past its `RemoveUser` finds at most the account of a create
   (`DeleteHeld`). `OnRoute` ties the answers and the steps of deletes and
   patches to their requests. `FailedCreateUndone` and `DeletedForGood` are what is
   left of it when the call has its answer.
5. `BackedInv` is the converse while nobody deletes or edits (`Quiet`): what a
   create has made and not taken back is there. It needs `HeldInv`, as the
   rollback of another create removes the account by its name and must not find
   this one.
6. `OwnerInv`: an account that a create has made belongs to the manager of its
   name (`CreatedOwner`), and so does what is cached of it (`OwnerListed`), so a
   patch whose account was taken back and made again between its read and its
   write, or that has read it from the cache, still has the right owner
   (`OwnerRead`).
7. `PatchInv` and `QuotaInv` speak of the calls that are not in `disturbed`,
   whatever others do. `ListsFresh` says of the cache that, as long as nothing
   is `untold`, it agrees with the router but for profiles that have expired
   since; so what such a call has read was the truth, or more than is used.
   `PatchInv` adds that the row and the owner that a patch has found are still
   those of its account (`RowOfPatch`, `OwnerOfPatch`, `OwnerToWrite`), and
   `QuotaInv` that what has passed the quota check still fits: the create until
   its profile is added (`CreatePaid`), the patch until `SetUser` (`RaisePaid`).
   A step of another call that does not disturb this one raises no sum and
   leaves its account, and expiry only lowers a sum (`ExpireKeeps`).

The used quota is `MapThenSumSet` over the manager's accounts. That it changes
by what one account changes (`TotalChange`) needs an induction over finite sets,
which the library states with an operator parameter. It is done here on sets: a
subset of `Nat` that holds 0 and with every number the next is `Nat` (`NatSet`,
from the least element of its complement), hence a property of all subsets of a
finite set, given as the set of those that have it, follows by cardinality
(`SubsetInduction`). From it the recursive function in the fold is shown to
exist (`SumsExist`) and to obey its equation whatever element is taken out first
(`SumsTake`).

`TablesChange` and `RouterChange` say once which steps change the tables and the
router, so that the invariance proofs have four cases instead of thirty.

`RouterCacheProofs` proves, from the assumptions of `RouterCache` and for any
goroutines, accounts, TTL, timeout and bounds:

| Theorem | Statement |
|---|---|
| `CacheTypeCorrect` | `Spec => []TypeOK` |
| `CacheImplementsView` | `Spec => ListsAreRecent`, that is `RouterView!Spec` under the mapping |
| `RefreshedListRecent` | `Spec => []RefreshAlmostLive` |
| `AckedWritesSeen` | `Spec => []AckedWriteSeen` |

The invariant of the refinement, `ViewInv`, has three parts beside the types.
`Ages` follows a list from the command that fetched it to the call that gets it:
it is as old as its command when it is stored, so the cached list is never older
than its stamp by more than a command, although list and stamp may be those of
different goroutines; this holds because time does not pass between the two
assignments. `Company` says that a call that overlaps with no other meets nobody
in the cache, hence no torn list. `Unanswered` says that no call is answered
twice. With them each action is a step of `RouterView` or none (`ViewStep`).
`SinceRequest` adds for the refreshes that what is cached after their drop was
fetched by a command that ended after their request. `SinceInv` says of the
cache (`CacheSince`) and of what the calls have taken from it or are about to
put there (`HeldSince`) that nothing is from before the last acknowledged write.
It is kept because a write counts as acknowledged only if it met no other call,
so between its two assignments nobody fills the list again (`Emptied`).

`RenewalLedgerProofs` proves, from `LedgerAssumption` and for any requests,
accounts, managers and bounds:

| Theorem | Statement |
|---|---|
| `LedgerTypeCorrect` | `Spec => []TypeOK` |
| `SettledExactlyCovered` | `Spec => []SettledExactly` |
| `SettledSharesStay` | `Spec => SettledSharesKept` |
| `OldRowsKept` | `Spec => HistoryKept` |
| `NewestAlwaysHealed` | `Spec => []NewestHealed` |
| `ReportsAddUp` | `Spec => []ReportAddsUp` |

`SettledExactly` is not inductive: a new activation must be later than every
settlement, and the activation that a request settles through was read
earlier and may be gone. `LedgerInv` adds that activations, settlements and what
requests have read bear an id that was given and a date that is past (`Known`).
A recorded activation has the next id and the present date, so no settlement
covers it. `LedgerSteps` says which steps change more than shares; healing and
syncing, in whatever order, are one case (`SameButShares`).

`RowInv` adds that ids are unique and that the rows a call is to heal were
unsettled when it read them (`TodoUnsettled`), from which `SettledSharesKept`
follows step by step: only a heal writes by an id read earlier. `CalmInv`
describes a call that no other has disturbed, place by place: what it has read
is what there is (`AsRead`), what it is to heal is current and has the shares of
the router (`ToHeal`), what differs from the router is to be healed
(`NoneLeft`), and the rows of the summary, which are read a second time, are
those of the list (`AddedUp`). The heals run one row after the other, so
`NoneLeft` says in between which rows are still to come.

`OwnerRegistryProofs` proves of any letters, separator and slugs:

| Theorem | Statement |
|---|---|
| `OneManagerPerName` | two managers whose patterns begin one name have slugs of which one begins the other |

This is why a prefix comparison of the slugs without the separator suffices: a
slug begins its pattern, and of two texts that begin one text the shorter one
begins the longer one (`PrefixesComparable`).

`ManagerAdminProofs` proves, from `RegistryAssumption` and `ManagersAssumption`
and for any texts, managers, requests and bounds:

| Theorem | Statement |
|---|---|
| `ManagersTypeCorrect` | `Spec => []TypeOK` |
| `OneManagerUnlessUnseen` | `Spec => []OwnersUnique` |
| `QuotasCoverUsage` | `Spec => []QuotaCoversUsage` |
| `UpdatesAtomic` | `Spec => UpdateIsAtomic` |
| `NewOwnersMarked` | `Spec => OwnerChangesMarked` |
| `AloneCallsTakeEffect` | `Spec => CallsTakeEffect` |

`TypeInv` adds to `TypeOK` that a call past its first step has a request and one
that has a manager to write has read it. `OwnersUnique` is not inductive, as it
does not say what a create has found when it is between `ListSlugs` and
`Insert`; `SlugInv` says that the slugs of two managers of which the later saw
the earlier do not overlap, and that neither does the slug of a create that is
about to insert with any that it has listed. `OneManagerPerName` then turns
slugs into owners. `QuotaInv` adds to `QuotaCoversUsage` what a call on its way
has found (`HasRoom`): from the quota check to the write, the quota it asks for
covers the usage, and so does the quota in the row it has read, as long as the
usage has not changed. `FreshInv` says that the row a call is to write back is
the row of the table, but for the certificate, unless the call is `stale`;
`MergeIsWanted` turns the merge of the code into the one that `UpdateIsAtomic`
asks for. For `NewOwnersMarked`, a change of the table only adds a manager at
the end and never changes a slug (`RegistryGrows`), so the least id that matches
a name or a comment stays the least (`FirstIsLeast`, with the well-foundedness
of `<` on the naturals). `AloneInv` follows a call that is alone through its
handler: what the table is by now, in terms of the table at its start (`Begun`,
`Certifying`, `Checking`, `Answering`). The two transactions of a patch, the
certificate and then the other fields, meet in `Applied` (`WriteApplies`,
`InsertApplies`).

`CertificatesProofs` proves, from `CertificatesAssumption` and for any calls,
titles, holders, `.pass` files and numbers of failures and crashes:

| Theorem | Statement |
|---|---|
| `CertificatesTypeCorrect` | `Spec => []TypeOK` |
| `PassphraseOpensKey` | `Spec => []KeyOpens` |
| `TitledUsersHaveFiles` | `Spec => []TitledHasFile` |
| `TemporaryFilesRemoved` | `Spec => []TempRemoved` |
| `NoFileWithoutPassword` | `Spec => []NoBlankProfile` |

`TypeInv` adds to the types what the place of a call says of its request and of
what it has read (`Place`), and that a late script has a passphrase (`LateSet`).
`TempRemoved` is inductive with it. `FileInv` adds to `TitledHasFile` that a
call about to give a user a title has made the file, `BlankInv` to
`NoBlankProfile` that a download past the first read has seen the title of the
manager, unless it was cleared since. `KeyInv` is about the passphrases that
opened a new title and whose script was run with them (`Sure`), and follows them
from the call to the file: until its script has run, nobody has the passphrase,
and the script has none but that of the temporary file (`Unused`); while a call
imports a new title with its own file, no other call and no late script is at
the title, and the title is not exported (`ImportsAlone`); after the import the
key of the title is the call's (`HasKey`), and so is the template that the call
has read (`GoodBody`); every row that anybody can read has a passphrase that
opens the key of its title (`GoodRows`), no passphrase has two titles
(`OneTitle`), and the file made for a passphrase has its key (`GoodFiles`). What
keeps all of them is that the file of a title that is no user's name is written
once (`Frozen`).

`StoreMigrationProofs` proves, from `MigrationAssumption` and for any number of
processes, users, databases and failures:

| Theorem | Statement |
|---|---|
| `MigrationTypeCorrect` | `Spec => []TypeOK` |
| `AlwaysMigrated` | `Spec => []ServesMigrated` |
| `StartsKeepRows` | `Spec => StartsLoseNothing` |

`Inv` adds to the types `Progress` (the tables and columns before the place of a
process in its lists are there, and a process past the rebuild finds none to do),
`Transaction` (who rebuilds holds the lock, and its view differs from the database
only by the statements it has made) and `OldIsBare` (a database in the old shape has
no certificates). `Progress` survives the rebuild of another process, which takes
columns away, because a process that looks for columns finds the old shape gone,
and the old shape never comes back.

`PanelSessionProofs` proves, from `SessionAssumption` and for any users, requests
and pairs:

| Theorem | Statement |
|---|---|
| `SessionTypeCorrect` | `Spec => []TypeOK` |
| `SessionBelongsToUser` | `Spec => []SessionMatches` |
| `RequestsRunAsSender` | `Spec => []RanAsSender` |
| `SessionEndsForReason` | `Spec => SessionKept` |

The invariant adds what a refresh carries with it: `RefreshOfStore` (the token
in flight is the one stored, unless a logout or login has overtaken it),
`WaitsForOwn` (it is one of the user in whose session the requests that wait for
it were sent, unless they are `astray`), `OneStray` (at most one of the two
states of an overtaken refresh), `Unsent` (only a request under way has a
token), `OrphanedTab` (what a tab shows that holds tokens without a role) and
`StoredRole` (the role in the storage is that of the stored tokens' user, if
there is one). Without `RefreshOfStore`, what `Refreshed` stores could be of
anybody.

Every safety invariant and every action property of a passing run is stated by one
of these theorems. Only model-checked are the liveness properties `NoStrayAccount`,
`CallsReturn`, `ComesUp`, `CallsEnd` and `PanelSettles`: liveness under fairness is
out of the prover's reach.

## 5. What is left

Planned:

1. An abstract specification of the account service (an account and its row as one
   object, changed by one step per call) and the part of it that `VpnAccounts`
   implements when calls do not overlap and nothing fails, with a proof of the
   refinement from `OwnerInv` and `PatchInv`.

Not modelled, and not planned:

* pages and forms of the frontend: their requests are inputs of the models, their
  rendering has no state that outlives them;
* routing, JSON, error texts, TLS and the environment: no state that changes
  (`ADMIN_PASSWORD` appears in `StoreMigration` as `Configured`);
* password hashing and the signing of tokens: libraries, taken for what they
  promise;
* paging, sorting, search and payments of reports: pure selections over the rows
  that `RenewalLedger` has;
* what a late reply of the router does to the connection: decided by the
  go-routeros library, which is not in the repository;
* the simulated router of the tests.
