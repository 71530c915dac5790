---------------------------- MODULE RouterCache ----------------------------
(***************************************************************************)
(* The cache between the handlers and the router                           *)
(* (backend/internal/mikrotik/types.go, CachedClient) and the connection   *)
(* under it (routeros.go, RouterOS.run).                                   *)
(*                                                                         *)
(* All handlers share one CachedClient and call it without a lock; only    *)
(* the commands of the router exclude each other.  An action is one access *)
(* to the fields of the cache, or the start or the end of a command.       *)
(*                                                                         *)
(* The contents of the router are a version number that every change       *)
(* increments.  A list of accounts, or the profiles of an account, is the  *)
(* snapshot it was taken from.                                             *)
(***************************************************************************)
EXTENDS Naturals, FiniteSets

CONSTANTS
  Calls,       \* goroutines that use the cache, one call after the other
  Names,       \* accounts whose profiles are asked for
  Ops,         \* the calls that are made, a subset of AllOps
  TTL,         \* MIKROTIK_CACHE_TTL
  CmdTime,     \* timeout of a router command
  MaxInFlight, \* bound: calls made at the same time
  MaxTime,     \* bound of the clock
  MaxVer,      \* bound of the changes on the router
  NoCall,      \* the connection is free
  NoList,      \* nil: nothing is cached
  NoAnswer,    \* a call has no answer yet
  Failed,      \* an error was returned
  Torn         \* a slice read while it was stored

\* GetUser and the lists call ListUsers ("list"); ?refresh=true calls
\* RefreshListUsers ("refresh"), and the statistics of the administrator look
\* up profiles after that ("stats"); "write" is any of AddUser, SetUser,
\* RemoveUser, AddUserProfile, RemoveUserProfile.
AllOps == {"list", "refresh", "stats", "profile", "write"}

Steps == {"idle", "drop", "checkUsers", "takeUsers", "askUsers", "storeUsers",
          "stampUsers", "checkProfile", "askProfile", "storeProfile",
          "stampProfile", "askWrite", "dropUsers", "dropProfiles", "done"}

\* A call waits for the connection, or for the reply to its command.
Asking == {"askUsers", "askProfile", "askWrite"}
\* Accesses to the fields of the cache; they take no time.
Local == Steps \ (Asking \union {"idle", "done"})

Snapshot == [ver : 0..MaxVer, at : Nat]

ASSUME ConstantsAssumption ==
  /\ Ops \subseteq AllOps
  /\ Ops # {} /\ Names # {}
  /\ {TTL, CmdTime, MaxTime, MaxVer} \subseteq Nat
  /\ MaxInFlight \in Nat \ {0}
  /\ NoCall \notin Calls
  /\ {NoList, NoAnswer, Failed, Torn} \intersect Snapshot = {}
  /\ Failed # NoList /\ NoAnswer \notin {NoList, Failed} /\ Torn # Failed

VARIABLES
  now, ver, past,                          \* clock, router, history of it
  line, lineAt,                            \* holder of RouterOS.mu, since when
  users, usersAt, profiles, profilesAt,    \* the fields of CachedClient
  pc, req, seen,                           \* the calls and their local value
  listed, profiled,                        \* what a call has returned
  from, alone, acked                       \* history: see Start, DropProfiles

cache   == <<users, usersAt, profiles, profilesAt>>
router  == <<now, ver, past>>
conn    == <<line, lineAt>>
answers == <<listed, profiled>>
history == <<from, alone>>
vars    == <<router, conn, cache, pc, req, seen, answers, history, acked>>

Current == [ver |-> ver, at |-> now]

Request == [op : Ops, name : Names]
NoRequest == CHOOSE q \in Request : TRUE   \* of an idle goroutine
NoHistory == [ver |-> 0, at |-> 0, acked |-> 0]

TypeOK ==
  /\ now \in Nat /\ ver \in 0..MaxVer
  /\ past \subseteq Snapshot
  /\ line \in Calls \union {NoCall} /\ lineAt \in Nat
  /\ users \in Snapshot \union {NoList} /\ usersAt \in Nat
  /\ profiles \in [Names -> Snapshot \union {NoList}] /\ profilesAt \in Nat
  /\ pc \in [Calls -> Steps]
  /\ req \in [Calls -> Request]
  /\ seen \in [Calls -> Snapshot \union {NoList, Failed}]
  /\ listed \in [Calls -> Snapshot \union {NoAnswer, Failed, Torn}]
  /\ profiled \in [Calls -> Snapshot \union {NoAnswer, Failed}]
  /\ from \in [Calls -> [ver : Nat, at : Nat, acked : Nat]]
  /\ alone \subseteq Calls
  /\ acked \in 0..MaxVer

InFlight == {g \in Calls : pc[g] \notin {"idle", "done"}}

----------------------------------------------------------------------------
(* A call begins, goes on and returns.                                     *)

\* Mutant of FirstStep: refresh does not drop the list.
FirstStepKeepsList(op) ==
  CASE op \in {"list", "refresh", "stats"} -> "checkUsers"
    [] op = "profile"                      -> "checkProfile"
    [] op = "write"                        -> "askWrite"
FirstStep(op) ==
  CASE op = "list"                 -> "checkUsers"
    [] op \in {"refresh", "stats"} -> "drop"
    [] op = "profile"              -> "checkProfile"
    [] op = "write"                -> "askWrite"

\* from: what the router contained, and acked, when the call began; alone: the
\* calls during which there was no other.
Start(g) ==
  /\ pc[g] = "idle" /\ Cardinality(InFlight) < MaxInFlight
  /\ \E q \in Request : /\ req' = [req EXCEPT ![g] = q]
                        /\ pc' = [pc EXCEPT ![g] = FirstStep(q.op)]
  /\ from' = [from EXCEPT ![g] = [ver |-> ver, at |-> now, acked |-> acked]]
  /\ alone' = IF InFlight = {} THEN alone \union {g}
                               ELSE alone \ (InFlight \union {g})
  /\ UNCHANGED <<router, conn, cache, seen, answers, acked>>

\* The handler is through with what the call returned.
Finish(g) ==
  /\ pc[g] = "done"
  /\ pc' = [pc EXCEPT ![g] = "idle"]
  /\ req' = [req EXCEPT ![g] = NoRequest]
  /\ from' = [from EXCEPT ![g] = NoHistory]
  /\ listed' = [listed EXCEPT ![g] = NoAnswer]
  /\ profiled' = [profiled EXCEPT ![g] = NoAnswer]
  /\ alone' = alone \ {g}
  /\ UNCHANGED <<router, conn, cache, seen, acked>>

Go(g, step) == pc' = [pc EXCEPT ![g] = step]

Forget(g) == seen' = [seen EXCEPT ![g] = NoList]

\* ListUsers returns list; the statistics go on with the profiles.
ReturnList(g, list) ==
  /\ listed' = [listed EXCEPT ![g] = list]
  /\ Forget(g)
  /\ Go(g, IF req[g].op = "stats" /\ list # Failed THEN "checkProfile"
                                                   ELSE "done")
  /\ UNCHANGED profiled

ReturnProfile(g, list) ==
  /\ profiled' = [profiled EXCEPT ![g] = list]
  /\ Forget(g) /\ Go(g, "done")
  /\ UNCHANGED listed

Kept == UNCHANGED <<router, req, history>>

----------------------------------------------------------------------------
(* RouterOS.run: one command at a time.                                    *)

\* The lock is taken and the command carried out; a write may be refused.
Command(g) ==
  /\ pc[g] \in Asking /\ line = NoCall
  /\ line' = g /\ lineAt' = now
  /\ \/ /\ pc[g] # "askWrite"
        /\ seen' = [seen EXCEPT ![g] = Current]
        /\ UNCHANGED router
     \/ /\ pc[g] = "askWrite" /\ ver < MaxVer
        /\ ver' = ver + 1 /\ UNCHANGED now
        /\ past' = past \union {[ver |-> ver + 1, at |-> now]}
        /\ seen' = [seen EXCEPT ![g] = [ver |-> ver + 1, at |-> now]]
     \/ /\ pc[g] = "askWrite"
        /\ seen' = [seen EXCEPT ![g] = Failed]
        /\ UNCHANGED router
  /\ UNCHANGED <<cache, pc, req, answers, history, acked>>

\* Mutant of Unlock: the lock is not released after an error.
UnlockOnSuccess(g, ok) == IF ok THEN line' = NoCall ELSE UNCHANGED line
\* The deferred Unlock runs on every return.
Unlock(g, ok) == line' = NoCall

\* The command returns; after an error the cache is not touched.
Reply(g) ==
  /\ pc[g] \in Asking /\ line = g /\ seen[g] # NoList
  /\ \/ /\ seen[g] # Failed
        /\ Unlock(g, TRUE)
        /\ Go(g, CASE pc[g] = "askUsers"   -> "storeUsers"
                   [] pc[g] = "askProfile" -> "storeProfile"
                   [] pc[g] = "askWrite"   -> "dropUsers")
        /\ UNCHANGED <<seen, answers>>
     \/ /\ Unlock(g, FALSE)
        /\ CASE pc[g] = "askUsers"   -> ReturnList(g, Failed)
             [] pc[g] = "askProfile" -> ReturnProfile(g, Failed)
             [] pc[g] = "askWrite"   -> Go(g, "done") /\ Forget(g)
                                     /\ UNCHANGED answers
  /\ lineAt' = 0
  /\ UNCHANGED <<cache, acked>> /\ Kept

----------------------------------------------------------------------------
(* ListUsers and RefreshListUsers.                                         *)

\* RefreshListUsers and forceUsers: the list is set to nil, twice.
Drop(g) ==
  /\ pc[g] = "drop"
  /\ users' = NoList
  /\ Go(g, "checkUsers")
  /\ UNCHANGED <<usersAt, profiles, profilesAt, conn, seen, answers, acked>>
  /\ Kept

\* Mutants of Valid: an old list is taken for a new one, or nil for a list.
ValidForEver(list, at) == list # NoList
ValidUnfilled(list, at) == now < at + TTL
Valid(list, at) == now < at + TTL /\ list # NoList

CheckUsers(g) ==
  /\ pc[g] = "checkUsers"
  /\ \/ /\ Valid(users, usersAt)
        /\ seen' = [seen EXCEPT ![g] = users]
        /\ Go(g, "takeUsers")
     \/ /\ ~Valid(users, usersAt)
        /\ Go(g, "askUsers") /\ UNCHANGED seen
  /\ UNCHANGED <<conn, cache, answers, acked>> /\ Kept

\* Another goroutine has stored the slice since it was checked, or may be
\* about to.
Raced(g) ==
  \/ users # seen[g]
  \/ \E h \in Calls \ {g} : pc[h] \in {"drop", "storeUsers", "dropUsers"}

\* The slice is read again to be returned: pointer and length may be of
\* different slices, and the length of nil is 0.
TakeUsers(g) ==
  /\ pc[g] = "takeUsers"
  /\ \/ ReturnList(g, seen[g])
     \/ users # NoList /\ users # seen[g] /\ ReturnList(g, users)
     \/ Raced(g) /\ ReturnList(g, Torn)
  /\ UNCHANGED <<conn, cache, acked>> /\ Kept

\* A router without accounts gives a nil slice, which is not cached.
StoreUsers(g) ==
  /\ pc[g] = "storeUsers"
  /\ users' \in {seen[g], NoList}
  /\ Go(g, "stampUsers")
  /\ UNCHANGED <<usersAt, profiles, profilesAt, conn, seen, answers, acked>>
  /\ Kept

StampUsers(g) ==
  /\ pc[g] = "stampUsers"
  /\ usersAt' = now
  /\ ReturnList(g, seen[g])
  /\ UNCHANGED <<users, profiles, profilesAt, conn, acked>> /\ Kept

----------------------------------------------------------------------------
(* ListUserProfiles.                                                       *)

CheckProfile(g) ==
  LET entry == profiles[req[g].name]
  IN /\ pc[g] = "checkProfile"
     /\ \/ Valid(entry, profilesAt) /\ ReturnProfile(g, entry)
        \/ /\ ~Valid(entry, profilesAt)
           /\ Go(g, "askProfile") /\ UNCHANGED <<seen, answers>>
     /\ UNCHANGED <<conn, cache, acked>> /\ Kept

StoreProfile(g) ==
  /\ pc[g] = "storeProfile"
  /\ profiles' = [profiles EXCEPT ![req[g].name] = seen[g]]
  /\ Go(g, "stampProfile")
  /\ UNCHANGED <<users, usersAt, profilesAt, conn, seen, answers, acked>>
  /\ Kept

\* One time stamp serves the entries of all accounts.
StampProfile(g) ==
  /\ pc[g] = "stampProfile"
  /\ profilesAt' = now
  /\ ReturnProfile(g, seen[g])
  /\ UNCHANGED <<users, usersAt, profiles, conn, acked>> /\ Kept

\* The runtime stops a process that accesses one map concurrently, one of the
\* accesses being a write; it is restarted with an empty cache.
MapRace ==
  /\ \E g, h \in Calls : /\ g # h /\ pc[g] = "storeProfile"
                         /\ pc[h] \in {"checkProfile", "storeProfile"}
  /\ pc' = [g \in Calls |-> IF g \in InFlight THEN "done" ELSE pc[g]]
  /\ line' = NoCall
  /\ users' = NoList /\ usersAt' = 0
  /\ profiles' = [n \in Names |-> NoList] /\ profilesAt' = 0
  /\ seen' = [g \in Calls |-> NoList]
  /\ UNCHANGED <<router, lineAt, req, answers, history, acked>>

----------------------------------------------------------------------------
(* The writes, after a successful command: InvalidateCache.                *)

\* Mutant of Dropped: InvalidateCache leaves the list.
ListKept(list) == list
Dropped(list) == NoList

DropUsers(g) ==
  /\ pc[g] = "dropUsers"
  /\ users' = Dropped(users)
  /\ Go(g, "dropProfiles")
  /\ UNCHANGED <<usersAt, profiles, profilesAt, conn, seen, answers, acked>>
  /\ Kept

\* The write returns.  acked: the last that was acknowledged and met no other
\* call of the cache.
DropProfiles(g) ==
  /\ pc[g] = "dropProfiles"
  /\ profiles' = [n \in Names |-> NoList]
  /\ Forget(g) /\ Go(g, "done")
  /\ acked' = IF g \in alone /\ seen[g].ver > acked THEN seen[g].ver ELSE acked
  /\ UNCHANGED <<users, usersAt, profilesAt, conn, answers>> /\ Kept

----------------------------------------------------------------------------
(* The environment.                                                        *)

\* Time passes only while no goroutine accesses the cache (the accesses take
\* no time in comparison), and a command ends within its timeout.
Tick ==
  /\ now < MaxTime
  /\ \A g \in Calls : pc[g] \notin Local
  /\ line # NoCall => now < lineAt + CmdTime
  /\ now' = now + 1
  /\ past' = past \union {[ver |-> ver, at |-> now + 1]}
  /\ UNCHANGED <<ver, conn, cache, pc, req, seen, answers, history, acked>>

\* Somebody changes the router with Winbox, or a profile expires.
Change ==
  /\ ver < MaxVer
  /\ ver' = ver + 1
  /\ past' = past \union {[ver |-> ver + 1, at |-> now]}
  /\ UNCHANGED <<now, conn, cache, pc, req, seen, answers, history, acked>>

----------------------------------------------------------------------------
\* The zero time of the stamps is 0, at least TTL before the start.
Init ==
  /\ now = TTL /\ ver = 0 /\ past = {Current}
  /\ line = NoCall /\ lineAt = 0
  /\ users = NoList /\ usersAt = 0
  /\ profiles = [n \in Names |-> NoList] /\ profilesAt = 0
  /\ pc = [g \in Calls |-> "idle"]
  /\ req = [g \in Calls |-> NoRequest]
  /\ seen = [g \in Calls |-> NoList]
  /\ listed = [g \in Calls |-> NoAnswer]
  /\ profiled = [g \in Calls |-> NoAnswer]
  /\ from = [g \in Calls |-> NoHistory]
  /\ alone = {} /\ acked = 0

Serve(g) ==
  \/ Command(g) \/ Reply(g)
  \/ Drop(g) \/ CheckUsers(g) \/ TakeUsers(g) \/ StoreUsers(g) \/ StampUsers(g)
  \/ CheckProfile(g) \/ StoreProfile(g) \/ StampProfile(g)
  \/ DropUsers(g) \/ DropProfiles(g)

Next ==
  \/ \E g \in Calls : Start(g) \/ Serve(g) \/ Finish(g)
  \/ MapRace \/ Tick \/ Change

Spec == Init /\ [][Next]_vars

\* A goroutine goes on; a sync.Mutex, whose waiters are served in order once
\* they have waited, lets everybody in who waits; commands end.
FairSpec ==
  /\ Spec
  /\ \A g \in Calls : WF_vars(Serve(g)) /\ SF_vars(Command(g))

----------------------------------------------------------------------------
(* Properties.                                                             *)

\* The promise to the handlers: a list shows the router as it was at most a
\* TTL and a command ago, however calls, writes and edits interleave.
View == INSTANCE RouterView
          WITH Bound <- TTL + CmdTime, pending <- InFlight, answer <- listed
ListsAreRecent == View!Spec

\* A call that began after a write was acknowledged does not get a list or
\* profiles from before it: writes invalidate the cache.  A write that meets
\* another call may be hidden for a TTL by what that call puts in the cache.
AckedWriteSeen ==
  \A g \in Calls :
    /\ listed[g] \in Snapshot => listed[g].ver >= from[g].acked
    /\ profiled[g] \in Snapshot => profiled[g].ver >= from[g].acked

\* Even if another call fills the cache between the drop and the check, a
\* refreshed list is at most one command older than its request.
RefreshAlmostLive ==
  \A g \in Calls : req[g].op \in {"refresh", "stats"} /\ listed[g] \in Snapshot
    => listed[g].at + CmdTime >= from[g].at

\* Every call of the cache returns: the lock of the connection is released
\* on every path.
CallsReturn == \A g \in Calls : g \in InFlight ~> g \notin InFlight
=============================================================================
