------------------------- MODULE VpnAccountsProofs -------------------------
(***************************************************************************)
(* Proofs about VpnAccounts, for every number of calls, names and managers *)
(* and every choice of the bounds.                                         *)
(***************************************************************************)
EXTENDS VpnAccounts, FiniteSetTheorems, WellFoundedInduction, TLAPS

\* The steps that only a create takes, and those that it never takes.
CreateSteps == {"quota", "addUser", "certs", "insertRow", "undoUser", "undoRow"}
RowSteps == {"checkUser", "findRow", "adoptRead", "adoptInsert", "adoptFind",
             "patchRead", "patchCheck", "setUser", "updateRead", "updateWrite",
             "assignRead", "removeProfile", "removeUser", "deleteRow", "detail"}

Control ==
  \A r \in Calls :
    /\ pc[r] \in CreateSteps => req[r].op = "create"
    /\ pc[r] \in RowSteps => req[r].op # "create"

TypeInv == TypeOK /\ Control

LEMMA TypeInit == Init => TypeInv
<1> SUFFICES ASSUME Init PROVE TypeInv
  OBVIOUS
<1>1. /\ router \in Routers
      /\ users \in Routers \union {NoList}
      /\ profiles \in [Names -> Profiles \union {NoList}]
  BY ConstantsAssumption DEF Init, NoProfiles
<1>2. rows \subseteq Row
  BY DEF Init, Row, Ids, Present
<1>3. NewLocal \in Local
  BY ConstantsAssumption DEF NewLocal, Local, Owners
<1>4. untold \in BOOLEAN /\ disturbed \subseteq Calls /\ acts \subseteq Act
  BY DEF Init
<1> QED
  BY <1>1, <1>2, <1>3, <1>4, ConstantsAssumption
     DEF Init, TypeInv, TypeOK, Control, CreateSteps, RowSteps, Steps, Replies

\* The type of what the handlers keep, and of what is cached and recorded of it.
Locals  == [Calls -> Local]
CacheTypes ==
  /\ users \in Routers \union {NoList}
  /\ profiles \in [Names -> Profiles \union {NoList}]
  /\ untold \in BOOLEAN

\* What a handler may write into its local variables.
LEMMA LocalWritten ==
  ASSUME mem \in Locals, NEW r \in Calls
  PROVE  /\ \A i \in Ids \union {NoId} : [mem EXCEPT ![r].row = i] \in Locals
         /\ \A o \in Owners, s \in 0..MaxShared :
              [mem EXCEPT ![r].owner = o, ![r].shared = s] \in Locals
         /\ \A o \in Owners : [mem EXCEPT ![r].owner = o] \in Locals
         /\ [mem EXCEPT ![r].wrote = TRUE] \in Locals
  BY DEF Local, Locals

LEMMA OwnerOfType ==
  ASSUME router \in Routers, NEW n \in Names, Present(n)
  PROVE  /\ OwnerOf(n) \in Owners
         /\ router[n] \in Account
         /\ router[n].shared \in 0..MaxShared
  BY ConstantsAssumption DEF Routers, Present, OwnerOf, Resolve, Account

\* What may be written into an account on the router.
LEMMA AccountWritten ==
  ASSUME router \in Routers, NEW n \in Names, Present(n)
  PROVE  /\ \A p \in {"none", "idle", "active"} :
              [router EXCEPT ![n].profile = p] \in Routers
         /\ \A c \in Owners : [router EXCEPT ![n].comment = c] \in Routers
         /\ \A s \in 1..MaxShared : [router EXCEPT ![n].shared = s] \in Routers
         /\ [router EXCEPT ![n].disabled = ~@] \in Routers
<1>1. router[n] \in Account
  BY OwnerOfType
<1> QED
  BY <1>1 DEF Routers, Account, Profiles

LEMMA PatchedType ==
  ASSUME router \in Routers, NEW n \in Names, Present(n),
         NEW q \in Input, NEW c \in Owners
  PROVE  /\ [router EXCEPT ![n] = Patched(@, q, c)] \in Routers
         /\ Patched(router[n], q, c) \in Account
<1>1. router[n] \in Account
  BY OwnerOfType
<1>2. MaxShared \in Nat
  BY ConstantsAssumption
<1>3. (IF q.shared = 0 THEN router[n].shared ELSE q.shared) \in 1..MaxShared
  BY <1>1, <1>2 DEF Account, Input
<1>4. (IF q.disabled = "absent" THEN router[n].disabled
                                ELSE q.disabled = "yes") \in BOOLEAN
  BY <1>1 DEF Account, Input
<1>5. Patched(router[n], q, c) \in Account
  BY <1>1, <1>3, <1>4 DEF Patched, Account
<1> QED
  BY <1>5 DEF Routers

\* Requests that have been made are admissible.
LEMMA RequestType ==
  ASSUME TypeOK, NEW r \in Calls, pc[r] # "idle"
  PROVE  req[r] \in Input /\ req[r].name \in Names /\ req[r].mgr \in Owners
         /\ Admissible(req[r])
  BY ConstantsAssumption DEF TypeOK, Input

\* The types of the lists that may be read.
LEMMA ListsType ==
  ASSUME router \in Routers, CacheTypes
  PROVE  /\ UsersNow \in Routers /\ UsersRead \subseteq Routers
         /\ \A n \in Names : /\ ProfilesNow(n) \in Profiles
                             /\ ProfilesRead(n) \subseteq Profiles
         /\ NoProfiles \in [Names -> Profiles \union {NoList}]
<1>1. ASSUME NEW n \in Names, Present(n)
      PROVE  [router[n] EXCEPT !.profile = "none"] \in Account
  <2>1. router[n] \in Account
    BY <1>1, OwnerOfType
  <2> QED
    BY <2>1 DEF Account, Profiles
<1>2. UsersNow \in Routers
  BY <1>1 DEF UsersNow, Routers
<1>3. ASSUME NEW n \in Names PROVE ProfilesNow(n) \in Profiles
  <2>1. Present(n) => router[n] \in Account
    BY OwnerOfType
  <2> QED
    BY <2>1 DEF ProfilesNow, Account, Profiles
<1>4. \A n \in Names : ProfilesRead(n) \subseteq Profiles
  BY <1>3 DEF ProfilesRead, CacheTypes
<1>5. NoProfiles \in [Names -> Profiles \union {NoList}]
  BY DEF NoProfiles
<1> QED
  BY <1>2, <1>3, <1>4, <1>5 DEF UsersRead, CacheTypes

LEMMA GetUserType ==
  ASSUME router \in Routers, CacheTypes, NEW n \in Names,
         NEW a \in GetUser(n) \ {NoAccount}
  PROVE  a \in Account /\ Resolve(n, a.comment) \in Owners /\ a.shared \in 0..MaxShared
<1>1. a \in Account
  BY ListsType DEF GetUser, Routers
<1> QED
  BY <1>1, ConstantsAssumption DEF Resolve, Account

LEMMA LocalsStep ==
  ASSUME TypeInv, NEW r \in Calls, Serve(r)
  PROVE  mem' \in Locals
<1>1. /\ mem \in Locals /\ router \in Routers /\ CacheTypes
      /\ rows \subseteq Row /\ TypeOK
  BY DEF TypeInv, TypeOK, Locals, CacheTypes
<1>2. CASE AddUser(r)
  BY <1>1, <1>2, LocalWritten DEF AddUser, Writes, NoWrite
<1>3. CASE InsertRow(r)
  BY <1>1, <1>3, LocalWritten DEF InsertRow, Ids, NoWrite
<1>4. CASE FindRow(r)
  <2>1. \A x \in Named(req[r].name) : x.id \in Ids \union {NoId}
    BY <1>1 DEF Named, Row
  <2>2. ASSUME NEW x \in Named(req[r].name), mem' = [mem EXCEPT ![r].row = x.id]
        PROVE  mem' \in Locals
    BY <1>1, <2>1, <2>2, LocalWritten
  <2> QED
    BY <1>1, <1>4, <2>2 DEF FindRow
<1>5. CASE AdoptRead(r)
  <2>1. req[r].name \in Names
    BY <1>1, <1>5, RequestType DEF AdoptRead
  <2>2. ASSUME NEW a \in GetUser(req[r].name) \ {NoAccount},
               mem' = [mem EXCEPT ![r].owner = Resolve(req[r].name, a.comment)]
        PROVE  mem' \in Locals
    BY <1>1, <2>1, <2>2, GetUserType, LocalWritten
  <2> QED
    BY <1>1, <1>5, <2>2 DEF AdoptRead
<1>6. CASE AdoptInsert(r)
  BY <1>1, <1>6, LocalWritten DEF AdoptInsert, Ids, NoWrite
<1>7. CASE AdoptFind(r)
  <2>1. \A x \in Named(req[r].name) : x.id \in Ids \union {NoId}
    BY <1>1 DEF Named, Row
  <2>2. ASSUME NEW x \in Named(req[r].name), mem' = [mem EXCEPT ![r].row = x.id]
        PROVE  mem' \in Locals
    BY <1>1, <2>1, <2>2, LocalWritten
  <2> QED
    BY <1>1, <1>7, <2>2 DEF AdoptFind
<1>8. CASE PatchRead(r)
  <2>1. req[r].name \in Names
    BY <1>1, <1>8, RequestType DEF PatchRead
  <2>2. ASSUME NEW a \in GetUser(req[r].name) \ {NoAccount},
               mem' = [mem EXCEPT ![r].owner = Resolve(req[r].name, a.comment),
                                 ![r].shared = a.shared]
        PROVE  mem' \in Locals
    BY <1>1, <2>1, <2>2, GetUserType, LocalWritten
  <2> QED
    BY <1>1, <1>8, <2>2 DEF PatchRead
<1>9. CASE SetUser(r)
  BY <1>1, <1>9, LocalWritten DEF SetUser, Writes, NoWrite
<1>10. CASE UpdateRead(r)
  <2>1. \A x \in rows :
          (IF req[r].mgr = NoOwner THEN x.mgr ELSE req[r].mgr) \in Owners
    BY <1>1, <1>10, RequestType DEF Row, UpdateRead
  <2> QED
    BY <1>1, <1>10, <2>1, LocalWritten DEF UpdateRead
<1>11. CASE UNCHANGED mem
  BY <1>1, <1>11
<1> QED
  BY <1>2, <1>3, <1>4, <1>5, <1>6, <1>7, <1>8, <1>9, <1>10, <1>11
     DEF Serve, Kept, CheckQuota, SetupCerts, AddProfile, Record, UndoUser,
         UndoRow, PatchCheck, UpdateWrite, AssignRead, RemoveProfile,
         CheckUser, RemoveUser, DeleteRow, Detail, Reads, tables, Writes, NoWrite

LEMMA RouterStep ==
  ASSUME TypeInv, NEW r \in Calls, Serve(r)
  PROVE  router' \in Routers
<1>1. router \in Routers /\ mem \in Locals /\ TypeOK /\ Control
  BY DEF TypeInv, TypeOK, Routers, Locals
<1>2. CASE AddUser(r)
  <2>1. req[r].op = "create" /\ req[r].shared # 0
    BY <1>1, <1>2, RequestType
       DEF AddUser, Control, CreateSteps, Admissible, Writes, NoWrite
  <2>2. NewAccount(r) \in Account
    BY <1>1, <1>2, <2>1, RequestType
       DEF AddUser, NewAccount, Account, Profiles, Input, Ids, Writes, NoWrite
  <2>3. [router EXCEPT ![req[r].name] = NewAccount(r)] \in Routers
    BY <1>1, <2>2 DEF Routers
  <2> QED
    BY <1>1, <1>2, <2>3 DEF AddUser, FailedWrite, Writes, NoWrite
<1>3. CASE AddProfile(r)
  BY <1>1, <1>3, AccountWritten, RequestType
     DEF AddProfile, FailedWrite, Writes, NoWrite
<1>4. ASSUME UndoUser(r) \/ RemoveUser(r)
      PROVE  router' \in Routers
  BY <1>1, <1>4 DEF UndoUser, RemoveUser, FailedWrite, Routers, Writes, NoWrite
<1>5. CASE SetUser(r)
  <2>1. Present(req[r].name) => CommentsWritten(r) \subseteq Owners
    BY <1>1, <1>5, RequestType, OwnerOfType
       DEF SetUser, CommentsWritten, Locals, Local, Account, Owners, Writes, NoWrite
  <2> QED
    BY <1>1, <1>5, <2>1, PatchedType, RequestType
       DEF SetUser, FailedWrite, Writes, NoWrite
<1>6. CASE RemoveProfile(r)
  BY <1>1, <1>6, AccountWritten, RequestType
     DEF RemoveProfile, FailedWrite, Writes, NoWrite
<1>7. CASE UNCHANGED router
  BY <1>1, <1>7
<1> QED
  BY <1>2, <1>3, <1>4, <1>5, <1>6, <1>7
     DEF Serve, tables, CheckQuota, SetupCerts, InsertRow, Record, UndoRow,
         FindRow, AdoptRead, AdoptInsert, AdoptFind, PatchRead, PatchCheck,
         UpdateRead, UpdateWrite, AssignRead, CheckUser, DeleteRow, Detail, Reads,
         NoWrite

LEMMA TablesStep ==
  ASSUME TypeInv, NEW r \in Calls, Serve(r)
  PROVE  rows' \subseteq Row /\ acts' \subseteq Act
<1>1. rows \subseteq Row /\ acts \subseteq Act /\ mem \in Locals /\ TypeOK
  BY DEF TypeInv, TypeOK, Locals
<1>2. mem[r].owner \in Owners
  BY <1>1 DEF Locals, Local
<1>3. CASE InsertRow(r)
  BY <1>1, <1>3, RequestType DEF InsertRow, NewRow, Row, Ids, NoWrite
<1>4. CASE AdoptInsert(r)
  BY <1>1, <1>2, <1>4, RequestType DEF AdoptInsert, NewRow, Row, Ids, NoWrite
<1>5. CASE Record(r)
  BY <1>1, <1>5 DEF Record, RowExists, Row, Act
<1>6. ASSUME UndoRow(r) \/ DeleteRow(r)
      PROVE  rows' \subseteq Row /\ acts' \subseteq Act
  BY <1>1, <1>6 DEF UndoRow, DeleteRow, DeleteRowOf, NoWrite
<1>7. CASE UpdateWrite(r)
  <2>1. \A x \in rows : [x EXCEPT !.mgr = mem[r].owner] \in Row
    BY <1>1, <1>2 DEF Row
  <2> QED
    BY <1>1, <1>7, <2>1 DEF UpdateWrite, NoWrite
<1>8. CASE UNCHANGED <<rows, acts>>
  BY <1>1, <1>8
<1> QED
  BY <1>3, <1>4, <1>5, <1>6, <1>7, <1>8
     DEF Serve, tables, CheckQuota, AddUser, SetupCerts, AddProfile, UndoUser,
         FindRow, AdoptRead, AdoptFind, PatchRead, PatchCheck, SetUser,
         UpdateRead, AssignRead, RemoveProfile, CheckUser, RemoveUser, Detail,
         Reads, Writes, NoWrite

\* What a step of a handler does to what is cached: a list is stored or dropped with
\* a write, or the lists stay, and if then no change is missing, nothing has changed.
LEMMA CacheMoves ==
  ASSUME untold \in BOOLEAN, NEW r \in Calls, Serve(r)
  PROVE  \/ \E new : Writes(new)
         \/ /\ UNCHANGED <<users, profiles>>
            /\ untold' \in BOOLEAN
            /\ untold \/ router' # router => untold'
<1> USE DEF cache, NoWrite, tables, Reads
<1>1. CASE AddUser(r)
  BY <1>1 DEF AddUser, FailedWrite
<1>2. CASE AddProfile(r)
  BY <1>2 DEF AddProfile, FailedWrite
<1>3. CASE UndoUser(r)
  BY <1>3 DEF UndoUser, FailedWrite
<1>4. CASE SetUser(r)
  BY <1>4 DEF SetUser, FailedWrite
<1>5. CASE RemoveProfile(r)
  BY <1>5 DEF RemoveProfile, FailedWrite
<1>6. CASE RemoveUser(r)
  BY <1>6 DEF RemoveUser, FailedWrite
<1>7. CASE UNCHANGED cache /\ UNCHANGED router
  BY <1>7
<1> QED
  BY <1>1, <1>2, <1>3, <1>4, <1>5, <1>6, <1>7
     DEF Serve, CheckQuota, SetupCerts, InsertRow, Record, UndoRow, FindRow,
         AdoptRead,
         AdoptInsert, AdoptFind, PatchRead, PatchCheck, UpdateRead, UpdateWrite,
         AssignRead, CheckUser, DeleteRow, Detail

\* What it records: whom it disturbs, or that a list it has read may lack a change.
LEMMA DisturbMoves ==
  ASSUME NEW r \in Calls, Serve(r)
  PROVE  \/ Disturb({r})
         \/ Reads(r)
         \/ UNCHANGED <<router, rows, disturbed>>
<1> QED
  BY DEF Serve, tables, Reads, CheckQuota, AddUser, SetupCerts, InsertRow, AddProfile,
         Record, UndoUser, UndoRow, FindRow, AdoptRead, AdoptInsert, AdoptFind,
         PatchRead, PatchCheck, SetUser, UpdateRead, UpdateWrite, AssignRead,
         RemoveProfile, CheckUser, RemoveUser, DeleteRow, Detail

LEMMA WritesLists ==
  ASSUME router \in Routers, CacheTypes, NEW new, Writes(new)
  PROVE  CacheTypes'
<1>1. CASE Dropped /\ untold' = FALSE
  BY <1>1, ListsType DEF Dropped, CacheTypes
<1>2. CASE untold' = TRUE /\ users' \in UsersRead /\ profiles' = NoProfiles
  BY <1>2, ListsType DEF CacheTypes
<1>3. ASSUME untold' = TRUE, NEW n \in Names, NEW p \in ProfilesRead(n),
             users' = NoList, profiles' = [NoProfiles EXCEPT ![n] = p]
      PROVE  CacheTypes'
  BY <1>3, ListsType DEF CacheTypes
<1> QED
  BY <1>1, <1>2, <1>3 DEF Writes, StoredLate

LEMMA DisturbType ==
  ASSUME disturbed \subseteq Calls, NEW by, Disturb(by)
  PROVE  disturbed' \subseteq Calls
  BY DEF Disturb, InFlight

LEMMA CacheStep ==
  ASSUME TypeInv, NEW r \in Calls, Serve(r)
  PROVE  CacheTypes' /\ disturbed' \subseteq Calls
<1>1. router \in Routers /\ CacheTypes /\ disturbed \subseteq Calls /\ untold \in BOOLEAN
  BY DEF TypeInv, TypeOK, CacheTypes
<1>2. CacheTypes'
  BY <1>1, CacheMoves, WritesLists DEF CacheTypes
<1>3. disturbed' \subseteq Calls
  BY <1>1, DisturbMoves, DisturbType DEF Reads
<1> QED
  BY <1>2, <1>3

\* The control flow of one handler, and what the others see of it.
Flow ==
  /\ pc \in [Calls -> Steps]
  /\ req \in [Calls -> Inputs \union {NoInput}]
  /\ \A r \in Calls : req[r] = NoInput <=> pc[r] = "idle"
  /\ reply \in [Calls -> Replies]
  /\ failedAt \in [Calls -> SUBSET Steps]
  /\ faults \in 0..MaxFaults /\ crashes \in 0..MaxCrashes
  /\ edits \in 0..MaxEdits
  /\ Control

LEMMA FlowStep ==
  ASSUME Flow, NEW r \in Calls, Serve(r)
  PROVE  Flow'
<1> USE DEF Flow, Control, tables, bounds, Kept, Works, Fails, Go, Answer,
            Steps, Replies, CreateSteps, RowSteps
<1>0. MaxFaults \in Nat
  BY ConstantsAssumption
<1>1. CASE CheckQuota(r)
  BY <1>0, <1>1 DEF CheckQuota, Reads, tables
<1>2. CASE AddUser(r)
  BY <1>0, <1>2 DEF AddUser, FailedWrite, OnNameTaken, Writes, NoWrite
<1>3. CASE SetupCerts(r)
  BY <1>0, <1>3 DEF SetupCerts
<1>4. CASE InsertRow(r)
  BY <1>0, <1>4 DEF InsertRow, OnInsertRefused, NoWrite
<1>5. CASE AddProfile(r)
  BY <1>0, <1>5 DEF AddProfile, FailedWrite, OnProfileRefused, Writes, NoWrite
<1>6. CASE Record(r)
  BY <1>0, <1>6 DEF Record
<1>7. CASE UndoUser(r)
  BY <1>0, <1>7 DEF UndoUser, FailedWrite, Writes, NoWrite
<1>8. CASE UndoRow(r)
  BY <1>0, <1>8 DEF UndoRow, NoWrite
<1>9. CASE FindRow(r)
  BY <1>0, <1>9 DEF FindRow, StepWithRow
<1>10. CASE AdoptRead(r)
  BY <1>0, <1>10 DEF AdoptRead, Reads, tables
<1>11. CASE AdoptInsert(r)
  BY <1>0, <1>11 DEF AdoptInsert, StepWithRow, NoWrite
<1>12. CASE AdoptFind(r)
  BY <1>0, <1>12 DEF AdoptFind, StepWithRow
<1>13. CASE PatchRead(r)
  <2>1. /\ pc[r] = "patchRead" /\ UNCHANGED <<req, bounds>>
        /\ \/ Works /\ Go(r, "patchCheck")
           \/ (Works \/ Fails(r)) /\ Answer(r, "error")
    BY <1>13 DEF PatchRead
  <2> QED
    BY <1>0, <2>1
<1>14. CASE PatchCheck(r)
  BY <1>0, <1>14 DEF PatchCheck, Reads, tables
<1>15. CASE SetUser(r)
  BY <1>0, <1>15 DEF SetUser, FailedWrite, Writes, NoWrite
<1>16. CASE UpdateRead(r)
  BY <1>0, <1>16 DEF UpdateRead
<1>17. CASE UpdateWrite(r)
  BY <1>0, <1>17 DEF UpdateWrite, NoWrite
<1>18. CASE AssignRead(r)
  BY <1>0, <1>18 DEF AssignRead, Reads, tables
<1>19. CASE RemoveProfile(r)
  BY <1>0, <1>19 DEF RemoveProfile, FailedWrite, Writes, NoWrite
<1>20. CASE CheckUser(r)
  BY <1>0, <1>20 DEF CheckUser, Reads, tables
<1>21. CASE RemoveUser(r)
  BY <1>0, <1>21 DEF RemoveUser, FailedWrite, Writes, NoWrite
<1>22. CASE DeleteRow(r)
  BY <1>0, <1>22 DEF DeleteRow, NoWrite
<1>23. CASE Detail(r)
  BY <1>0, <1>23 DEF Detail, Reads, tables
<1> QED
  BY <1>1, <1>2, <1>3, <1>4, <1>5, <1>6, <1>7, <1>8, <1>9, <1>10, <1>11,
     <1>12, <1>13, <1>14, <1>15, <1>16, <1>17, <1>18, <1>19, <1>20, <1>21,
     <1>22, <1>23 DEF Serve

LEMMA TypeStep == TypeInv /\ [Next]_vars => TypeInv'
<1> SUFFICES ASSUME TypeInv, [Next]_vars PROVE TypeInv'
  OBVIOUS
<1>1. TypeInv <=> /\ Flow /\ mem \in Locals /\ router \in Routers
                  /\ rows \subseteq Row /\ acts \subseteq Act
                  /\ CacheTypes /\ disturbed \subseteq Calls
  BY DEF TypeInv, TypeOK, Flow, Locals, CacheTypes
<1>2. TypeInv' <=> /\ Flow' /\ mem' \in Locals /\ router' \in Routers
                   /\ rows' \subseteq Row /\ acts' \subseteq Act
                   /\ CacheTypes' /\ disturbed' \subseteq Calls
  BY DEF TypeInv, TypeOK, Flow, Locals, CacheTypes
<1>3. ASSUME NEW r \in Calls, Start(r) PROVE TypeInv'
  <2>1. Flow'
    BY <1>1, <1>3, ConstantsAssumption
       DEF Start, Flow, Control, bounds, FirstStep, Steps, CreateSteps,
           RowSteps
  <2> QED
    BY <1>1, <1>2, <1>3, <2>1 DEF Start, tables, cache, CacheTypes
<1>4. ASSUME NEW r \in Calls, Serve(r) PROVE TypeInv'
  BY <1>1, <1>2, <1>4, FlowStep, LocalsStep, RouterStep, TablesStep, CacheStep
<1>5. ASSUME NEW n \in Names, Expire(n) PROVE TypeInv'
  <2>1. router' \in Routers
    BY <1>1, <1>5, AccountWritten DEF Expire
  <2>2. Flow'
    BY <1>1, <1>5 DEF Expire, Flow, Control, bounds
  <2> QED
    BY <1>1, <1>2, <1>5, <2>1, <2>2 DEF Expire, cache, CacheTypes
<1>6. ASSUME NEW n \in Names, WinboxEdit(n) PROVE TypeInv'
  <2>1. router' \in Routers
    <3>1. [router EXCEPT ![n] = NoAccount] \in Routers
      BY <1>1 DEF Routers
    <3>2. ASSUME NEW c \in Owners, router' = [router EXCEPT ![n].comment = c]
          PROVE  router' \in Routers
      BY <1>1, <1>6, <3>2, AccountWritten DEF WinboxEdit
    <3>3. ASSUME NEW s \in 1..MaxShared, router' = [router EXCEPT ![n].shared = s]
          PROVE  router' \in Routers
      BY <1>1, <1>6, <3>3, AccountWritten DEF WinboxEdit
    <3>4. [router EXCEPT ![n].disabled = ~@] \in Routers
      BY <1>1, <1>6, AccountWritten DEF WinboxEdit
    <3> QED
      BY <1>6, <3>1, <3>2, <3>3, <3>4 DEF WinboxEdit
  <2>2. Flow'
    BY <1>1, <1>6, ConstantsAssumption DEF WinboxEdit, Flow, Control
  <2> QED
    BY <1>1, <1>2, <1>6, <2>1, <2>2, DisturbType DEF WinboxEdit, CacheTypes
<1>7. ASSUME Crash PROVE TypeInv'
  <2>1. Flow'
    BY <1>1, <1>7, ConstantsAssumption
       DEF Crash, Flow, Control, InFlight, Steps, CreateSteps, RowSteps
  <2> QED
    BY <1>1, <1>2, <1>7, <2>1, ListsType DEF Crash, tables, CacheTypes
<1>8. ASSUME Fill PROVE TypeInv'
  <2>1. Flow'
    BY <1>1, <1>8 DEF Fill, Flow, Control, bounds
  <2>2. CacheTypes'
    BY <1>1, <1>8, ListsType DEF Fill, CacheTypes
  <2> QED
    BY <1>1, <1>2, <1>8, <2>1, <2>2 DEF Fill, tables
<1>9. ASSUME UNCHANGED vars PROVE TypeInv'
  BY <1>1, <1>2, <1>9 DEF vars, tables, cache, bounds, Flow, Control, CacheTypes
<1> QED
  BY <1>3, <1>4, <1>5, <1>6, <1>7, <1>8, <1>9 DEF Next, AllAnswered

\* Every reachable state has its types: in particular an account never has
\* shared-users of 0, and every row and activation is made of known values.
THEOREM TypeCorrect == Spec => []TypeOK
<1>1. TypeInv => TypeOK
  BY DEF TypeInv
<1> QED
  BY <1>1, TypeInit, TypeStep, PTL DEF Spec

----------------------------------------------------------------------------
(* The tables: one row per id and per name, and no dangling activation.    *)

\* The steps of a call that has not inserted its row yet.
BeforeInsert == {"idle", "quota", "addUser", "certs", "insertRow", "checkUser",
                 "findRow", "adoptRead", "adoptInsert"}

Fresh == \A r \in Calls : pc[r] \in BeforeInsert => \A x \in rows : x.id # r

TablesInv == TypeInv /\ RowsUnique /\ Fresh /\ LedgerIntact

\* The five things that a handler does to the tables.
InsertsRow(r) ==
  /\ pc[r] \in BeforeInsert /\ pc'[r] \notin BeforeInsert
  /\ Named(req[r].name) = {}
  /\ \E o \in Owners : rows' = rows \union {NewRow(r, o)}
  /\ acts' = acts
AddsActivation(r) ==
  /\ rows' = rows /\ RowExists(mem[r].row)
  /\ acts' = acts \union {[id |-> r, row |-> mem[r].row]}
DeletesRow(r) ==
  /\ DeleteRowOf(r)
  /\ Stepped(r, "undoRow") \/ Stepped(r, "deleteRow")
UpdatesRow(r) ==
  /\ pc[r] = "updateWrite"
  /\ rows' = {IF x.id = mem[r].row THEN [x EXCEPT !.mgr = mem[r].owner]
                                   ELSE x : x \in rows}
  /\ acts' = acts

LEMMA TablesChange ==
  ASSUME TypeInv, NEW r \in Calls, Serve(r)
  PROVE  \/ UNCHANGED <<rows, acts>>
         \/ InsertsRow(r) \/ AddsActivation(r) \/ DeletesRow(r) \/ UpdatesRow(r)
<1> DEFINE Goal == \/ UNCHANGED <<rows, acts>>
                   \/ InsertsRow(r) \/ AddsActivation(r)
                   \/ DeletesRow(r) \/ UpdatesRow(r)
<1>1. pc \in [Calls -> Steps] /\ mem \in Locals /\ TypeOK /\ Control
  BY DEF TypeInv, TypeOK, Locals
<1>2. CASE InsertRow(r)
  <2>1. req[r].mgr \in Owners
    BY <1>1, <1>2, RequestType DEF InsertRow, NoWrite
  <2> QED
    BY <1>1, <1>2, <2>1
       DEF InsertRow, InsertsRow, NameFree, OnInsertRefused, BeforeInsert, Go,
           Answer, NoWrite
<1>3. CASE AdoptInsert(r)
  <2>1. mem[r].owner \in Owners
    BY <1>1 DEF Locals, Local
  <2> QED
    BY <1>1, <1>3, <2>1
       DEF AdoptInsert, InsertsRow, NameFree, BeforeInsert, Go, StepWithRow, NoWrite
<1>4. CASE Record(r)
  BY <1>4 DEF Record, AddsActivation
<1>5. ASSUME UndoRow(r) \/ DeleteRow(r) PROVE Goal
  BY <1>1, <1>5 DEF UndoRow, DeleteRow, DeletesRow, Stepped, Answer, NoWrite
<1>6. CASE UpdateWrite(r)
  BY <1>6 DEF UpdateWrite, UpdatesRow, NoWrite
<1>7. CASE UNCHANGED <<rows, acts>>
  BY <1>7
<1> QED
  BY <1>2, <1>3, <1>4, <1>5, <1>6, <1>7
     DEF Serve, tables, CheckQuota, AddUser, SetupCerts, AddProfile, UndoUser,
         FindRow, AdoptRead, AdoptFind, PatchRead, PatchCheck, SetUser,
         UpdateRead, AssignRead, RemoveProfile, CheckUser, RemoveUser, Detail,
         Reads, Writes, NoWrite

\* A handler moves its own program counter only, and never back to a step
\* before the insertion of its row.
LEMMA Progress ==
  ASSUME Flow, NEW r \in Calls, Serve(r)
  PROVE  /\ \A k \in Calls \ {r} : pc'[k] = pc[k]
         /\ pc'[r] \in BeforeInsert => pc[r] \in BeforeInsert
         /\ pc[r] # "idle"
         /\ req' = req
<1> USE DEF Flow, Go, Answer, Kept, BeforeInsert
<1>1. CASE CheckQuota(r)
  BY <1>1 DEF CheckQuota, Reads, tables
<1>2. CASE AddUser(r)
  BY <1>2 DEF AddUser, OnNameTaken, Writes, NoWrite
<1>3. CASE SetupCerts(r)
  BY <1>3 DEF SetupCerts
<1>4. CASE InsertRow(r)
  BY <1>4 DEF InsertRow, OnInsertRefused, NoWrite
<1>5. CASE AddProfile(r)
  BY <1>5 DEF AddProfile, OnProfileRefused, Writes, NoWrite
<1>6. CASE Record(r)
  BY <1>6 DEF Record
<1>7. CASE UndoUser(r)
  BY <1>7 DEF UndoUser, Writes, NoWrite
<1>8. CASE UndoRow(r)
  BY <1>8 DEF UndoRow, NoWrite
<1>9. CASE FindRow(r)
  BY <1>9 DEF FindRow, StepWithRow
<1>10. CASE AdoptRead(r)
  BY <1>10 DEF AdoptRead, Reads, tables
<1>11. CASE AdoptInsert(r)
  BY <1>11 DEF AdoptInsert, StepWithRow, NoWrite
<1>12. CASE AdoptFind(r)
  BY <1>12 DEF AdoptFind, StepWithRow
<1>13. CASE PatchRead(r)
  BY <1>13 DEF PatchRead, Reads, tables
<1>14. CASE PatchCheck(r)
  BY <1>14 DEF PatchCheck, Reads, tables
<1>15. CASE SetUser(r)
  BY <1>15 DEF SetUser, Writes, NoWrite
<1>16. CASE UpdateRead(r)
  BY <1>16 DEF UpdateRead
<1>17. CASE UpdateWrite(r)
  BY <1>17 DEF UpdateWrite, NoWrite
<1>18. CASE AssignRead(r)
  BY <1>18 DEF AssignRead, Reads, tables
<1>19. CASE RemoveProfile(r)
  BY <1>19 DEF RemoveProfile, Writes, NoWrite
<1>20. CASE CheckUser(r)
  BY <1>20 DEF CheckUser, Reads, tables
<1>21. CASE RemoveUser(r)
  BY <1>21 DEF RemoveUser, Writes, NoWrite
<1>22. CASE DeleteRow(r)
  BY <1>22 DEF DeleteRow, NoWrite
<1>23. CASE Detail(r)
  BY <1>23 DEF Detail, Reads, tables
<1> QED
  BY <1>1, <1>2, <1>3, <1>4, <1>5, <1>6, <1>7, <1>8, <1>9, <1>10, <1>11,
     <1>12, <1>13, <1>14, <1>15, <1>16, <1>17, <1>18, <1>19, <1>20, <1>21,
     <1>22, <1>23 DEF Serve

LEMMA TablesInit == Init => TablesInv
<1> SUFFICES ASSUME Init PROVE TablesInv
  OBVIOUS
<1>1. \A x, y \in rows : x.id \in Names /\ x.id = x.name
  BY DEF Init
<1>2. \A x, y \in rows : x.id = y.id => x = y
  BY DEF Init
<1> QED
  BY <1>1, <1>2, TypeInit, ConstantsAssumption
     DEF TablesInv, RowsUnique, Fresh, LedgerIntact, Init

LEMMA TablesStepInv == TablesInv /\ [Next]_vars => TablesInv'
<1> SUFFICES ASSUME TablesInv, [Next]_vars PROVE TablesInv'
  OBVIOUS
<1>1. TypeInv /\ TypeInv' /\ Flow /\ rows \subseteq Row
  BY TypeStep DEF TablesInv, TypeInv, TypeOK, Flow
<1>2. ASSUME NEW r \in Calls, Serve(r)
      PROVE  RowsUnique' /\ Fresh' /\ LedgerIntact'
  <2>1. \A k \in Calls : pc'[k] \in BeforeInsert => pc[k] \in BeforeInsert
    BY <1>1, <1>2, Progress
  <2>2. CASE UNCHANGED <<rows, acts>>
    BY <2>1, <2>2 DEF TablesInv, RowsUnique, Fresh, LedgerIntact
  <2>3. CASE InsertsRow(r)
    <3>1. PICK o \in Owners : rows' = rows \union {NewRow(r, o)}
      BY <2>3 DEF InsertsRow
    <3>2. \A x \in rows : x.id # r /\ x.name # req[r].name
      BY <2>3 DEF InsertsRow, TablesInv, Fresh, Named
    <3>3. NewRow(r, o).id = r /\ NewRow(r, o).name = req[r].name
      BY DEF NewRow
    <3>4. RowsUnique'
      BY <3>1, <3>2, <3>3 DEF TablesInv, RowsUnique
    <3>5. Fresh'
      BY <2>1, <2>3, <3>1, <3>3 DEF TablesInv, Fresh, InsertsRow
    <3>6. LedgerIntact'
      BY <2>3, <3>1 DEF TablesInv, LedgerIntact, InsertsRow
    <3> QED
      BY <3>4, <3>5, <3>6
  <2>4. CASE AddsActivation(r)
    BY <2>1, <2>4
       DEF AddsActivation, RowExists, TablesInv, RowsUnique, Fresh,
           LedgerIntact
  <2>5. CASE DeletesRow(r)
    BY <2>1, <2>5
       DEF DeletesRow, DeleteRowOf, TablesInv, RowsUnique, Fresh, LedgerIntact
  <2>6. CASE UpdatesRow(r)
    <3>1. \A y \in rows' : \E x \in rows :
            /\ y.id = x.id /\ y.name = x.name
            /\ y = IF x.id = mem[r].row THEN [x EXCEPT !.mgr = mem[r].owner] ELSE x
      BY <1>1, <2>6 DEF UpdatesRow, Row
    <3>2. ASSUME NEW x \in rows
          PROVE  \E y \in rows' : y.id = x.id
      <4> DEFINE y == IF x.id = mem[r].row THEN [x EXCEPT !.mgr = mem[r].owner] ELSE x
      <4>1. y \in rows'
        BY <2>6 DEF UpdatesRow
      <4>2. y.id = x.id
        BY <1>1 DEF Row
      <4> QED
        BY <4>1, <4>2
    <3>3. RowsUnique'
      BY <3>1 DEF TablesInv, RowsUnique
    <3>4. Fresh'
      BY <2>1, <3>1 DEF TablesInv, Fresh
    <3>5. LedgerIntact'
      <4>1. ASSUME NEW a \in acts' PROVE \E y \in rows' : y.id = a.row
        <5>1. PICK x \in rows : x.id = a.row
          BY <2>6 DEF UpdatesRow, TablesInv, LedgerIntact
        <5> QED
          BY <5>1, <3>2
      <4> QED
        BY <4>1 DEF LedgerIntact
    <3> QED
      BY <3>3, <3>4, <3>5
  <2> QED
    BY <1>1, <1>2, <2>2, <2>3, <2>4, <2>5, <2>6, TablesChange
<1>3. ASSUME UNCHANGED <<rows, acts>>,
             \A k \in Calls : pc'[k] \in BeforeInsert => pc[k] \in BeforeInsert
      PROVE  RowsUnique' /\ Fresh' /\ LedgerIntact'
  BY <1>3 DEF TablesInv, RowsUnique, Fresh, LedgerIntact
<1>4. ASSUME NEW r \in Calls, Start(r)
      PROVE  /\ UNCHANGED <<rows, acts>>
             /\ \A k \in Calls : pc'[k] \in BeforeInsert => pc[k] \in BeforeInsert
  BY <1>1, <1>4 DEF Start, tables, Flow, BeforeInsert
<1>5. ASSUME \/ \E n \in Names : Expire(n) \/ WinboxEdit(n)
             \/ Fill \/ Crash \/ UNCHANGED vars
      PROVE  /\ UNCHANGED <<rows, acts>>
             /\ \A k \in Calls : pc'[k] \in BeforeInsert => pc[k] \in BeforeInsert
  BY <1>1, <1>5 DEF Expire, WinboxEdit, Fill, Crash, vars, tables, BeforeInsert
<1> QED
  BY <1>1, <1>2, <1>3, <1>4, <1>5 DEF Next, AllAnswered, TablesInv

\* However create handlers and ensureVPNMeta race to insert it, there is one
\* row per id and one per account name.
THEOREM RowsAlwaysUnique == Spec => []RowsUnique
<1>1. TablesInv => RowsUnique
  BY DEF TablesInv
<1> QED
  BY <1>1, TablesInit, TablesStepInv, PTL DEF Spec

\* No activation outlives its row, although recordActivation runs long after
\* the row was looked up.
THEOREM LedgerAlwaysIntact == Spec => []LedgerIntact
<1>1. TablesInv => LedgerIntact
  BY DEF TablesInv
<1> QED
  BY <1>1, TablesInit, TablesStepInv, PTL DEF Spec

----------------------------------------------------------------------------
(* What a create may call its own.                                         *)

\* The locals of a create: its row, if any, is the one it inserted itself,
\* and once it may undo anything the router has acknowledged its account.
OwnLocals(r) ==
  /\ pc[r] = "idle" => mem[r].row = NoId
  /\ pc[r] # "idle" /\ req[r].op = "create" =>
       /\ mem[r].row \in {NoId, r}
       /\ pc[r] \in {"certs", "insertRow", "addProfile", "undoUser"}
            => mem[r].wrote
  /\ pc[r] = "undoRow" => mem[r].row # NoId

\* The account that a call put on the router has the name of its request.
OwnAccount(n, r) ==
  Present(n) /\ router[n].id = r => pc[r] # "idle" /\ n = req[r].name

OwnInv ==
  /\ TypeInv
  /\ \A r \in Calls : OwnLocals(r)
  /\ \A r \in Calls, n \in Names : OwnAccount(n, r)

LEMMA OwnInit == Init => OwnInv
<1> SUFFICES ASSUME Init PROVE OwnInv
  OBVIOUS
<1>1. TypeInv
  BY TypeInit
<1>2. \A r \in Calls : OwnLocals(r)
  BY DEF Init, OwnLocals, NewLocal
<1>3. \A n \in Names : Present(n) => router[n].id = n
  BY ConstantsAssumption DEF Init, Present
<1>4. \A r \in Calls, n \in Names : OwnAccount(n, r)
  BY <1>3, ConstantsAssumption DEF OwnAccount
<1> QED
  BY <1>1, <1>2, <1>4 DEF OwnInv

LEMMA OwnLocalsStep ==
  ASSUME TypeInv, NEW r \in Calls, Serve(r), OwnLocals(r)
  PROVE  OwnLocals(r)'
<1>1. mem \in Locals /\ pc \in [Calls -> Steps] /\ mem[r] \in Local /\ NoId \notin Ids
  BY ConstantsAssumption DEF TypeInv, TypeOK, Locals
<1>2. Control /\ pc[r] # "idle" /\ req' = req /\ Flow
  BY Progress DEF TypeInv, TypeOK, Flow
<1> USE <1>1, <1>2 DEF OwnLocals, Control, CreateSteps, RowSteps, Go, Answer,
                       Kept
<1>3. CASE CheckQuota(r)
  BY <1>3 DEF CheckQuota, Reads, tables
<1>4. CASE AddUser(r)
  <2>1. mem'[r] = mem[r] \/ mem'[r] = [mem[r] EXCEPT !.wrote = TRUE]
    <3>1. mem' = mem \/ mem' = [mem EXCEPT ![r].wrote = TRUE]
      BY <1>4 DEF AddUser, Writes, NoWrite
    <3> QED
      BY <3>1 DEF Locals
  <2>2. mem'[r].row = mem[r].row /\ (pc'[r] = "certs" => mem'[r].wrote)
    BY <1>4, <2>1 DEF AddUser, OnNameTaken, Local, Locals, Writes, NoWrite
  <2> QED
    BY <1>4, <2>2 DEF AddUser, OnNameTaken, Writes, NoWrite
<1>5. CASE SetupCerts(r)
  BY <1>5 DEF SetupCerts
<1>6. CASE InsertRow(r)
  <2>1. mem'[r] = mem[r] \/ mem'[r] = [mem[r] EXCEPT !.row = r]
    BY <1>6 DEF InsertRow, Locals, NoWrite
  <2>2. mem'[r].row \in {mem[r].row, r} /\ mem'[r].wrote = mem[r].wrote
    BY <2>1 DEF Local
  <2> QED
    BY <1>6, <2>2 DEF InsertRow, OnInsertRefused, NoWrite
<1>7. CASE AddProfile(r)
  BY <1>7 DEF AddProfile, OnProfileRefused, Writes, NoWrite
<1>8. CASE Record(r)
  BY <1>8 DEF Record
<1>9. CASE UndoUser(r)
  BY <1>9 DEF UndoUser, Writes, NoWrite
<1>10. CASE UndoRow(r)
  BY <1>10 DEF UndoRow, NoWrite
<1>11. CASE FindRow(r)
  BY <1>11 DEF FindRow, StepWithRow
<1>12. CASE AdoptRead(r)
  BY <1>12 DEF AdoptRead, Reads, tables
<1>13. CASE AdoptInsert(r)
  BY <1>13 DEF AdoptInsert, StepWithRow, NoWrite
<1>14. CASE AdoptFind(r)
  BY <1>14 DEF AdoptFind, StepWithRow
<1>15. CASE PatchRead(r)
  BY <1>15 DEF PatchRead, Reads, tables
<1>16. CASE PatchCheck(r)
  BY <1>16 DEF PatchCheck, Reads, tables
<1>17. CASE SetUser(r)
  BY <1>17 DEF SetUser, Writes, NoWrite
<1>18. CASE UpdateRead(r)
  BY <1>18 DEF UpdateRead
<1>19. CASE UpdateWrite(r)
  BY <1>19 DEF UpdateWrite, NoWrite
<1>20. CASE AssignRead(r)
  BY <1>20 DEF AssignRead, Reads, tables
<1>21. CASE RemoveProfile(r)
  BY <1>21 DEF RemoveProfile, Writes, NoWrite
<1>22. CASE CheckUser(r)
  BY <1>22 DEF CheckUser, Reads, tables
<1>23. CASE RemoveUser(r)
  BY <1>23 DEF RemoveUser, Writes, NoWrite
<1>24. CASE DeleteRow(r)
  BY <1>24 DEF DeleteRow, NoWrite
<1>25. CASE Detail(r)
  BY <1>25 DEF Detail, Reads, tables
<1> QED
  BY <1>3, <1>4, <1>5, <1>6, <1>7, <1>8, <1>9, <1>10, <1>11, <1>12, <1>13,
     <1>14, <1>15, <1>16, <1>17, <1>18, <1>19, <1>20, <1>21, <1>22, <1>23,
     <1>24, <1>25 DEF Serve

\* Only AddUser puts an account on the router, and only under a free name.
LEMMA RouterChange ==
  ASSUME TypeInv, NEW r \in Calls, Serve(r), NEW n \in Names,
         router'[n] # NoAccount
  PROVE  \/ router[n] # NoAccount /\ router'[n].id = router[n].id
         \/ /\ router[n] = NoAccount /\ router'[n] = NewAccount(r)
            /\ pc[r] = "addUser" /\ n = req[r].name
<1> DEFINE Goal == \/ router[n] # NoAccount /\ router'[n].id = router[n].id
                   \/ /\ router[n] = NoAccount /\ router'[n] = NewAccount(r)
                      /\ pc[r] = "addUser" /\ n = req[r].name
<1>1. router \in Routers /\ TypeOK
  BY DEF TypeInv, TypeOK, Routers
<1>2. router[n] # NoAccount => router[n] \in Account
  BY <1>1 DEF Routers
<1>3. CASE AddUser(r)
  BY <1>1, <1>3 DEF AddUser, FailedWrite, Routers, Present, Writes, NoWrite
<1>4. CASE AddProfile(r)
  BY <1>1, <1>2, <1>4
     DEF AddProfile, FailedWrite, Account, Routers, Present, Writes, NoWrite
<1>5. ASSUME UndoUser(r) \/ RemoveUser(r) PROVE Goal
  BY <1>1, <1>5 DEF UndoUser, RemoveUser, FailedWrite, Routers, Writes, NoWrite
<1>6. CASE SetUser(r)
  <2>1. \A c \in CommentsWritten(r) :
          Patched(router[n], req[r], c).id = router[n].id \/ router[n] = NoAccount
    BY <1>2 DEF Patched, Account
  <2> QED
    BY <1>1, <1>6, <2>1 DEF SetUser, FailedWrite, Routers, Present, Writes, NoWrite
<1>7. CASE RemoveProfile(r)
  BY <1>1, <1>2, <1>7 DEF RemoveProfile, FailedWrite, Account, Routers,
     Present, Writes, NoWrite
<1>8. CASE UNCHANGED router
  BY <1>1, <1>8
<1> QED
  BY <1>3, <1>4, <1>5, <1>6, <1>7, <1>8
     DEF Serve, tables, CheckQuota, SetupCerts, InsertRow, Record, UndoRow,
         FindRow, AdoptRead, AdoptInsert, AdoptFind, PatchRead, PatchCheck,
         UpdateRead, UpdateWrite, AssignRead, CheckUser, DeleteRow, Detail, Reads,
         NoWrite

\* An account is taken from the router by name, in the rollback of a create or
\* in a delete.
LEMMA RouterTaken ==
  ASSUME TypeInv, NEW r \in Calls, Serve(r), NEW n \in Names,
         router[n] # NoAccount, router'[n] = NoAccount
  PROVE  n = req[r].name /\ pc[r] \in {"undoUser", "removeUser"}
<1>1. router \in Routers /\ TypeOK
  BY DEF TypeInv, TypeOK, Routers
<1>2. \A k \in Names : router[k] # NoAccount => router[k] \in Account
  BY <1>1 DEF Routers
<1>3. NoAccount \notin Account /\ router' \in Routers
  BY ConstantsAssumption, RouterStep
<1>4. CASE AddUser(r)
  <2>1. router' = router \/ router' = [router EXCEPT ![req[r].name] = NewAccount(r)]
    BY <1>4 DEF AddUser, FailedWrite, Writes, NoWrite
  <2>2. NewAccount(r) # NoAccount
    <3>1. pc[r] = "addUser"
      BY <1>4 DEF AddUser, Writes, NoWrite
    <3>2. req[r].op = "create" /\ req[r].shared # 0 /\ req[r] \in Input
      BY <1>1, <3>1, RequestType DEF TypeInv, Control, CreateSteps, Admissible
    <3>3. NewAccount(r) \in Account
      BY <3>2 DEF NewAccount, Account, Profiles, Input, Ids
    <3> QED
      BY <1>3, <3>3
  <2> QED
    BY <1>1, <2>1, <2>2 DEF Routers
<1>5. CASE UndoUser(r)
  BY <1>1, <1>5 DEF UndoUser, FailedWrite, Routers, Writes, NoWrite
<1>6. CASE RemoveUser(r)
  BY <1>1, <1>6 DEF RemoveUser, FailedWrite, Routers, Writes, NoWrite
<1>7. CASE AddProfile(r)
  BY <1>1, <1>2, <1>3, <1>7
     DEF AddProfile, FailedWrite, Routers, Present, Account, Profiles, Writes,
         NoWrite
<1>8. CASE RemoveProfile(r)
  BY <1>1, <1>2, <1>3, <1>8
     DEF RemoveProfile, FailedWrite, Routers, Present, Account, Profiles, Writes,
         NoWrite
<1>9. CASE SetUser(r)
  <2> SUFFICES ASSUME n = req[r].name PROVE FALSE
    BY <1>1, <1>9 DEF SetUser, FailedWrite, Routers, Writes, NoWrite
  <2>1. req[r] \in Input /\ Present(n) /\ CommentsWritten(r) \subseteq Owners
    BY <1>1, <1>2, <1>9, RequestType
       DEF SetUser, CommentsWritten, TypeOK, Local, Account, Owners, Present,
           Writes, NoWrite
  <2>2. ASSUME NEW c \in Owners
        PROVE  [router EXCEPT ![n] = Patched(@, req[r], c)][n] # NoAccount
    <3>1. Patched(router[n], req[r], c) \in Account
      BY <1>1, <2>1, PatchedType
    <3> QED
      BY <1>1, <1>3, <3>1 DEF Routers
  <2> QED
    BY <1>1, <1>9, <2>1, <2>2 DEF SetUser, FailedWrite, Routers, Writes, NoWrite
<1>10. CASE UNCHANGED router
  BY <1>10
<1> QED
  BY <1>4, <1>5, <1>6, <1>7, <1>8, <1>9, <1>10
     DEF Serve, tables, CheckQuota, SetupCerts, InsertRow, Record, UndoRow,
         FindRow, AdoptRead, AdoptInsert, AdoptFind, PatchRead, PatchCheck,
         UpdateRead, UpdateWrite, AssignRead, CheckUser, DeleteRow, Detail, Reads,
         NoWrite

\* A handler leaves the locals of the others alone.
LEMMA OthersKept ==
  ASSUME NEW r \in Calls, Serve(r), mem \in Locals
  PROVE  \A k \in Calls \ {r} : mem'[k] = mem[k]
  BY DEF Serve, Kept, Locals, CheckQuota, AddUser, SetupCerts, InsertRow,
         AddProfile, Record, UndoUser, UndoRow, FindRow, AdoptRead, AdoptInsert,
         AdoptFind, PatchRead, PatchCheck, SetUser, UpdateRead, UpdateWrite,
         AssignRead, RemoveProfile, CheckUser, RemoveUser, DeleteRow, Detail, Reads,
         tables, Writes, NoWrite

LEMMA OwnStep == OwnInv /\ [Next]_vars => OwnInv'
<1> SUFFICES ASSUME OwnInv, [Next]_vars PROVE OwnInv'
  OBVIOUS
<1>1. TypeInv /\ TypeInv' /\ Flow /\ mem \in Locals /\ router \in Routers
  BY TypeStep DEF OwnInv, TypeInv, TypeOK, Flow, Locals, Routers
<1>2. ASSUME NEW r \in Calls, Serve(r) PROVE OwnInv'
  <2>1. ASSUME NEW k \in Calls PROVE OwnLocals(k)'
    <3>1. CASE k = r
      BY <1>1, <1>2, <3>1, OwnLocalsStep DEF OwnInv
    <3>2. CASE k # r
      <4>1. pc'[k] = pc[k] /\ mem'[k] = mem[k] /\ req'[k] = req[k]
        BY <1>1, <1>2, <3>2, Progress, OthersKept
      <4> QED
        BY <4>1 DEF OwnInv, OwnLocals
    <3> QED
      BY <3>1, <3>2
  <2>2. ASSUME NEW k \in Calls, NEW n \in Names PROVE OwnAccount(n, k)'
    <3>1. pc[k] # "idle" => pc'[k] # "idle" /\ req'[k] = req[k]
      BY <1>1, <1>2, Progress, TypeStep DEF TypeInv, TypeOK
    <3>2. pc[r] # "idle" /\ req' = req
      BY <1>1, <1>2, Progress
    <3>3. OwnAccount(n, k) /\ OwnAccount(n, r)
      BY DEF OwnInv
    <3>4. NewAccount(r).id = r
      BY DEF NewAccount
    <3>5. \/ router'[n] = NoAccount
          \/ router[n] # NoAccount /\ router'[n].id = router[n].id
          \/ router'[n].id = r /\ n = req[r].name
      BY <1>1, <1>2, <3>4, RouterChange
    <3> QED
      BY <3>1, <3>2, <3>3, <3>5 DEF OwnAccount, Present
  <2> QED
    BY <1>1, <2>1, <2>2 DEF OwnInv
<1>3. ASSUME NEW r \in Calls, Start(r) PROVE OwnInv'
  <2>1. /\ pc[r] = "idle" /\ pc'[r] \in {"quota", "addUser", "checkUser", "findRow"}
        /\ mem' = mem /\ router' = router
        /\ \A k \in Calls \ {r} : pc'[k] = pc[k] /\ req'[k] = req[k]
    BY <1>1, <1>3 DEF Start, FirstStep, tables, TypeInv, TypeOK
  <2>2. ASSUME NEW k \in Calls PROVE OwnLocals(k)'
    BY <2>1 DEF OwnInv, OwnLocals
  <2>3. ASSUME NEW k \in Calls, NEW n \in Names PROVE OwnAccount(n, k)'
    BY <2>1 DEF OwnInv, OwnAccount, Present
  <2> QED
    BY <1>1, <2>2, <2>3 DEF OwnInv
<1>4. ASSUME NEW n \in Names, Expire(n) \/ WinboxEdit(n) PROVE OwnInv'
  <2>1. Present(n) /\ router[n] \in Account
    BY <1>1, <1>4 DEF Expire, WinboxEdit, Routers, Present
  <2>2. ASSUME NEW k \in Names, router'[k] # NoAccount
        PROVE  router[k] # NoAccount /\ router'[k].id = router[k].id
    BY <1>1, <1>4, <2>1, <2>2 DEF Expire, WinboxEdit, Routers, Present,
       Account
  <2>3. UNCHANGED <<pc, req, mem>>
    BY <1>4 DEF Expire, WinboxEdit
  <2> QED
    BY <1>1, <2>2, <2>3 DEF OwnInv, OwnLocals, OwnAccount, Present
<1>5. CASE Fill \/ Crash
  BY <1>1, <1>5
     DEF Fill, Crash, OwnInv, OwnLocals, OwnAccount, Present, tables, InFlight
<1>6. CASE UNCHANGED vars
  BY <1>1, <1>6 DEF vars, tables, OwnInv, OwnLocals, OwnAccount, Present
<1> QED
  BY <1>2, <1>3, <1>4, <1>5, <1>6 DEF Next, AllAnswered

LEMMA OwnAlways == Spec => []OwnInv
  BY OwnInit, OwnStep, PTL DEF Spec

\* The rollback of a create, which removes by name, takes the account of
\* another call only when its own acknowledged one had been taken before.
THEOREM RollbackSafe == Spec => RollbackSparesOthers
<1>1. ASSUME OwnInv, [Next]_vars
      PROVE  [\A r \in Calls : SparesOthers(r)]_vars
  <2> SUFFICES ASSUME NEW r \in Calls, NEW n \in Names, Stepped(r, "undoUser"),
                      Present(n), router'[n] = NoAccount
               PROVE  /\ mem[r].wrote
                      /\ \/ router[n].id = r
                         \/ \A k \in Names : Present(k) => router[k].id # r
    BY DEF SparesOthers
  <2>1. TypeInv /\ Flow /\ Control /\ router \in Routers
    BY <1>1 DEF OwnInv, TypeInv, TypeOK, Flow, Routers
  <2>2. PICK s \in Calls : Start(s) \/ Serve(s)
    BY <1>1 DEF Next, Stepped, Expire, WinboxEdit, Fill, Crash, AllAnswered, vars,
                tables, Present
  <2>3. s = r /\ Serve(r)
    BY <2>1, <2>2, Progress DEF Start, Stepped, Flow
  <2>4. UndoUser(r)
    BY <2>3 DEF Serve, Stepped, CheckQuota, AddUser, SetupCerts, InsertRow,
                AddProfile, Record, UndoRow, FindRow, AdoptRead, AdoptInsert,
                AdoptFind, PatchRead, PatchCheck, SetUser, UpdateRead,
                UpdateWrite, AssignRead, RemoveProfile, CheckUser, RemoveUser,
                DeleteRow, Detail, Reads, tables, Writes, NoWrite
  <2>5. n = req[r].name
    BY <2>1, <2>4 DEF UndoUser, FailedWrite, Routers, Present, Writes, NoWrite
  <2>6. mem[r].wrote
    BY <1>1, <2>1 DEF Stepped, OwnInv, OwnLocals, Control, CreateSteps
  <2>7. \A k \in Names : Present(k) /\ router[k].id = r => k = n
    BY <1>1, <2>5 DEF OwnInv, OwnAccount
  <2> QED
    BY <2>6, <2>7
<1> QED
  BY <1>1, OwnAlways, PTL DEF Spec, RollbackSparesOthers

\* A row disappears only in the rollback of its own create or in a delete that
\* had looked up this very row.
THEOREM RowsKept == Spec => RowsLeaveOnPurpose
<1>1. ASSUME OwnInv, [Next]_vars
      PROVE  [\A x \in rows : LeavesOnPurpose(x)]_vars
  <2> SUFFICES ASSUME NEW x \in rows, \A y \in rows' : y.id # x.id
               PROVE  \E r \in Calls : \/ Stepped(r, "undoRow") /\ x.id = r
                                       \/ Stepped(r, "deleteRow") /\ x.id = mem[r].row
    BY DEF LeavesOnPurpose
  <2>1. TypeInv /\ Control /\ rows \subseteq Row /\ TypeOK
    BY <1>1 DEF OwnInv, TypeInv, TypeOK
  <2>2. PICK r \in Calls : Serve(r)
    BY <1>1 DEF Next, Start, Expire, WinboxEdit, Fill, Crash, AllAnswered, vars,
       tables
  <2>3. DeletesRow(r)
    <3>1. ~UNCHANGED <<rows, acts>> /\ ~InsertsRow(r) /\ ~AddsActivation(r)
      BY DEF InsertsRow, AddsActivation
    <3>2. ~UpdatesRow(r)
      <4> SUFFICES ASSUME UpdatesRow(r) PROVE FALSE
        OBVIOUS
      <4> DEFINE y == IF x.id = mem[r].row THEN [x EXCEPT !.mgr = mem[r].owner] ELSE x
      <4>1. y \in rows'
        BY DEF UpdatesRow
      <4>2. y.id = x.id
        BY <2>1 DEF Row
      <4> QED
        BY <4>1, <4>2
    <3> QED
      BY <2>1, <2>2, <3>1, <3>2, TablesChange
  <2>4. x.id = mem[r].row
    BY <2>3 DEF DeletesRow, DeleteRowOf
  <2>5. pc[r] = "undoRow" => mem[r].row = r
    BY <1>1, <2>1, RequestType
       DEF OwnInv, OwnLocals, Control, CreateSteps
  <2> QED
    BY <2>3, <2>4, <2>5 DEF DeletesRow, Stepped
<1> QED
  BY <1>1, OwnAlways, PTL DEF Spec, RowsLeaveOnPurpose

----------------------------------------------------------------------------
(* What a create leaves behind when it fails.                              *)

\* The steps that only a delete takes, and those that only a patch takes.
DeleteSteps == {"checkUser", "removeUser", "deleteRow"}
PatchSteps  == {"patchRead", "patchCheck", "setUser", "updateRead", "updateWrite"}

\* A call has its answer when it is done and not before; a delete and a patch
\* take the steps of their routes.
OnRoute(r) ==
  /\ pc[r] # "done" => reply[r] = "none"
  /\ pc[r] \in DeleteSteps => req[r].op = "delete"
  /\ pc[r] # "idle" /\ req[r].op = "delete"
       => pc[r] \in DeleteSteps \union {"findRow", "done"}
  /\ pc[r] \in PatchSteps => req[r].op = "patch"

\* Where a create is whose account is on the router: it has not failed, or the
\* router did not carry out or not acknowledge one of its commands.
AccountHeld(r) ==
  (\E n \in Names : Present(n) /\ router[n].id = r) =>
    /\ pc[r] # "idle" /\ req[r].op = "create"
    /\ \/ pc[r] \in {"certs", "insertRow", "addProfile", "record", "undoUser"}
       \/ pc[r] = "done" /\ reply[r] \in {"ok", "none"}
       \/ failedAt[r] \intersect {"addUser", "undoUser"} # {}

\* The same for its row: the rollback still knows which one it is.
RowHeld(r) ==
  pc[r] # "idle" /\ req[r].op = "create" /\ (\E x \in rows : x.id = r) =>
    \/ pc[r] \in {"addProfile", "record", "undoUser", "undoRow"} /\ mem[r].row = r
    \/ pc[r] = "done" /\ reply[r] \in {"ok", "none"}
    \/ "undoRow" \in failedAt[r]

\* The step of a delete after RemoveUser succeeded: what has the name now, if
\* anything, is the account of a create.
DeleteHeld(r) ==
  /\ pc[r] # "idle" /\ req[r].op = "delete" /\ failedAt[r] = {}
  /\ pc[r] = "deleteRow" \/ (pc[r] = "done" /\ reply[r] = "ok")
  /\ Present(req[r].name)
  => router[req[r].name].id \in Calls

HeldInv ==
  /\ OwnInv
  /\ TablesInv
  /\ \A r \in Calls : OnRoute(r)
  /\ \A r \in Calls : AccountHeld(r)
  /\ \A r \in Calls : RowHeld(r)
  /\ \A r \in Calls : DeleteHeld(r)

LEMMA OnRouteStep ==
  ASSUME Flow, NEW r \in Calls, Serve(r), OnRoute(r)
  PROVE  OnRoute(r)'
<1>1. /\ pc \in [Calls -> Steps] /\ reply \in [Calls -> Replies]
      /\ Control /\ pc[r] # "idle" /\ req' = req
  BY Progress DEF Flow
<1> USE DEF OnRoute, Control, DeleteSteps, PatchSteps, CreateSteps, RowSteps,
            Go, Answer, Kept
<1>2. CASE CheckQuota(r)
  BY <1>1, <1>2 DEF CheckQuota, Reads, tables
<1>3. CASE AddUser(r)
  BY <1>1, <1>3 DEF AddUser, OnNameTaken, Writes, NoWrite
<1>4. CASE SetupCerts(r)
  BY <1>1, <1>4 DEF SetupCerts
<1>5. CASE InsertRow(r)
  BY <1>1, <1>5 DEF InsertRow, OnInsertRefused, NoWrite
<1>6. CASE AddProfile(r)
  BY <1>1, <1>6 DEF AddProfile, OnProfileRefused, Writes, NoWrite
<1>7. CASE Record(r)
  BY <1>1, <1>7 DEF Record
<1>8. CASE UndoUser(r)
  BY <1>1, <1>8 DEF UndoUser, Writes, NoWrite
<1>9. CASE UndoRow(r)
  BY <1>1, <1>9 DEF UndoRow, NoWrite
<1>10. CASE FindRow(r)
  BY <1>1, <1>10 DEF FindRow, StepWithRow
<1>11. CASE AdoptRead(r)
  BY <1>1, <1>11 DEF AdoptRead, Reads, tables
<1>12. CASE AdoptInsert(r)
  BY <1>1, <1>12 DEF AdoptInsert, StepWithRow, NoWrite
<1>13. CASE AdoptFind(r)
  BY <1>1, <1>13 DEF AdoptFind, StepWithRow
<1>14. CASE PatchRead(r)
  BY <1>1, <1>14 DEF PatchRead, Reads, tables
<1>15. CASE PatchCheck(r)
  BY <1>1, <1>15 DEF PatchCheck, Reads, tables
<1>16. CASE SetUser(r)
  BY <1>1, <1>16 DEF SetUser, Writes, NoWrite
<1>17. CASE UpdateRead(r)
  BY <1>1, <1>17 DEF UpdateRead
<1>18. CASE UpdateWrite(r)
  BY <1>1, <1>18 DEF UpdateWrite, NoWrite
<1>19. CASE AssignRead(r)
  BY <1>1, <1>19 DEF AssignRead, Reads, tables
<1>20. CASE RemoveProfile(r)
  BY <1>1, <1>20 DEF RemoveProfile, Writes, NoWrite
<1>21. CASE CheckUser(r)
  BY <1>1, <1>21 DEF CheckUser, Reads, tables
<1>22. CASE RemoveUser(r)
  BY <1>1, <1>22 DEF RemoveUser, Writes, NoWrite
<1>23. CASE DeleteRow(r)
  BY <1>1, <1>23 DEF DeleteRow, NoWrite
<1>24. CASE Detail(r)
  BY <1>1, <1>24 DEF Detail, Reads, tables
<1> QED
  BY <1>2, <1>3, <1>4, <1>5, <1>6, <1>7, <1>8, <1>9, <1>10, <1>11, <1>12, <1>13, <1>14,
     <1>15, <1>16, <1>17, <1>18, <1>19, <1>20, <1>21, <1>22, <1>23, <1>24 DEF Serve

\* The history of the failed steps of a call only grows.
LEMMA FailuresStay ==
  ASSUME Flow, NEW r \in Calls, Serve(r)
  PROVE  /\ \A k \in Calls \ {r} : failedAt'[k] = failedAt[k]
         /\ failedAt[r] \subseteq failedAt'[r]
         /\ \A k \in Calls \ {r} : reply'[k] = reply[k]
<1>1. UNCHANGED failedAt \/ failedAt' = [failedAt EXCEPT ![r] = @ \union {pc[r]}]
  BY DEF Serve, CheckQuota, AddUser, SetupCerts, InsertRow,
         AddProfile, Record, UndoUser, UndoRow, FindRow, AdoptRead, AdoptInsert,
         AdoptFind, PatchRead, PatchCheck, SetUser, UpdateRead, UpdateWrite,
         AssignRead, RemoveProfile, CheckUser, RemoveUser, DeleteRow, Detail,
         Works, Fails, FailedWrite, Reads, tables, Writes, NoWrite
<1>2. UNCHANGED reply \/ \E code \in Replies : reply' = [reply EXCEPT ![r] = code]
  BY DEF Serve, CheckQuota, AddUser, SetupCerts, InsertRow,
         AddProfile, Record, UndoUser, UndoRow, FindRow, AdoptRead, AdoptInsert,
         AdoptFind, PatchRead, PatchCheck, SetUser, UpdateRead, UpdateWrite,
         AssignRead, RemoveProfile, CheckUser, RemoveUser, DeleteRow, Detail,
         OnNameTaken, OnInsertRefused, OnProfileRefused, Replies, Go, Answer, Reads,
         tables, Writes, NoWrite
<1> QED
  BY <1>1, <1>2 DEF Flow

LEMMA AccountHeldStep ==
  ASSUME OwnInv, NEW r \in Calls, Serve(r), OnRoute(r), AccountHeld(r)
  PROVE  AccountHeld(r)'
<1> SUFFICES ASSUME NEW n \in Names, Present(n)', router'[n].id = r
             PROVE  /\ pc'[r] # "idle" /\ req'[r].op = "create"
                    /\ \/ pc'[r] \in {"certs", "insertRow", "addProfile", "record", "undoUser"}
                       \/ pc'[r] = "done" /\ reply'[r] \in {"ok", "none"}
                       \/ failedAt'[r] \intersect {"addUser", "undoUser"} # {}
  BY DEF AccountHeld
<1>1. /\ TypeInv /\ Flow /\ Control /\ router \in Routers
      /\ pc \in [Calls -> Steps] /\ reply \in [Calls -> Replies]
      /\ failedAt \in [Calls -> SUBSET Steps]
  BY DEF OwnInv, TypeInv, TypeOK, Flow, Routers
<1>2. req' = req /\ pc[r] # "idle" /\ failedAt[r] \subseteq failedAt'[r]
  BY <1>1, Progress, FailuresStay
<1>3. (Present(n) /\ router[n].id = r) \/ pc[r] = "addUser"
  BY <1>1, RouterChange DEF Present
<1>4. req[r].op = "create" /\ pc[r] \notin RowSteps
  BY <1>1, <1>3 DEF AccountHeld, Control, CreateSteps
<1>5. Present(n) => n = req[r].name \/ router[n].id # r
  BY DEF OwnInv, OwnAccount
<1> USE <1>1, <1>2, <1>4 DEF Go, Answer, Works, Fails
<1>6. CASE CheckQuota(r)
  BY <1>6, <1>3 DEF CheckQuota, AccountHeld, Reads, tables
<1>7. CASE AddUser(r)
  BY <1>7, <1>3
     DEF AddUser, AccountHeld, OnNameTaken, FailedWrite, Present, Writes, NoWrite
<1>8. CASE SetupCerts(r)
  BY <1>8 DEF SetupCerts, AccountHeld
<1>9. CASE InsertRow(r)
  BY <1>9 DEF InsertRow, AccountHeld, OnInsertRefused, NoWrite
<1>10. CASE AddProfile(r)
  BY <1>10 DEF AddProfile, AccountHeld, OnProfileRefused, Writes, NoWrite
<1>11. CASE Record(r)
  BY <1>11 DEF Record, AccountHeld
<1>12. CASE UndoUser(r)
  BY <1>12, <1>3, <1>5
     DEF UndoUser, AccountHeld, FailedWrite, Routers, Present, Writes, NoWrite
<1>13. CASE UndoRow(r)
  BY <1>13, <1>3 DEF UndoRow, AccountHeld, NoWrite
<1> QED
  BY <1>6, <1>7, <1>8, <1>9, <1>10, <1>11, <1>12, <1>13
     DEF Serve, RowSteps, FindRow, AdoptRead, AdoptInsert, AdoptFind, PatchRead,
         PatchCheck, SetUser, UpdateRead, UpdateWrite, AssignRead,
         RemoveProfile, CheckUser, RemoveUser, DeleteRow, Detail, Reads, tables,
         NoWrite, Writes

\* A row of the tables was there before with this id and name, or the handler
\* inserts it now.
LEMMA RowsFrom ==
  ASSUME TypeInv, NEW r \in Calls, Serve(r), NEW y \in rows'
  PROVE  \/ \E x \in rows : x.id = y.id /\ x.name = y.name
         \/ y.id = r /\ y.name = req[r].name /\ pc[r] \in BeforeInsert
<1>1. rows \subseteq Row
  BY DEF TypeInv, TypeOK
<1>2. CASE InsertsRow(r)
  BY <1>2 DEF InsertsRow, NewRow
<1>3. CASE UpdatesRow(r)
  BY <1>1, <1>3 DEF UpdatesRow, Row
<1>4. CASE UNCHANGED rows
  BY <1>4
<1>5. CASE DeletesRow(r)
  BY <1>5 DEF DeletesRow, DeleteRowOf
<1> QED
  BY <1>2, <1>3, <1>4, <1>5, TablesChange DEF AddsActivation

LEMMA RowHeldStep ==
  ASSUME OwnInv, TablesInv, NEW r \in Calls, Serve(r), OnRoute(r), RowHeld(r)
  PROVE  RowHeld(r)'
<1> SUFFICES ASSUME req'[r].op = "create", NEW y \in rows', y.id = r
             PROVE  \/ /\ pc'[r] \in {"addProfile", "record", "undoUser", "undoRow"}
                       /\ mem'[r].row = r
                    \/ pc'[r] = "done" /\ reply'[r] \in {"ok", "none"}
                    \/ "undoRow" \in failedAt'[r]
  BY DEF RowHeld
<1>1. /\ TypeInv /\ Flow /\ Control /\ mem \in Locals /\ mem[r] \in Local
      /\ pc \in [Calls -> Steps] /\ reply \in [Calls -> Replies]
      /\ failedAt \in [Calls -> SUBSET Steps] /\ r # NoId
  BY ConstantsAssumption DEF OwnInv, TypeInv, TypeOK, Flow, Locals, Ids
<1>2. req' = req /\ pc[r] # "idle" /\ failedAt[r] \subseteq failedAt'[r]
  BY <1>1, Progress, FailuresStay
<1>3. pc[r] \notin RowSteps
  BY <1>1, <1>2 DEF Control
<1>4. (\E x \in rows : x.id = r) \/ pc[r] \in BeforeInsert
  BY <1>1, RowsFrom
<1>5. pc[r] \in BeforeInsert => \A x \in rows : x.id # r
  BY DEF TablesInv, Fresh
<1>6. (\E x \in rows : x.id = r) =>
        \/ pc[r] \in {"addProfile", "record", "undoUser", "undoRow"} /\ mem[r].row = r
        \/ pc[r] = "done" /\ reply[r] \in {"ok", "none"}
        \/ "undoRow" \in failedAt[r]
  BY <1>2 DEF RowHeld
<1> USE <1>1, <1>2, <1>4, <1>5, <1>6 DEF Go, Answer, Works, Fails, Kept, BeforeInsert
<1>7. CASE CheckQuota(r)
  BY <1>7 DEF CheckQuota, tables, Reads
<1>8. CASE AddUser(r)
  BY <1>8 DEF AddUser, Writes, NoWrite
<1>9. CASE SetupCerts(r)
  BY <1>9 DEF SetupCerts, tables
<1>10. CASE InsertRow(r)
  <2>1. CASE rows' = rows
    BY <1>10, <2>1 DEF InsertRow, NoWrite
  <2>2. CASE mem' = [mem EXCEPT ![r].row = r]
    <3>1. mem'[r].row = r
      BY <2>2 DEF Locals, Local
    <3> QED
      BY <1>2, <1>10, <2>2, <3>1 DEF InsertRow, OnInsertRefused, NoWrite
  <2> QED
    BY <1>10, <2>1, <2>2 DEF InsertRow, NoWrite
<1>11. CASE AddProfile(r)
  BY <1>11 DEF AddProfile, OnProfileRefused, Writes, NoWrite
<1>12. CASE Record(r)
  BY <1>12 DEF Record
<1>13. CASE UndoUser(r)
  BY <1>13 DEF UndoUser, FailedWrite, Writes, NoWrite
<1>14. CASE UndoRow(r)
  BY <1>14 DEF UndoRow, DeleteRowOf, NoWrite
<1> QED
  BY <1>3, <1>7, <1>8, <1>9, <1>10, <1>11, <1>12, <1>13, <1>14
     DEF Serve, RowSteps, FindRow, AdoptRead, AdoptInsert, AdoptFind, PatchRead,
         PatchCheck, SetUser, UpdateRead, UpdateWrite, AssignRead,
         RemoveProfile, CheckUser, RemoveUser, DeleteRow, Detail, Reads, tables,
         NoWrite, Writes

LEMMA DeleteHeldStep ==
  ASSUME TypeInv, NEW r \in Calls, Serve(r), OnRoute(r), DeleteHeld(r)
  PROVE  DeleteHeld(r)'
<1> SUFFICES ASSUME req'[r].op = "delete", failedAt'[r] = {},
                    pc'[r] = "deleteRow" \/ (pc'[r] = "done" /\ reply'[r] = "ok"),
                    Present(req[r].name)'
             PROVE  router'[req[r].name].id \in Calls
  BY Progress DEF DeleteHeld, TypeInv, TypeOK, Flow
<1>1. /\ Flow /\ Control /\ router \in Routers /\ TypeOK
      /\ pc \in [Calls -> Steps] /\ reply \in [Calls -> Replies]
      /\ failedAt \in [Calls -> SUBSET Steps]
  BY DEF TypeInv, TypeOK, Flow, Routers
<1>2. req' = req /\ pc[r] # "idle" /\ failedAt[r] = {}
  BY <1>1, Progress, FailuresStay
<1>3. /\ pc[r] \in DeleteSteps \union {"findRow", "done"}
      /\ req[r].name \in Names
  BY <1>1, <1>2, RequestType DEF OnRoute
<1> USE <1>1, <1>2, <1>3 DEF Go, Answer, Works, Fails
<1>4. CASE CheckUser(r)
  BY <1>4 DEF CheckUser, Reads, tables
<1>5. CASE FindRow(r)
  BY <1>5 DEF FindRow, StepWithRow
<1>6. CASE RemoveUser(r)
  BY <1>6 DEF RemoveUser, FailedWrite, Present, Routers, Writes, NoWrite
<1>7. CASE DeleteRow(r)
  BY <1>7 DEF DeleteRow, DeleteHeld, Present, NoWrite
<1> QED
  BY <1>4, <1>5, <1>6, <1>7
     DEF Serve, DeleteSteps, CheckQuota, AddUser, SetupCerts, InsertRow,
         AddProfile, Record, UndoUser, UndoRow, AdoptRead, AdoptInsert,
         AdoptFind, PatchRead, PatchCheck, SetUser, UpdateRead, UpdateWrite,
         AssignRead, RemoveProfile, Detail, Reads, tables, Writes, NoWrite

\* What nobody but the handlers does to the two stores: accounts keep their
\* ids, rows stay, and no account or row appears.
LEMMA EnvironmentKeeps ==
  ASSUME TypeInv,
         \/ \E r \in Calls : Start(r)
         \/ \E n \in Names : Expire(n) \/ WinboxEdit(n)
         \/ Fill \/ Crash \/ UNCHANGED vars
  PROVE  /\ \A k \in Names : Present(k)' => Present(k) /\ router'[k].id = router[k].id
         /\ UNCHANGED <<rows, mem, reply, failedAt>>
<1>1. router \in Routers /\ \A k \in Names : Present(k) => router[k] \in Account
  BY DEF TypeInv, TypeOK, Routers, Present
<1>2. ASSUME NEW n \in Names, Expire(n) \/ WinboxEdit(n)
      PROVE  /\ \A k \in Names : Present(k)' => Present(k) /\ router'[k].id = router[k].id
             /\ UNCHANGED <<rows, mem, reply, failedAt>>
  <2>1. Present(n) /\ router[n] \in Account
    BY <1>1, <1>2 DEF Expire, WinboxEdit
  <2>2. ASSUME NEW k \in Names, Present(k)'
        PROVE  Present(k) /\ router'[k].id = router[k].id
    BY <1>1, <1>2, <2>1, <2>2 DEF Expire, WinboxEdit, Routers, Present, Account
  <2> QED
    BY <1>2, <2>2 DEF Expire, WinboxEdit
<1> QED
  BY <1>2 DEF Start, Fill, Crash, vars, tables, Present

LEMMA HeldInit == Init => HeldInv
<1> SUFFICES ASSUME Init PROVE HeldInv
  OBVIOUS
<1>1. OwnInv /\ TablesInv
  BY OwnInit, TablesInit
<1>2. \A r \in Calls : pc[r] = "idle" /\ reply[r] = "none"
  BY DEF Init
<1>3. ASSUME NEW r \in Calls PROVE OnRoute(r) /\ RowHeld(r) /\ DeleteHeld(r)
  BY <1>2 DEF OnRoute, RowHeld, DeleteHeld, DeleteSteps, PatchSteps
<1>4. \A r \in Calls : AccountHeld(r)
  BY <1>1, <1>2 DEF OwnInv, OwnAccount, AccountHeld
<1> QED
  BY <1>1, <1>3, <1>4 DEF HeldInv

LEMMA HeldStep == HeldInv /\ [Next]_vars => HeldInv'
<1> SUFFICES ASSUME HeldInv, [Next]_vars PROVE HeldInv'
  OBVIOUS
<1>1. /\ OwnInv /\ OwnInv' /\ TablesInv /\ TablesInv' /\ TypeInv /\ Flow
      /\ mem \in Locals /\ router \in Routers /\ TypeOK /\ Control /\ TypeOK'
  BY OwnStep, TablesStepInv
     DEF HeldInv, OwnInv, TypeInv, TypeOK, Flow, Locals, Routers
<1> DEFINE Held(k) == OnRoute(k) /\ AccountHeld(k) /\ RowHeld(k) /\ DeleteHeld(k)
<1>2. ASSUME NEW r \in Calls, Serve(r), NEW k \in Calls PROVE Held(k)'
  <2>1. CASE k = r
    BY <1>1, <1>2, <2>1, OnRouteStep, AccountHeldStep, RowHeldStep, DeleteHeldStep
       DEF HeldInv
  <2>2. CASE k # r
    <3>1. /\ pc'[k] = pc[k] /\ mem'[k] = mem[k] /\ req'[k] = req[k]
          /\ failedAt'[k] = failedAt[k] /\ reply'[k] = reply[k]
      BY <1>1, <1>2, <2>2, Progress, OthersKept, FailuresStay
    <3>2. NewAccount(r).id = r
      BY DEF NewAccount
    <3>3. ASSUME NEW n \in Names, Present(n)'
          PROVE  \/ Present(n) /\ router'[n].id = router[n].id
                 \/ router'[n].id = r
      BY <1>1, <1>2, <3>2, <3>3, RouterChange DEF Present
    <3>4. OnRoute(k)'
      BY <3>1 DEF HeldInv, OnRoute
    <3>5. AccountHeld(k)'
      BY <2>2, <3>1, <3>3 DEF HeldInv, AccountHeld
    <3>6. RowHeld(k)'
      BY <1>1, <1>2, <2>2, <3>1, RowsFrom DEF HeldInv, RowHeld
    <3>7. DeleteHeld(k)'
      <4>1. pc[k] # "idle" => req[k].name \in Names
        BY <1>1, RequestType
      <4> QED
        BY <3>1, <3>3, <4>1 DEF HeldInv, DeleteHeld
    <3> QED
      BY <3>4, <3>5, <3>6, <3>7
  <2> QED
    BY <2>1, <2>2
<1>3. ASSUME \/ \E r \in Calls : Start(r)
             \/ \E n \in Names : Expire(n) \/ WinboxEdit(n)
             \/ Fill \/ Crash \/ UNCHANGED vars,
             NEW k \in Calls
      PROVE  Held(k)'
  <2>1. /\ \A n \in Names : Present(n)' => Present(n) /\ router'[n].id = router[n].id
        /\ UNCHANGED <<rows, mem, reply, failedAt>>
    BY <1>1, <1>3, EnvironmentKeeps
  <2>2. \/ pc'[k] = pc[k] /\ req'[k] = req[k]
        \/ pc[k] \notin {"idle", "done"} /\ pc'[k] = "done" /\ req'[k] = req[k]
        \/ /\ pc[k] = "idle" /\ pc'[k] \in {"quota", "addUser", "checkUser", "findRow"}
           /\ pc'[k] = FirstStep(req'[k])
    <3>1. CASE \E r \in Calls : Start(r)
      BY <1>1, <3>1 DEF Start, FirstStep, TypeOK
    <3>2. CASE Crash
      BY <1>1, <3>2 DEF Crash, InFlight
    <3>3. CASE UNCHANGED <<pc, req>>
      BY <3>3
    <3> QED
      BY <1>3, <3>1, <3>2, <3>3 DEF Expire, WinboxEdit, Fill, vars
  <2>3. OnRoute(k) /\ AccountHeld(k) /\ RowHeld(k) /\ DeleteHeld(k)
    BY DEF HeldInv
  <2>4. pc[k] = "idle" => \A x \in rows : x.id # k
    BY <1>1 DEF TablesInv, Fresh, BeforeInsert
  <2>5. pc[k] # "idle" => req[k].name \in Names
    BY <1>1, RequestType
  <2>6. OnRoute(k)'
    BY <2>1, <2>2, <2>3 DEF OnRoute, DeleteSteps, PatchSteps, FirstStep
  <2>7. AccountHeld(k)'
    BY <2>1, <2>2, <2>3 DEF AccountHeld, OnRoute
  <2>8. RowHeld(k)'
    BY <2>1, <2>2, <2>3, <2>4 DEF RowHeld, OnRoute
  <2>9. DeleteHeld(k)'
    BY <2>1, <2>2, <2>3, <2>5 DEF DeleteHeld, OnRoute
  <2> QED
    BY <2>6, <2>7, <2>8, <2>9
<1>4. ASSUME NEW k \in Calls PROVE Held(k)'
  BY <1>2, <1>3, <1>4 DEF Next, AllAnswered
<1> QED
  BY <1>1, <1>4 DEF HeldInv

LEMMA HeldAlways == Spec => []HeldInv
  BY HeldInit, HeldStep, PTL DEF Spec

\* A create that reports an error has taken back its account and its row,
\* whatever else was called meanwhile; what is left is due to a lost reply of
\* AddUser or to a rollback command that failed.
THEOREM FailedCreatesUndone == Spec => []FailedCreateUndone
<1>1. HeldInv => FailedCreateUndone
  <2> SUFFICES ASSUME HeldInv, NEW r \in Calls, Answered(r, "create"),
                      reply[r] \notin {"ok", "none"}
               PROVE  /\ (\E n \in Names : Present(n) /\ router[n].id = r)
                            => failedAt[r] \intersect {"addUser", "undoUser"} # {}
                      /\ (\E x \in rows : x.id = r) => "undoRow" \in failedAt[r]
    BY DEF FailedCreateUndone
  <2>1. AccountHeld(r) /\ RowHeld(r)
    BY DEF HeldInv
  <2> QED
    BY <2>1 DEF AccountHeld, RowHeld, Answered
<1> QED
  BY <1>1, HeldAlways, PTL

\* After a delete that succeeded without a failure of the router, what has
\* the name is at most the account of a create: no late step of another call
\* brings back the one that was deleted.
THEOREM DeletesLast == Spec => []DeletedForGood
<1>1. HeldInv => DeletedForGood
  <2> SUFFICES ASSUME HeldInv, NEW r \in Calls, Answered(r, "delete"),
                      reply[r] = "ok", failedAt[r] = {}, Present(req[r].name)
               PROVE  router[req[r].name].id \in Calls
    BY DEF DeletedForGood
  <2>1. DeleteHeld(r)
    BY DEF HeldInv
  <2> QED
    BY <2>1 DEF DeleteHeld, Answered
<1> QED
  BY <1>1, HeldAlways, PTL


----------------------------------------------------------------------------
(* What a create that succeeded can count on.                              *)

\* Nobody has removed or edited an account: neither Winbox nor a delete call.
Quiet == edits = 0 /\ \A d \in Calls : req[d] # NoInput => req[d].op # "delete"

\* What a create has made and not taken back is still there.
BackedBy(r) ==
  Quiet /\ pc[r] # "idle" /\ req[r].op = "create" =>
    /\ \/ pc[r] \in {"certs", "insertRow", "addProfile", "record", "undoUser"}
       \/ pc[r] = "done" /\ reply[r] = "ok"
       => Present(req[r].name) /\ router[req[r].name].id = r
    /\ \/ pc[r] \in {"addProfile", "record"}
       \/ pc[r] = "done" /\ reply[r] = "ok"
       => \E x \in rows : x.id = r /\ x.name = req[r].name

BackedInv == HeldInv /\ \A r \in Calls : BackedBy(r)

\* A row stays, but for the two handlers that delete it by its id.
LEMMA RowsStay ==
  ASSUME TypeInv, NEW r \in Calls, Serve(r), NEW x \in rows
  PROVE  \/ \E y \in rows' : y.id = x.id /\ y.name = x.name
         \/ pc[r] \in {"undoRow", "deleteRow"} /\ x.id = mem[r].row
<1>1. rows \subseteq Row
  BY DEF TypeInv, TypeOK
<1>2. CASE InsertsRow(r)
  BY <1>2 DEF InsertsRow
<1>3. CASE UpdatesRow(r)
  <2> DEFINE y == IF x.id = mem[r].row THEN [x EXCEPT !.mgr = mem[r].owner] ELSE x
  <2>1. y \in rows'
    BY <1>3 DEF UpdatesRow
  <2>2. y.id = x.id /\ y.name = x.name
    BY <1>1 DEF Row
  <2> QED
    BY <2>1, <2>2
<1>4. CASE UNCHANGED rows
  BY <1>4
<1>5. CASE DeletesRow(r)
  BY <1>5 DEF DeletesRow, DeleteRowOf, Stepped
<1> QED
  BY <1>2, <1>3, <1>4, <1>5, TablesChange DEF AddsActivation

\* The calls under way keep their requests, so it has been quiet before.
LEMMA QuietBefore ==
  ASSUME TypeInv, [Next]_vars, Quiet'
  PROVE  Quiet
<1>1. Flow
  BY DEF TypeInv, TypeOK, Flow
<1>2. \A d \in Calls : req[d] # NoInput => req'[d] = req[d]
  <2>1. ASSUME NEW r \in Calls, Serve(r) PROVE req' = req
    BY <1>1, <2>1, Progress
  <2> QED
    BY <1>1, <2>1
       DEF Next, Start, Expire, WinboxEdit, Fill, Crash, AllAnswered, vars, Flow
<1>3. edits' = 0 => edits = 0
  <2>1. ASSUME NEW r \in Calls, Serve(r) PROVE edits' = edits
    BY <2>1 DEF Serve, Kept, bounds, CheckQuota, AddUser, SetupCerts, InsertRow,
         AddProfile, Record, UndoUser, UndoRow, FindRow, AdoptRead, AdoptInsert,
         AdoptFind, PatchRead, PatchCheck, SetUser, UpdateRead, UpdateWrite,
         AssignRead, RemoveProfile, CheckUser, RemoveUser, DeleteRow, Detail, Reads,
         tables, Writes, NoWrite
  <2> QED
    BY <1>1, <2>1
       DEF Next, Start, Expire, WinboxEdit, Fill, Crash, AllAnswered, vars, bounds,
           Flow
<1> QED
  BY <1>2, <1>3 DEF Quiet

LEMMA BackedOwnStep ==
  ASSUME BackedInv, NEW r \in Calls, Serve(r), Quiet
  PROVE  BackedBy(r)'
<1> SUFFICES ASSUME req'[r].op = "create" PROVE BackedBy(r)'
  BY DEF BackedBy
<1>1. /\ TypeInv /\ TypeOK /\ Flow /\ Control /\ router \in Routers
      /\ pc \in [Calls -> Steps] /\ reply \in [Calls -> Replies]
  BY DEF BackedInv, HeldInv, OwnInv, TypeInv, TypeOK, Flow, Routers
<1>2. req' = req /\ pc[r] # "idle" /\ req[r].name \in Names
  BY <1>1, Progress, RequestType
<1>3. pc[r] \notin RowSteps
  BY <1>1, <1>2 DEF Control
<1>4. Present(req[r].name) => router[req[r].name] \in Account
  BY <1>1, <1>2 DEF Present, Routers
<1>5. BackedBy(r)
  BY DEF BackedInv
<1> USE <1>1, <1>2, <1>5 DEF BackedBy, Present, Go, Answer
<1>6. CASE CheckQuota(r)
  BY <1>6 DEF CheckQuota, Reads, tables
<1>7. CASE AddUser(r)
  <2>1. NewAccount(r) # NoAccount /\ NewAccount(r).id = r
    <3>1. req[r].shared # 0 /\ req[r] \in Input
      BY RequestType DEF Admissible
    <3>2. NewAccount(r) \in Account
      BY <3>1, RequestType DEF NewAccount, Account, Profiles, Input, Ids
    <3> QED
      BY <3>2, ConstantsAssumption DEF NewAccount
  <2> QED
    BY <1>7, <2>1 DEF AddUser, OnNameTaken, Routers, Writes, NoWrite
<1>8. CASE SetupCerts(r)
  BY <1>8 DEF SetupCerts, tables
<1>9. CASE InsertRow(r)
  <2>1. CASE rows' = rows \union {NewRow(r, req[r].mgr)}
    <3>1. NewRow(r, req[r].mgr) \in rows'
      BY <2>1
    <3>2. \E x \in rows' : x.id = r /\ x.name = req[r].name
      BY <3>1 DEF NewRow
    <3> QED
      BY <1>9, <3>2 DEF InsertRow, OnInsertRefused, NoWrite
  <2>2. CASE OnInsertRefused(r)
    BY <1>9, <2>2 DEF InsertRow, OnInsertRefused, NoWrite
  <2> QED
    BY <1>9, <2>1, <2>2 DEF InsertRow, NoWrite
<1>10. CASE AddProfile(r)
  <2>1. Present(req[r].name)' /\ router'[req[r].name].id = r
    <3>1. Present(req[r].name) /\ router[req[r].name].id = r
      BY <1>10 DEF AddProfile, Writes, NoWrite
    <3>2. Present(req[r].name)'
      BY <1>10, <3>1, RouterTaken DEF AddProfile, Writes, NoWrite
    <3> QED
      BY <1>10, <3>1, <3>2, RouterChange DEF AddProfile, Writes, NoWrite
  <2> QED
    BY <1>10, <2>1 DEF AddProfile, OnProfileRefused, Writes, NoWrite
<1>11. CASE Record(r)
  BY <1>11 DEF Record
<1>12. CASE UndoUser(r)
  BY <1>12 DEF UndoUser, Writes, NoWrite
<1>13. CASE UndoRow(r)
  BY <1>13 DEF UndoRow, NoWrite
<1> QED
  BY <1>3, <1>6, <1>7, <1>8, <1>9, <1>10, <1>11, <1>12, <1>13
     DEF Serve, RowSteps, FindRow, AdoptRead, AdoptInsert, AdoptFind, PatchRead,
         PatchCheck, SetUser, UpdateRead, UpdateWrite, AssignRead,
         RemoveProfile, CheckUser, RemoveUser, DeleteRow, Detail, Reads, tables,
         NoWrite, Writes

\* As long as it is quiet, an account is removed only by the rollback of the
\* create that put it there.
LEMMA TakenByOwner ==
  ASSUME BackedInv, Quiet, NEW r \in Calls, Serve(r), NEW n \in Names,
         Present(n), ~Present(n)'
  PROVE  router[n].id = r
<1>1. TypeInv /\ Flow /\ Control /\ OnRoute(r) /\ BackedBy(r)
  BY DEF BackedInv, HeldInv, OwnInv, TypeInv, TypeOK, Flow
<1>2. n = req[r].name /\ pc[r] \in {"undoUser", "removeUser"}
  BY <1>1, RouterTaken DEF Present
<1>3. req[r] # NoInput
  BY <1>1, <1>2 DEF Flow
<1>4. pc[r] = "undoUser" /\ req[r].op = "create"
  BY <1>1, <1>2, <1>3 DEF Quiet, OnRoute, DeleteSteps, Control, CreateSteps
<1> QED
  BY <1>1, <1>2, <1>4 DEF BackedBy

LEMMA BackedInit == Init => BackedInv
  BY HeldInit DEF Init, BackedInv, BackedBy

LEMMA BackedStep == BackedInv /\ [Next]_vars => BackedInv'
<1> SUFFICES ASSUME BackedInv, [Next]_vars PROVE BackedInv'
  OBVIOUS
<1>1. /\ HeldInv /\ HeldInv' /\ TypeInv /\ TypeOK /\ Flow /\ OwnInv
      /\ router \in Routers
  BY HeldStep DEF BackedInv, HeldInv, OwnInv, TypeInv, TypeOK, Flow, Routers
<1> SUFFICES ASSUME NEW k \in Calls, Quiet' PROVE BackedBy(k)'
  BY <1>1 DEF BackedInv, BackedBy
<1>2. Quiet
  BY <1>1, QuietBefore
<1>3. BackedBy(k) /\ OnRoute(k)
  BY <1>1 DEF BackedInv, HeldInv
<1>4. pc[k] # "idle" => req[k].name \in Names
  BY <1>1, RequestType
<1>5. ASSUME NEW r \in Calls, Serve(r) PROVE BackedBy(k)'
  <2>1. CASE k = r
    BY <1>2, <1>5, <2>1, BackedOwnStep
  <2>2. CASE k # r
    <3>1. pc'[k] = pc[k] /\ req'[k] = req[k] /\ reply'[k] = reply[k]
      BY <1>1, <1>5, <2>2, Progress, FailuresStay
    <3>2. ASSUME NEW n \in Names, Present(n), router[n].id = k
          PROVE  Present(n)' /\ router'[n].id = k
      <4>1. Present(n)'
        BY <1>2, <1>5, <2>2, <3>2, TakenByOwner
      <4> QED
        BY <1>1, <1>5, <3>2, <4>1, RouterChange DEF Present
    <3>3. ASSUME NEW x \in rows, x.id = k
          PROVE  \E y \in rows' : y.id = k /\ y.name = x.name
      <4>1. OwnLocals(r) /\ OnRoute(r) /\ Control
        BY <1>1 DEF HeldInv, OwnInv, TypeInv
      <4>2. pc[r] # "idle" => req[r] # NoInput
        BY <1>1 DEF Flow
      <4>3. pc[r] # "deleteRow"
        BY <1>2, <4>1, <4>2 DEF Quiet, OnRoute, DeleteSteps
      <4>4. pc[r] = "undoRow" => mem[r].row = r
        BY <4>1 DEF OwnLocals, Control, CreateSteps
      <4> QED
        BY <1>1, <1>5, <2>2, <3>3, <4>3, <4>4, RowsStay
    <3> QED
      BY <1>2, <1>3, <1>4, <3>1, <3>2, <3>3 DEF BackedBy
  <2> QED
    BY <2>1, <2>2
<1>6. ASSUME NEW r \in Calls, Start(r) PROVE BackedBy(k)'
  BY <1>1, <1>2, <1>3, <1>6
     DEF Start, FirstStep, BackedBy, TypeOK, tables, Present
<1>7. ASSUME NEW n \in Names, Expire(n) PROVE BackedBy(k)'
  <2>1. router[n] \in Account
    BY <1>1, <1>7 DEF Expire, Present, Routers
  <2>2. ASSUME NEW j \in Names, Present(j)
        PROVE  Present(j)' /\ router'[j].id = router[j].id
    <3>1. [router[n] EXCEPT !.profile = "idle"] \in Account
      BY <2>1 DEF Account, Profiles
    <3> QED
      BY <1>1, <1>7, <2>1, <2>2, <3>1, ConstantsAssumption
         DEF Expire, Present, Routers, Account
  <2> QED
    BY <1>2, <1>3, <1>4, <1>7, <2>2 DEF Expire, BackedBy
<1>8. ASSUME NEW n \in Names, WinboxEdit(n) PROVE FALSE
  BY <1>1, <1>2, <1>8 DEF WinboxEdit, Quiet
<1>9. CASE Fill \/ Crash
  BY <1>1, <1>2, <1>3, <1>9
     DEF Fill, Crash, BackedBy, OnRoute, InFlight, tables, Present
<1>10. CASE UNCHANGED vars
  BY <1>2, <1>3, <1>10 DEF vars, tables, BackedBy, Present
<1> QED
  BY <1>5, <1>6, <1>7, <1>8, <1>9, <1>10 DEF Next, AllAnswered

LEMMA BackedAlways == Spec => []BackedInv
  BY BackedInit, BackedStep, PTL DEF Spec

\* The account and the row of a create that was answered with success stay,
\* whatever other calls, failures and crashes do, until a delete or an edit.
THEOREM AckedCreatesBacked == Spec => []AckedCreateBacked
<1>1. BackedInv => AckedCreateBacked
  <2> SUFFICES ASSUME BackedInv, NEW r \in Calls, Answered(r, "create"),
                      reply[r] = "ok", Quiet
               PROVE  /\ Present(req[r].name) /\ router[req[r].name].id = r
                      /\ \E x \in rows : x.id = r /\ x.name = req[r].name
    BY DEF AckedCreateBacked, Quiet
  <2>1. BackedBy(r)
    BY DEF BackedInv
  <2> QED
    BY <2>1 DEF BackedBy, Answered
<1> QED
  BY <1>1, BackedAlways, PTL


----------------------------------------------------------------------------
(* The owner that a patch has read.                                        *)

\* An account that a create put on the router belongs to the manager of its
\* name, if to anybody.
CreatedOwner(n) ==
  Quiet /\ Present(n) /\ router[n].id \in Calls => OwnerOf(n) = NameOwner[n]

\* The owner of a name: if its account was taken back by its create, the next one
\* of this name has the owner that the name gives it.
OwnerNow(n) == IF Present(n) THEN OwnerOf(n) ELSE NameOwner[n]

\* The owner that a patch has read is still the owner, and the one that a cached
\* list gives is.
OwnerRead(r) ==
  Quiet /\ pc[r] \in {"patchCheck", "setUser"} => mem[r].owner = OwnerNow(req[r].name)
OwnerListed(n) ==
  Quiet /\ users # NoList /\ users[n] # NoAccount =>
    Resolve(n, users[n].comment) = OwnerNow(n)

OwnerInv ==
  /\ BackedInv
  /\ \A n \in Names : CreatedOwner(n) /\ OwnerListed(n)
  /\ \A r \in Calls : OwnerRead(r)

\* Only SetUser writes the comment of an account that is there.
LEMMA CommentChange ==
  ASSUME TypeInv, NEW r \in Calls, Serve(r), NEW n \in Names,
         Present(n), Present(n)'
  PROVE  \/ router'[n].comment = router[n].comment
         \/ /\ pc[r] = "setUser" /\ n = req[r].name
            /\ router'[n].comment \in CommentsWritten(r)
<1> DEFINE Goal == \/ router'[n].comment = router[n].comment
                   \/ /\ pc[r] = "setUser" /\ n = req[r].name
                      /\ router'[n].comment \in CommentsWritten(r)
<1>1. router \in Routers /\ router[n] \in Account
  BY DEF TypeInv, TypeOK, Routers, Present
<1>2. CASE AddUser(r)
  BY <1>1, <1>2 DEF AddUser, FailedWrite, Routers, Present, Writes, NoWrite
<1>3. CASE AddProfile(r)
  BY <1>1, <1>3
     DEF AddProfile, FailedWrite, Routers, Present, Account, Profiles, Writes,
         NoWrite
<1>4. ASSUME UndoUser(r) \/ RemoveUser(r) PROVE Goal
  BY <1>1, <1>4 DEF UndoUser, RemoveUser, FailedWrite, Routers, Present, Writes, NoWrite
<1>5. CASE SetUser(r)
  <2>1. \A c \in CommentsWritten(r) : Patched(router[n], req[r], c).comment = c
    BY <1>1 DEF Patched, Account
  <2> QED
    BY <1>1, <1>5, <2>1 DEF SetUser, FailedWrite, Routers, Present, Writes, NoWrite
<1>6. CASE RemoveProfile(r)
  BY <1>1, <1>6
     DEF RemoveProfile, FailedWrite, Routers, Present, Account, Profiles, Writes,
         NoWrite
<1>7. CASE UNCHANGED router
  BY <1>7
<1> QED
  BY <1>2, <1>3, <1>4, <1>5, <1>6, <1>7
     DEF Serve, tables, CheckQuota, SetupCerts, InsertRow, Record, UndoRow,
         FindRow, AdoptRead, AdoptInsert, AdoptFind, PatchRead, PatchCheck,
         UpdateRead, UpdateWrite, AssignRead, CheckUser, DeleteRow, Detail, Reads,
         NoWrite

\* What SetUser writes as the owner is the owner it finds.
LEMMA OwnerStays ==
  ASSUME TypeInv, NEW r \in Calls, Serve(r), NEW n \in Names,
         Present(n), Present(n)',
         pc[r] = "setUser" /\ n = req[r].name => mem[r].owner = OwnerOf(n)
  PROVE  OwnerOf(n)' = OwnerOf(n)
<1>1. CASE router'[n].comment = router[n].comment
  BY <1>1 DEF OwnerOf, Resolve
<1>2. CASE /\ pc[r] = "setUser" /\ n = req[r].name
           /\ router'[n].comment \in CommentsWritten(r)
  <2>1. mem[r].owner = Resolve(n, router[n].comment)
    BY <1>2 DEF OwnerOf
  <2>2. Resolve(n, router'[n].comment) = Resolve(n, router[n].comment)
    BY <1>2, <2>1 DEF CommentsWritten, Resolve
  <2> QED
    BY <2>2 DEF OwnerOf
<1> QED
  BY <1>1, <1>2, CommentChange

\* A new account has the owner that its name gives it.
LEMMA NewOwner ==
  ASSUME TypeInv, NEW r \in Calls, Serve(r), NEW n \in Names,
         ~Present(n), Present(n)'
  PROVE  OwnerOf(n)' = NameOwner[n]
<1>1. router'[n] = NewAccount(r) /\ pc[r] = "addUser" /\ n = req[r].name
  BY RouterChange DEF Present
<1>2. req[r].mgr \in {NoOwner, NameOwner[n]}
  BY <1>1, RequestType DEF TypeInv, Control, CreateSteps, Admissible
<1>3. router'[n].comment = req[r].mgr
  BY <1>1 DEF NewAccount
<1> QED
  BY <1>2, <1>3 DEF OwnerOf, Resolve

LEMMA OwnerInit == Init => OwnerInv
<1> SUFFICES ASSUME Init PROVE OwnerInv
  OBVIOUS
<1>1. \A n \in Names : Present(n) => router[n].id \notin Calls
  BY ConstantsAssumption DEF Init, Present
<1> QED
  BY <1>1, BackedInit DEF Init, OwnerInv, CreatedOwner, OwnerRead, OwnerListed

\* While nobody edits or deletes accounts, a handler moves no name to another owner.
LEMMA OwnerNowKept ==
  ASSUME OwnerInv, Quiet, NEW r \in Calls, Serve(r), NEW n \in Names
  PROVE  OwnerNow(n)' = OwnerNow(n)
<1>1. TypeInv /\ BackedInv /\ OwnerRead(r) /\ CreatedOwner(n)
  BY DEF OwnerInv, BackedInv, HeldInv, OwnInv
<1>2. Present(n) /\ Present(n)' => OwnerOf(n)' = OwnerOf(n)
  BY <1>1, OwnerStays DEF OwnerRead, OwnerNow
<1>3. ~Present(n) /\ Present(n)' => OwnerOf(n)' = NameOwner[n]
  BY <1>1, NewOwner
<1>4. Present(n) /\ ~Present(n)' => OwnerOf(n) = NameOwner[n]
  BY <1>1, TakenByOwner DEF CreatedOwner
<1> QED
  BY <1>2, <1>3, <1>4 DEF OwnerNow

\* Whether a list is cached or read now, the owner it gives is the owner.
LEMMA OwnerFound ==
  ASSUME OwnerInv, Quiet, NEW n \in Names, NEW u \in UsersRead, u[n] # NoAccount
  PROVE  Resolve(n, u[n].comment) = OwnerNow(n)
<1>1. OwnerListed(n) /\ router \in Routers
  BY DEF OwnerInv, BackedInv, HeldInv, OwnInv, TypeInv, TypeOK
<1>2. CASE u = UsersNow
  <2>1. Present(n) /\ u[n] = [router[n] EXCEPT !.profile = "none"]
    BY <1>2 DEF UsersNow
  <2>2. u[n].comment = router[n].comment
    BY <1>1, <2>1 DEF Present, Routers, Account
  <2> QED
    BY <2>1, <2>2 DEF OwnerNow, OwnerOf
<1>3. CASE u = users /\ users # NoList
  BY <1>1, <1>3 DEF OwnerListed
<1> QED
  BY <1>2, <1>3 DEF UsersRead

LEMMA OwnerReadOwnStep ==
  ASSUME OwnerInv, NEW r \in Calls, Serve(r), Quiet
  PROVE  OwnerRead(r)'
<1> SUFFICES ASSUME pc'[r] \in {"patchCheck", "setUser"} PROVE OwnerRead(r)'
  BY DEF OwnerRead
<1>1. /\ Flow /\ pc \in [Calls -> Steps] /\ mem \in Locals /\ mem[r] \in Local
      /\ router \in Routers /\ CacheTypes /\ TypeOK
  BY DEF OwnerInv, BackedInv, HeldInv, OwnInv, TypeInv, TypeOK, Flow, Locals,
         CacheTypes
<1>2. req' = req /\ req[r].name \in Names
  BY <1>1, Progress, RequestType
<1>3. PatchRead(r) \/ PatchCheck(r)
  BY <1>1, <1>2
     DEF Serve, Go, Answer, Kept, StepWithRow, CheckQuota, AddUser, SetupCerts,
         InsertRow, OnNameTaken, OnInsertRefused, OnProfileRefused, AddProfile,
         Record,
         UndoUser, UndoRow, FindRow, AdoptRead, AdoptInsert, AdoptFind, SetUser,
         UpdateRead, UpdateWrite, AssignRead, RemoveProfile, CheckUser, RemoveUser,
         DeleteRow, Detail
<1>4. OwnerNow(req[r].name)' = OwnerNow(req[r].name)
  BY <1>2, OwnerNowKept
<1>5. CASE PatchRead(r)
  <2> DEFINE n == req[r].name
  <2>1. PICK a \in GetUser(n) \ {NoAccount} :
          mem' = [mem EXCEPT ![r].owner = Resolve(n, a.comment), ![r].shared = a.shared]
    BY <1>1, <1>5 DEF PatchRead, Go, Answer
  <2>2. Resolve(n, a.comment) = OwnerNow(n)
    BY <1>2, OwnerFound DEF GetUser
  <2>3. mem'[r].owner = Resolve(n, a.comment)
    BY <1>1, <2>1 DEF Locals, Local
  <2> QED
    BY <1>2, <1>4, <2>2, <2>3 DEF OwnerRead
<1>6. CASE PatchCheck(r)
  BY <1>1, <1>2, <1>4, <1>6 DEF PatchCheck, OwnerInv, OwnerRead, Kept
<1> QED
  BY <1>3, <1>5, <1>6

LEMMA OwnerListedStep ==
  ASSUME OwnerInv, Quiet, Quiet', NEW n \in Names, OwnerNow(n)' = OwnerNow(n),
         users' \in UsersRead \union {users, NoList}
  PROVE  OwnerListed(n)'
<1>1. users' = NoList \/ users' \in UsersRead
  BY DEF UsersRead
<1> QED
  BY <1>1, OwnerFound DEF OwnerListed

LEMMA OwnerStep == OwnerInv /\ [Next]_vars => OwnerInv'
<1> SUFFICES ASSUME OwnerInv, [Next]_vars PROVE OwnerInv'
  OBVIOUS
<1>1. /\ BackedInv /\ BackedInv' /\ TypeInv /\ TypeOK /\ Flow /\ router \in Routers
      /\ mem \in Locals /\ untold \in BOOLEAN
  BY BackedStep DEF OwnerInv, BackedInv, HeldInv, OwnInv, TypeInv, TypeOK, Flow,
                    Locals
<1> DEFINE Goal == /\ \A n \in Names : CreatedOwner(n)' /\ OwnerListed(n)'
                   /\ \A k \in Calls : OwnerRead(k)'
<1> SUFFICES ASSUME Quiet' PROVE Goal
  BY <1>1 DEF OwnerInv, CreatedOwner, OwnerRead, OwnerListed
<1>2. Quiet
  BY <1>1, QuietBefore
<1>3. /\ \A n \in Names : CreatedOwner(n)
      /\ \A r \in Calls : OwnerRead(r)
  BY DEF OwnerInv
<1>4. ASSUME NEW r \in Calls, Serve(r) PROVE Goal
  <2>1. ASSUME NEW n \in Names PROVE CreatedOwner(n)'
    <3>1. Present(n) /\ Present(n)' => router'[n].id = router[n].id
      BY <1>1, <1>4, RouterChange DEF Present
    <3>2. OwnerNow(n)' = OwnerNow(n)
      BY <1>2, <1>4, OwnerNowKept
    <3>3. ~Present(n) /\ Present(n)' => OwnerOf(n)' = NameOwner[n]
      BY <1>1, <1>4, NewOwner
    <3> QED
      BY <1>2, <1>3, <3>1, <3>2, <3>3 DEF CreatedOwner, OwnerNow
  <2>2. ASSUME NEW k \in Calls PROVE OwnerRead(k)'
    <3>1. CASE k = r
      BY <1>2, <1>4, <3>1, OwnerReadOwnStep
    <3>2. CASE k # r /\ pc[k] \in {"patchCheck", "setUser"}
      <4>1. /\ pc'[k] = pc[k] /\ mem'[k] = mem[k] /\ req' = req
            /\ req[k].name \in Names
        BY <1>1, <1>4, <3>2, Progress, OthersKept, RequestType
      <4>2. OwnerNow(req[k].name)' = OwnerNow(req[k].name)
        BY <1>2, <1>4, <4>1, OwnerNowKept
      <4> QED
        BY <1>2, <1>3, <3>2, <4>1, <4>2 DEF OwnerRead
    <3>3. CASE k # r /\ pc[k] \notin {"patchCheck", "setUser"}
      BY <1>1, <1>4, <3>3, Progress DEF OwnerRead
    <3> QED
      BY <3>1, <3>2, <3>3
  <2>3. users' \in UsersRead \union {users, NoList}
    BY <1>1, <1>4, CacheMoves DEF Writes, Dropped, StoredLate
  <2>4. ASSUME NEW n \in Names PROVE OwnerListed(n)'
    BY <1>2, <1>4, <2>3, OwnerNowKept, OwnerListedStep
  <2> QED
    BY <2>1, <2>2, <2>4
<1>5. ASSUME \A n \in Names : /\ Present(n)' <=> Present(n)
                              /\ Present(n) => /\ router'[n].id = router[n].id
                                               /\ OwnerOf(n)' = OwnerOf(n),
             mem' = mem, users' \in UsersRead \union {users, NoList},
             \A k \in Calls : pc'[k] \in {"patchCheck", "setUser"} =>
                                 pc'[k] = pc[k] /\ req'[k] = req[k]
      PROVE  Goal
  <2>1. \A n \in Names : OwnerNow(n)' = OwnerNow(n)
    BY <1>5 DEF OwnerNow
  <2>2. \A n \in Names : CreatedOwner(n)'
    BY <1>2, <1>3, <1>5 DEF CreatedOwner
  <2>3. \A n \in Names : OwnerListed(n)'
    BY <1>2, <1>5, <2>1, OwnerListedStep
  <2>4. \A k \in Calls : pc[k] \in {"patchCheck", "setUser"} => req[k].name \in Names
    BY <1>1, RequestType
  <2>5. \A k \in Calls : OwnerRead(k)'
    BY <1>2, <1>3, <1>5, <2>1, <2>4 DEF OwnerRead
  <2> QED
    BY <2>2, <2>3, <2>5
<1>6. ASSUME (\E r \in Calls : Start(r)) \/ Fill \/ Crash \/ UNCHANGED vars
      PROVE  Goal
  <2>1. UNCHANGED <<router, mem>>
    BY <1>6 DEF Start, Fill, Crash, vars, tables
  <2>2. \A k \in Calls : pc'[k] \in {"patchCheck", "setUser"} =>
                            pc'[k] = pc[k] /\ req'[k] = req[k]
    BY <1>1, <1>6 DEF Start, FirstStep, Fill, Crash, vars, TypeOK
  <2>3. users' \in UsersRead \union {users, NoList}
    BY <1>6 DEF Start, Fill, Crash, vars, cache, UsersRead
  <2> QED
    BY <1>5, <2>1, <2>2, <2>3 DEF Present, OwnerOf
<1>7. ASSUME NEW n \in Names, Expire(n) PROVE Goal
  <2>1. router[n] \in Account /\ [router[n] EXCEPT !.profile = "idle"] \in Account
    BY <1>1, <1>7 DEF Expire, Present, Routers, Account, Profiles
  <2>2. ASSUME NEW j \in Names
        PROVE  /\ Present(j)' <=> Present(j)
               /\ Present(j) => /\ router'[j].id = router[j].id
                                /\ OwnerOf(j)' = OwnerOf(j)
    <3>1. CASE j = n
      <4>1. router'[j] = [router[n] EXCEPT !.profile = "idle"]
        BY <1>1, <1>7, <3>1 DEF Expire, Routers
      <4>2. router'[j].comment = router[j].comment /\ router'[j].id = router[j].id
        BY <2>1, <3>1, <4>1 DEF Account
      <4> QED
        BY <2>1, <3>1, <4>1, <4>2, ConstantsAssumption DEF Present, OwnerOf
    <3>2. CASE j # n
      <4>1. router'[j] = router[j]
        BY <1>1, <1>7, <3>2 DEF Expire, Routers
      <4> QED
        BY <4>1 DEF Present, OwnerOf
    <3> QED
      BY <3>1, <3>2
  <2> QED
    BY <1>5, <1>7, <2>2 DEF Expire, cache
<1>8. ASSUME NEW n \in Names, WinboxEdit(n) PROVE FALSE
  BY <1>1, <1>2, <1>8 DEF WinboxEdit, Quiet
<1> QED
  BY <1>4, <1>6, <1>7, <1>8 DEF Next, AllAnswered

LEMMA OwnerAlways == Spec => []OwnerInv
  BY OwnerInit, OwnerStep, PTL DEF Spec

\* The panel token that a patch writes is that of the owner found by GetUser
\* some commands before; with no delete and no edit, the account it is written
\* to has this owner.
THEOREM PatchesKeepOwner == Spec => PatchKeepsOwner
<1>1. ASSUME OwnerInv, [Next]_vars
      PROVE  [\A r \in Calls :
                /\ Stepped(r, "setUser") /\ edits = 0
                /\ \A d \in Calls : req[d] # NoInput => req[d].op # "delete"
                /\ Present(req[r].name)
                => OwnerOf(req[r].name)' = OwnerOf(req[r].name)]_vars
  <2> SUFFICES ASSUME NEW r \in Calls, Stepped(r, "setUser"), Quiet,
                      Present(req[r].name)
               PROVE  OwnerOf(req[r].name)' = OwnerOf(req[r].name)
    BY DEF Quiet
  <2>1. /\ TypeInv /\ TypeOK /\ Flow /\ OwnerRead(r) /\ BackedInv
        /\ req[r].name \in Names
    BY <1>1, RequestType
       DEF OwnerInv, BackedInv, HeldInv, OwnInv, TypeInv, TypeOK, Flow, Stepped
  <2>2. CASE Serve(r)
    <3>1. req' = req
      BY <2>1, <2>2, Progress
    <3>2. Present(req[r].name)'
      BY <2>1, <2>2, <3>1, RouterTaken DEF Present, Stepped
    <3> QED
      BY <2>1, <2>2, <3>1, <3>2, OwnerStays DEF OwnerRead, OwnerNow
  <2>3. CASE Crash
    BY <2>3 DEF Crash, tables, OwnerOf
  <2>4. Serve(r) \/ Crash
    BY <1>1, <2>1, Progress
       DEF Next, Start, Expire, WinboxEdit, Fill, AllAnswered, vars, Stepped, TypeOK
  <2> QED
    BY <2>2, <2>3, <2>4
<1> QED
  BY <1>1, OwnerAlways, PTL DEF Spec, PatchKeepsOwner


----------------------------------------------------------------------------
(* The rules of a call that nobody disturbs.                               *)

\* Unless a change is missing, what is cached is what the router answers, but for a
\* profile that has expired since.
ProfileFresh(n) ==
  \/ profiles[n] \in {NoList, ProfilesNow(n)}
  \/ profiles[n] = "active" /\ ProfilesNow(n) = "idle"
ListsFresh ==
  ~untold => users \in {NoList, UsersNow} /\ \A n \in Names : ProfileFresh(n)

LEMMA ListsFreshInit == Init => ListsFresh
  BY DEF Init, ListsFresh, ProfileFresh, NoProfiles

\* What expires changes nothing else.
LEMMA ExpireKeeps ==
  ASSUME TypeInv, NEW n \in Names, Expire(n)
  PROVE  /\ router' \in Routers
         /\ \A j \in Names \ {n} : router'[j] = router[j]
         /\ Present(n) /\ Present(n)' /\ router[n] \in Account
         /\ router[n].profile = "active"
         /\ router'[n] = [router[n] EXCEPT !.profile = "idle"]
         /\ router'[n].comment = router[n].comment /\ router'[n].profile = "idle"
         /\ UNCHANGED <<rows, cache, pc, req, mem, failedAt, disturbed>>
<1>1. router \in Routers /\ Present(n) /\ router[n] \in Account
  BY DEF TypeInv, TypeOK, Expire, Present, Routers
<1>2. router' = [router EXCEPT ![n].profile = "idle"] /\ router' \in Routers
  BY <1>1, AccountWritten DEF Expire
<1>3. router'[n] = [router[n] EXCEPT !.profile = "idle"]
  BY <1>1, <1>2 DEF Routers
<1>4. [router[n] EXCEPT !.profile = "idle"] \in Account
  BY <1>1 DEF Account, Profiles
<1>5. router'[n].comment = router[n].comment /\ router'[n].profile = "idle"
  BY <1>1, <1>3 DEF Account
<1>6. \A j \in Names \ {n} : router'[j] = router[j]
  BY <1>1, <1>2 DEF Routers
<1>7. Present(n)'
  BY <1>3, <1>4, ConstantsAssumption DEF Present
<1> QED
  BY <1>1, <1>2, <1>3, <1>5, <1>6, <1>7 DEF Expire

LEMMA ListsFreshStep ==
  ASSUME TypeInv, ListsFresh, [Next]_vars
  PROVE  ListsFresh'
<1>1. untold \in BOOLEAN /\ CacheTypes /\ router \in Routers
  BY DEF TypeInv, TypeOK, CacheTypes
<1>2. ASSUME UNCHANGED <<users, profiles, router>>, untold => untold' PROVE ListsFresh'
  BY <1>2 DEF ListsFresh, ProfileFresh, UsersNow, ProfilesNow, Present
<1>3. ASSUME users' = NoList, profiles' = NoProfiles PROVE ListsFresh'
  BY <1>3 DEF ListsFresh, ProfileFresh, NoProfiles
<1>4. ASSUME NEW r \in Calls, Serve(r) PROVE ListsFresh'
  <2>1. ASSUME NEW new, Writes(new) PROVE ListsFresh'
    BY <1>3, <2>1 DEF Writes, Dropped, ListsFresh
  <2>2. ASSUME UNCHANGED <<users, profiles>>, untold \/ router' # router => untold'
        PROVE  ListsFresh'
    BY <1>2, <2>2 DEF ListsFresh
  <2> QED
    BY <1>1, <1>4, <2>1, <2>2, CacheMoves
<1>5. ASSUME (\E r \in Calls : Start(r)) \/ UNCHANGED vars PROVE ListsFresh'
  BY <1>2, <1>5 DEF Start, vars, tables, cache
<1>6. ASSUME Fill PROVE ListsFresh'
  <2>1. UsersNow' = UsersNow /\ \A n \in Names : ProfilesNow(n)' = ProfilesNow(n)
    BY <1>6 DEF Fill, tables, UsersNow, ProfilesNow, Present
  <2>2. CASE users' = UsersNow /\ UNCHANGED profiles
    BY <1>6, <2>1, <2>2 DEF Fill, ListsFresh, ProfileFresh
  <2>3. ASSUME NEW n \in Names, profiles' = [profiles EXCEPT ![n] = ProfilesNow(n)],
               UNCHANGED users
        PROVE  ListsFresh'
    BY <1>1, <1>6, <2>1, <2>3 DEF Fill, ListsFresh, ProfileFresh, CacheTypes
  <2> QED
    BY <1>6, <2>2, <2>3 DEF Fill
<1>7. ASSUME NEW n \in Names, Expire(n) PROVE ListsFresh'
  <2>1. UsersNow' = UsersNow
    <3>1. ASSUME NEW j \in Names PROVE UsersNow'[j] = UsersNow[j]
      <4>1. CASE j = n
        BY <1>7, <4>1, ExpireKeeps DEF UsersNow, Account
      <4>2. CASE j # n
        BY <1>7, <4>2, ExpireKeeps DEF UsersNow, Present
      <4> QED
        BY <4>1, <4>2
    <3> QED
      BY <3>1 DEF UsersNow
  <2>2. ASSUME NEW j \in Names, ProfileFresh(j) PROVE ProfileFresh(j)'
    <3>1. profiles'[j] = profiles[j]
      BY <1>7, ExpireKeeps DEF cache
    <3>2. CASE j = n
      BY <1>7, <2>2, <3>1, <3>2, ExpireKeeps DEF ProfileFresh, ProfilesNow
    <3>3. CASE j # n
      BY <1>7, <2>2, <3>1, <3>3, ExpireKeeps DEF ProfileFresh, ProfilesNow, Present
    <3> QED
      BY <3>2, <3>3
  <2> QED
    BY <1>7, <2>1, <2>2, ExpireKeeps DEF ListsFresh, cache
<1>8. ASSUME NEW n \in Names, WinboxEdit(n) PROVE ListsFresh'
  BY <1>8 DEF WinboxEdit, ListsFresh
<1>9. CASE Crash
  BY <1>3, <1>9 DEF Crash
<1> QED
  BY <1>4, <1>5, <1>6, <1>7, <1>8, <1>9 DEF Next, AllAnswered

\* An account that is found while no change is missing is as it is on the router.
LEMMA FreshUser ==
  ASSUME TypeInv, ListsFresh, ~untold, NEW n \in Names,
         NEW a \in GetUser(n) \ {NoAccount}
  PROVE  /\ Present(n) /\ a.shared = router[n].shared
         /\ Resolve(n, a.comment) = OwnerOf(n)
<1>1. router \in Routers
  BY DEF TypeInv, TypeOK
<1>2. a = UsersNow[n]
  BY DEF GetUser, UsersRead, ListsFresh
<1>3. Present(n) /\ a = [router[n] EXCEPT !.profile = "none"] /\ router[n] \in Account
  BY <1>1, <1>2 DEF UsersNow, Present, Routers
<1>4. a.shared = router[n].shared /\ a.comment = router[n].comment
  BY <1>3 DEF Account
<1> QED
  BY <1>3, <1>4 DEF OwnerOf

\* A step of another handler that leaves a call undisturbed.
LEMMA Undisturbed ==
  ASSUME NEW r \in Calls, Serve(r), NEW k \in Calls, k \notin disturbed'
  PROVE  /\ k \notin disturbed
         /\ k = r /\ Reads(r) => ~untold
         /\ k # r /\ pc[k] \notin {"idle", "done"} =>
              /\ router'[req[k].name] = router[req[k].name]
              /\ \A x \in rows \union rows' :
                   x.name = req[k].name => (x \in rows <=> x \in rows')
              /\ \A m \in Managers :
                   router' = router \/ ~(UsedIn(router', m) > Used(m))
<1>1. k \notin disturbed
  BY DisturbMoves DEF Disturb, Reads
<1>2. k = r /\ Reads(r) => ~untold
  BY DEF Reads
<1>3. ASSUME k # r, k \in InFlight, Disturb({r})
      PROVE  /\ router'[req[k].name] = router[req[k].name]
             /\ \A x \in rows \union rows' :
                  x.name = req[k].name => (x \in rows <=> x \in rows')
             /\ \A m \in Managers : ~(UsedIn(router', m) > Used(m))
  BY <1>3 DEF Disturb
<1>4. Disturb({r}) \/ UNCHANGED <<router, rows>>
  BY DisturbMoves DEF Reads, tables
<1> QED
  BY <1>1, <1>2, <1>3, <1>4 DEF InFlight

\* The row that a patch works on is that of its account.
RowOfPatch(r) ==
  r \notin disturbed /\ pc[r] \in PatchSteps =>
    \E x \in rows : x.id = mem[r].row /\ x.name = req[r].name

\* The owner that a patch has read is the owner still, and so is the
\* manager_id it was given once that has been compared.
OwnerOfPatch(r) ==
  r \notin disturbed /\ pc[r] \in PatchSteps /\ Present(req[r].name) =>
    /\ pc[r] \in {"patchCheck", "setUser"} => mem[r].owner = OwnerOf(req[r].name)
    /\ pc[r] \in {"setUser", "updateRead"} /\ req[r].mgr # NoOwner
         => req[r].mgr = OwnerOf(req[r].name)

\* The manager_id about to be written is the one the row has, or the owner.
OwnerToWrite(r) ==
  r \notin disturbed /\ pc[r] = "updateWrite" =>
    \/ Present(req[r].name) => mem[r].owner = OwnerOf(req[r].name)
    \/ \A x \in rows : x.id = mem[r].row => x.mgr = mem[r].owner

PatchInv ==
  /\ HeldInv /\ ListsFresh
  /\ \A r \in Calls : RowOfPatch(r) /\ OwnerOfPatch(r) /\ OwnerToWrite(r)

\* A handler comes to a step of a patch, and what it may write then.
LEMMA PatchMoves ==
  ASSUME PatchInv, NEW r \in Calls, Serve(r), pc'[r] \in PatchSteps
  PROVE  /\ req' = req /\ req[r].name \in Names /\ req[r].op = "patch"
         /\ \/ FindRow(r) \/ AdoptInsert(r) \/ AdoptFind(r) \/ PatchRead(r)
            \/ PatchCheck(r) \/ SetUser(r) \/ UpdateRead(r)
<1>1. /\ Flow /\ pc \in [Calls -> Steps] /\ TypeOK /\ OnRoute(r)
  BY DEF PatchInv, HeldInv, OwnInv, TypeInv, TypeOK, Flow
<1>2. req' = req /\ pc[r] # "idle" /\ req[r].name \in Names
  BY <1>1, Progress, RequestType
<1>3. OnRoute(r)'
  BY <1>1, OnRouteStep
<1> QED
  BY <1>1, <1>2, <1>3
     DEF Serve, PatchSteps, OnRoute, Go, Answer, Kept, CheckQuota, AddUser,
         SetupCerts, InsertRow, OnNameTaken, OnInsertRefused, OnProfileRefused,
         AddProfile, Record, UndoUser, UndoRow, AdoptRead, UpdateWrite,
         AssignRead, RemoveProfile, CheckUser, RemoveUser, DeleteRow, Detail, Reads,
         tables, Writes, NoWrite

LEMMA RowOfPatchStep ==
  ASSUME PatchInv, NEW r \in Calls, Serve(r)
  PROVE  RowOfPatch(r)'
<1> SUFFICES ASSUME pc'[r] \in PatchSteps, r \notin disturbed'
             PROVE  \E y \in rows' : y.id = mem'[r].row /\ y.name = req'[r].name
  BY DEF RowOfPatch
<1>1. /\ TypeInv /\ Flow /\ mem \in Locals /\ mem[r] \in Local
      /\ pc \in [Calls -> Steps]
      /\ rows \subseteq Row /\ RowOfPatch(r) /\ r \notin disturbed
  BY Undisturbed DEF PatchInv, HeldInv, TablesInv, TypeInv, TypeOK, Flow, Locals
<1>2. /\ req' = req /\ req[r].op = "patch"
      /\ \/ FindRow(r) \/ AdoptInsert(r) \/ AdoptFind(r) \/ PatchRead(r)
         \/ PatchCheck(r) \/ SetUser(r) \/ UpdateRead(r)
  BY PatchMoves
<1>3. \A i \in Ids : mem' = [mem EXCEPT ![r].row = i] => mem'[r].row = i
  BY <1>1 DEF Locals, Local
<1>4. ASSUME NEW x \in Named(req[r].name), mem' = [mem EXCEPT ![r].row = x.id],
             rows' = rows
      PROVE  \E y \in rows' : y.id = mem'[r].row /\ y.name = req'[r].name
  BY <1>1, <1>2, <1>3, <1>4 DEF Named, Row
<1>5. CASE FindRow(r)
  BY <1>1, <1>2, <1>4, <1>5
     DEF FindRow, tables, Go, Answer, PatchSteps
<1>6. CASE AdoptFind(r)
  BY <1>1, <1>4, <1>6 DEF AdoptFind, tables, Answer, PatchSteps
<1>7. CASE AdoptInsert(r)
  <2>1. rows' = rows \union {NewRow(r, mem[r].owner)} /\ mem' = [mem EXCEPT ![r].row = r]
    BY <1>1, <1>7 DEF AdoptInsert, Go, PatchSteps
  <2>2. NewRow(r, mem[r].owner).id = r /\ NewRow(r, mem[r].owner).name = req[r].name
    BY DEF NewRow
  <2>3. mem'[r].row = r
    BY <1>3, <2>1 DEF Ids
  <2> QED
    BY <1>2, <2>1, <2>2, <2>3
<1>8. ASSUME PatchRead(r) \/ PatchCheck(r) \/ SetUser(r) \/ UpdateRead(r)
      PROVE  \E y \in rows' : y.id = mem'[r].row /\ y.name = req'[r].name
  <2>1. rows' = rows /\ mem'[r].row = mem[r].row /\ pc[r] \in PatchSteps
    <3>1. CASE PatchRead(r)
      <4>1. \/ mem' = mem
            \/ \E o, s : mem' = [mem EXCEPT ![r].owner = o, ![r].shared = s]
        BY <3>1 DEF PatchRead
      <4>2. mem'[r].row = mem[r].row
        BY <1>1, <4>1 DEF Locals, Local
      <4> QED
        BY <3>1, <4>2 DEF PatchRead, tables, PatchSteps, Reads
    <3>2. CASE PatchCheck(r)
      BY <3>2 DEF PatchCheck, Kept, tables, PatchSteps, Reads
    <3>3. CASE SetUser(r)
      BY <1>1, <3>3 DEF SetUser, PatchSteps, Locals, Local
    <3>4. CASE UpdateRead(r)
      BY <1>1, <3>4 DEF UpdateRead, tables, PatchSteps, Locals, Local
    <3> QED
      BY <1>8, <3>1, <3>2, <3>3, <3>4
  <2> QED
    BY <1>1, <1>2, <2>1 DEF RowOfPatch
<1> QED
  BY <1>2, <1>5, <1>6, <1>7, <1>8

LEMMA OwnerOfPatchStep ==
  ASSUME PatchInv, NEW r \in Calls, Serve(r)
  PROVE  OwnerOfPatch(r)'
<1> DEFINE n == req[r].name
<1> SUFFICES ASSUME pc'[r] \in PatchSteps, Present(req[r].name)', r \notin disturbed'
             PROVE  OwnerOfPatch(r)'
  BY PatchMoves DEF OwnerOfPatch
<1>1. /\ TypeInv /\ Flow /\ mem \in Locals /\ mem[r] \in Local
      /\ pc \in [Calls -> Steps]
      /\ OwnerOfPatch(r) /\ r \notin disturbed /\ ListsFresh
  BY Undisturbed DEF PatchInv, HeldInv, TablesInv, TypeInv, TypeOK, Flow, Locals
<1>2. /\ req' = req /\ req[r].op = "patch" /\ n \in Names
      /\ \/ FindRow(r) \/ AdoptInsert(r) \/ AdoptFind(r) \/ PatchRead(r)
         \/ PatchCheck(r) \/ SetUser(r) \/ UpdateRead(r)
  BY PatchMoves
<1>3. ASSUME FindRow(r) \/ AdoptInsert(r) \/ AdoptFind(r)
      PROVE  OwnerOfPatch(r)'
  <2>1. pc'[r] = "patchRead"
    BY <1>1, <1>2, <1>3
       DEF FindRow, AdoptInsert, AdoptFind, Go, Answer, StepWithRow, PatchSteps,
           NoWrite
  <2> QED
    BY <2>1 DEF OwnerOfPatch
<1>4. CASE PatchRead(r)
  <2>1. PICK a \in GetUser(n) \ {NoAccount} :
          mem' = [mem EXCEPT ![r].owner = Resolve(n, a.comment), ![r].shared = a.shared]
    BY <1>1, <1>4 DEF PatchRead, Answer, PatchSteps
  <2>2. ~untold /\ pc'[r] = "patchCheck" /\ router' = router
    BY <1>1, <1>4, Undisturbed DEF PatchRead, Go, Answer, PatchSteps, tables, Reads
  <2>3. Resolve(n, a.comment) = OwnerOf(n)
    BY <1>1, <1>2, <2>2, FreshUser
  <2>4. mem'[r].owner = Resolve(n, a.comment)
    BY <1>1, <2>1 DEF Locals, Local
  <2>5. OwnerOf(n)' = OwnerOf(n)
    BY <1>2, <2>2 DEF OwnerOf
  <2> QED
    BY <1>2, <2>2, <2>3, <2>4, <2>5 DEF OwnerOfPatch
<1>5. CASE PatchCheck(r)
  <2>1. /\ mem' = mem /\ router' = router /\ pc[r] = "patchCheck"
        /\ pc'[r] = "setUser" /\ ~SyncRefused(r)
    BY <1>1, <1>5 DEF PatchCheck, Go, Answer, PatchSteps, tables, Kept, Reads
  <2> QED
    BY <1>1, <1>2, <2>1
       DEF OwnerOfPatch, PatchSteps, SyncRefused, OwnerOf, Present
<1>6. CASE SetUser(r)
  <2>1. Present(n) /\ pc[r] = "setUser" /\ pc'[r] = "updateRead"
    BY <1>1, <1>6 DEF SetUser, Go, Answer, PatchSteps, Writes, NoWrite
  <2>2. OwnerOf(n)' = OwnerOf(n)
    <3>1. mem[r].owner = OwnerOf(n)
      BY <1>1, <2>1 DEF OwnerOfPatch, PatchSteps
    <3> QED
      BY <1>1, <1>2, <2>1, <3>1, OwnerStays
  <2> QED
    BY <1>1, <1>2, <2>1, <2>2 DEF OwnerOfPatch, PatchSteps
<1>7. CASE UpdateRead(r)
  BY <1>1, <1>7 DEF UpdateRead, Go, Answer, PatchSteps, OwnerOfPatch
<1> QED
  BY <1>2, <1>3, <1>4, <1>5, <1>6, <1>7

LEMMA OwnerToWriteStep ==
  ASSUME PatchInv, NEW r \in Calls, Serve(r)
  PROVE  OwnerToWrite(r)'
<1> SUFFICES ASSUME pc'[r] = "updateWrite", r \notin disturbed' PROVE OwnerToWrite(r)'
  BY DEF OwnerToWrite
<1>1. /\ TypeInv /\ Flow /\ mem \in Locals /\ mem[r] \in Local
      /\ pc \in [Calls -> Steps]
      /\ OwnerOfPatch(r) /\ RowsUnique /\ r \notin disturbed
  BY Undisturbed DEF PatchInv, HeldInv, TablesInv, TypeInv, TypeOK, Flow, Locals
<1>2. req' = req /\ UpdateRead(r)
  BY <1>1, PatchMoves
     DEF PatchSteps, FindRow, AdoptInsert, AdoptFind, PatchRead, PatchCheck,
         SetUser, Go, Answer, StepWithRow, NoWrite, Reads, tables, Writes
<1>3. PICK x \in rows : /\ x.id = mem[r].row
                       /\ mem' = [mem EXCEPT ![r].owner =
                                    IF req[r].mgr = NoOwner THEN x.mgr ELSE req[r].mgr]
  BY <1>1, <1>2 DEF UpdateRead, Answer
<1>4. /\ mem'[r].owner = IF req[r].mgr = NoOwner THEN x.mgr ELSE req[r].mgr
      /\ mem'[r].row = mem[r].row
  BY <1>1, <1>3 DEF Locals, Local
<1>5. rows' = rows /\ router' = router /\ pc[r] = "updateRead"
  BY <1>2 DEF UpdateRead, tables
<1>6. CASE req[r].mgr = NoOwner
  BY <1>1, <1>3, <1>4, <1>5, <1>6 DEF OwnerToWrite, RowsUnique
<1>7. CASE req[r].mgr # NoOwner
  BY <1>1, <1>2, <1>4, <1>5, <1>7
     DEF OwnerToWrite, OwnerOfPatch, PatchSteps, Present, OwnerOf
<1> QED
  BY <1>6, <1>7

LEMMA PatchInit == Init => PatchInv
  BY HeldInit, ListsFreshInit
     DEF Init, PatchInv, RowOfPatch, OwnerOfPatch, OwnerToWrite, PatchSteps

\* What keeps what a patch knows: its account and its row stay as they are, but for
\* what does not matter to it.
LEMMA PatchKept ==
  ASSUME PatchInv, NEW k \in Calls, pc'[k] \in PatchSteps => pc'[k] = pc[k],
         req'[k] = req[k], mem'[k] = mem[k], k \notin disturbed,
         Present(req[k].name)' => /\ Present(req[k].name)
                                  /\ OwnerOf(req[k].name)' = OwnerOf(req[k].name),
         pc[k] \in PatchSteps => \A x \in rows \union rows' :
           x.name = req[k].name => (x \in rows <=> x \in rows'),
         RowsUnique'
  PROVE  RowOfPatch(k)' /\ OwnerOfPatch(k)' /\ OwnerToWrite(k)'
<1>1. RowOfPatch(k) /\ OwnerOfPatch(k) /\ OwnerToWrite(k)
  BY DEF PatchInv
<1>2. RowOfPatch(k)'
  BY <1>1 DEF RowOfPatch
<1>3. OwnerOfPatch(k)'
  BY <1>1 DEF OwnerOfPatch
<1>4. OwnerToWrite(k)'
  <2> SUFFICES ASSUME pc'[k] = "updateWrite" PROVE OwnerToWrite(k)'
    BY DEF OwnerToWrite
  <2>1. pc[k] = "updateWrite" /\ pc[k] \in PatchSteps
    BY DEF PatchSteps
  <2>2. CASE Present(req[k].name) => mem[k].owner = OwnerOf(req[k].name)
    BY <2>2 DEF OwnerToWrite
  <2>3. CASE \A x \in rows : x.id = mem[k].row => x.mgr = mem[k].owner
    <3>1. PICK x \in rows : x.id = mem[k].row /\ x.name = req[k].name
      BY <1>1, <2>1 DEF RowOfPatch
    <3>2. x \in rows' /\ x.mgr = mem[k].owner
      BY <2>1, <2>3, <3>1
    <3>3. \A y \in rows' : y.id = mem[k].row => y = x
      BY <3>1, <3>2 DEF RowsUnique
    <3> QED
      BY <3>2, <3>3 DEF OwnerToWrite
  <2> QED
    BY <1>1, <2>1, <2>2, <2>3 DEF OwnerToWrite
<1> QED
  BY <1>2, <1>3, <1>4

\* The two steps of a patch that write the owner end.
LEMMA WriteStepped ==
  ASSUME Flow, NEW r \in Calls, Serve(r), pc[r] \in {"setUser", "updateWrite"}
  PROVE  Stepped(r, pc[r])
<1>1. pc \in [Calls -> Steps] /\ (SetUser(r) \/ UpdateWrite(r))
  BY DEF Flow, Serve, CheckQuota, AddUser, SetupCerts, InsertRow, AddProfile, Record,
         UndoUser, UndoRow, FindRow, AdoptRead, AdoptInsert, AdoptFind, PatchRead,
         PatchCheck, UpdateRead, AssignRead, RemoveProfile, CheckUser, RemoveUser,
         DeleteRow, Detail
<1> QED
  BY <1>1 DEF SetUser, UpdateWrite, Go, Answer, Stepped

\* Calls come and go, profiles expire and edits are made: who is not disturbed by it
\* knows what it knew.
LEMMA PatchStep ==
  ASSUME PatchInv, [Next]_vars
  PROVE  PatchInv'
<1>1. /\ HeldInv /\ HeldInv' /\ TypeInv /\ TypeOK /\ Flow /\ router \in Routers
      /\ pc \in [Calls -> Steps] /\ mem \in Locals /\ RowsUnique' /\ ListsFresh
  BY HeldStep DEF PatchInv, HeldInv, OwnInv, TablesInv, TypeInv, TypeOK, Flow, Locals
<1> DEFINE Rules(k) == RowOfPatch(k) /\ OwnerOfPatch(k) /\ OwnerToWrite(k)
<1>2. \A k \in Calls : pc[k] \in PatchSteps =>
        req[k].name \in Names /\ pc[k] \notin {"idle", "done"}
  BY <1>1, RequestType DEF PatchSteps
<1>3. ASSUME NEW r \in Calls, Serve(r), NEW k \in Calls PROVE Rules(k)'
  <2>1. CASE k = r
    BY <1>3, <2>1, RowOfPatchStep, OwnerOfPatchStep, OwnerToWriteStep
  <2>2. CASE k # r /\ k \in disturbed'
    BY <2>2 DEF RowOfPatch, OwnerOfPatch, OwnerToWrite
  <2>3. CASE k # r /\ k \notin disturbed' /\ pc[k] \notin PatchSteps
    <3>1. pc'[k] = pc[k]
      BY <1>1, <1>3, <2>3, Progress
    <3> QED
      BY <2>3, <3>1 DEF RowOfPatch, OwnerOfPatch, OwnerToWrite, PatchSteps
  <2>4. CASE k # r /\ k \notin disturbed' /\ pc[k] \in PatchSteps
    <3>1. pc'[k] = pc[k] /\ req'[k] = req[k] /\ mem'[k] = mem[k]
      BY <1>1, <1>3, <2>4, Progress, OthersKept
    <3>2. /\ k \notin disturbed /\ router'[req[k].name] = router[req[k].name]
          /\ \A x \in rows \union rows' :
               x.name = req[k].name => (x \in rows <=> x \in rows')
      BY <1>2, <1>3, <2>4, Undisturbed
    <3>3. Present(req[k].name)' => /\ Present(req[k].name)
                                   /\ OwnerOf(req[k].name)' = OwnerOf(req[k].name)
      BY <3>1, <3>2 DEF Present, OwnerOf
    <3> QED
      BY <1>1, <3>1, <3>2, <3>3, PatchKept
  <2> QED
    BY <2>1, <2>2, <2>3, <2>4
<1>4. ASSUME NEW k \in Calls, UNCHANGED <<rows, mem>>, k \in disturbed => k \in disturbed',
             pc'[k] \in PatchSteps => pc'[k] = pc[k] /\ req'[k] = req[k],
             k \notin disturbed' /\ pc[k] \in PatchSteps /\ Present(req[k].name)' =>
               /\ Present(req[k].name)
               /\ OwnerOf(req[k].name)' = OwnerOf(req[k].name)
      PROVE  Rules(k)'
  <2>1. RowOfPatch(k) /\ OwnerOfPatch(k) /\ OwnerToWrite(k)
    BY DEF PatchInv
  <2>2. RowOfPatch(k)'
    BY <1>4, <2>1 DEF RowOfPatch
  <2>3. OwnerOfPatch(k)'
    BY <1>4, <2>1 DEF OwnerOfPatch
  <2>4. OwnerToWrite(k)'
    BY <1>4, <2>1 DEF OwnerToWrite, PatchSteps
  <2> QED
    BY <2>2, <2>3, <2>4
<1>5. ASSUME NEW k \in Calls,
             (\E r \in Calls : Start(r)) \/ Fill \/ Crash \/ UNCHANGED vars
      PROVE  Rules(k)'
  <2>1. UNCHANGED <<router, rows, mem, disturbed>>
    BY <1>5 DEF Start, Fill, Crash, vars, tables
  <2>2. pc'[k] \in PatchSteps => pc'[k] = pc[k] /\ req'[k] = req[k]
    <3>1. ASSUME NEW r \in Calls, Start(r)
          PROVE  pc'[k] \in PatchSteps => pc'[k] = pc[k] /\ req'[k] = req[k]
      BY <1>1, <3>1 DEF Start, FirstStep, PatchSteps, TypeOK
    <3> QED
      BY <1>1, <1>5, <3>1 DEF Fill, Crash, vars, PatchSteps
  <2>3. CASE pc'[k] \in PatchSteps
    BY <1>2, <1>4, <2>1, <2>2, <2>3 DEF Present, OwnerOf
  <2>4. CASE pc'[k] \notin PatchSteps
    BY <2>4 DEF RowOfPatch, OwnerOfPatch, OwnerToWrite, PatchSteps
  <2> QED
    BY <2>3, <2>4
<1>6. ASSUME NEW k \in Calls, NEW n \in Names, Expire(n) PROVE Rules(k)'
  <2>1. ASSUME NEW j \in Names, Present(j)'
        PROVE  Present(j) /\ OwnerOf(j)' = OwnerOf(j)
    <3>1. CASE j = n
      BY <1>1, <1>6, <3>1, ExpireKeeps DEF OwnerOf
    <3>2. CASE j # n
      BY <1>1, <1>6, <2>1, <3>2, ExpireKeeps DEF Present, OwnerOf
    <3> QED
      BY <3>1, <3>2
  <2>2. UNCHANGED <<pc, req, mem, rows, disturbed>>
    BY <1>6 DEF Expire
  <2> QED
    BY <1>2, <1>4, <2>1, <2>2
<1>7. ASSUME NEW k \in Calls, NEW n \in Names, WinboxEdit(n) PROVE Rules(k)'
  <2>1. UNCHANGED <<pc, req, mem, rows>>
    BY <1>7 DEF WinboxEdit
  <2>2. /\ k \in disturbed => k \in disturbed'
        /\ k \notin disturbed' /\ pc[k] \in PatchSteps =>
             router'[req[k].name] = router[req[k].name]
    BY <1>2, <1>7 DEF WinboxEdit, Disturb, InFlight
  <2> QED
    BY <1>4, <2>1, <2>2 DEF Present, OwnerOf
<1>8. ASSUME NEW k \in Calls PROVE Rules(k)'
  BY <1>3, <1>5, <1>6, <1>7, <1>8 DEF Next, AllAnswered
<1> QED
  BY <1>1, <1>8, ListsFreshStep DEF PatchInv

\* No step of the panel brings a row out of step with the owner that is found on the
\* router, neither the token written by SetUser nor the read and write of
\* UpdateVPNMeta, but one of a patch that has been disturbed; however many calls
\* there are, and whatever the router fails at.
THEOREM RowsInStep == Spec => RowsStayInStep
<1>1. ASSUME PatchInv, [Next]_vars
      PROVE  [\A x \in rows, y \in rows' :
                /\ edits' = edits /\ x.id = y.id
                /\ Present(x.name) /\ x.mgr = OwnerOf(x.name) /\ Present(x.name)'
                => \/ y.mgr = OwnerOf(x.name)'
                   \/ \E r \in disturbed : \/ Stepped(r, "setUser")
                                            \/ Stepped(r, "updateWrite")]_vars
  <2> SUFFICES ASSUME NEW x \in rows, NEW y \in rows', edits' = edits, x.id = y.id,
                      Present(x.name), x.mgr = OwnerOf(x.name), Present(x.name)',
                      \A r \in disturbed : /\ ~Stepped(r, "setUser")
                                           /\ ~Stepped(r, "updateWrite"),
                      ~UNCHANGED vars
               PROVE  y.mgr = OwnerOf(x.name)'
    OBVIOUS
  <2>1. /\ TypeInv /\ TypeOK /\ Flow /\ RowsUnique /\ Fresh /\ rows \subseteq Row
        /\ x.name \in Names /\ router \in Routers
    BY <1>1 DEF PatchInv, HeldInv, TablesInv, TypeInv, TypeOK, Flow, Row
  <2>2. ASSUME rows' = rows, OwnerOf(x.name)' = OwnerOf(x.name)
        PROVE  y.mgr = OwnerOf(x.name)'
    BY <2>1, <2>2 DEF RowsUnique
  <2>3. ASSUME NEW r \in Calls, Serve(r) PROVE y.mgr = OwnerOf(x.name)'
    <3>1. RowOfPatch(r) /\ OwnerOfPatch(r) /\ OwnerToWrite(r)
      BY <1>1 DEF PatchInv
    <3>2. pc[r] \in {"setUser", "updateWrite"} => r \notin disturbed
      BY <2>1, <2>3, WriteStepped
    <3>3. OwnerOf(x.name)' = OwnerOf(x.name)
      BY <2>1, <2>3, <3>1, <3>2, OwnerStays DEF OwnerOfPatch, PatchSteps
    <3>4. CASE UNCHANGED rows
      BY <2>2, <3>3, <3>4
    <3>5. CASE InsertsRow(r)
      BY <2>1, <3>3, <3>5 DEF InsertsRow, NewRow, Fresh, RowsUnique
    <3>6. CASE DeletesRow(r)
      BY <2>1, <3>3, <3>6 DEF DeletesRow, DeleteRowOf, RowsUnique
    <3>7. CASE UpdatesRow(r)
      <4>1. y = IF x.id = mem[r].row THEN [x EXCEPT !.mgr = mem[r].owner] ELSE x
        BY <2>1, <3>7 DEF UpdatesRow, RowsUnique, Row
      <4>2. CASE x.id # mem[r].row
        BY <3>3, <4>1, <4>2
      <4>3. CASE x.id = mem[r].row /\ pc[r] = "updateWrite"
        <5>1. y.mgr = mem[r].owner
          BY <2>1, <4>1, <4>3 DEF Row
        <5>2. x.name = req[r].name
          BY <2>1, <3>1, <3>2, <4>3 DEF RowOfPatch, PatchSteps, RowsUnique
        <5> QED
          BY <3>1, <3>2, <3>3, <4>3, <5>1, <5>2 DEF OwnerToWrite
      <4>4. pc[r] = "updateWrite"
        BY <3>7 DEF UpdatesRow
      <4> QED
        BY <4>2, <4>3, <4>4
    <3> QED
      BY <2>1, <2>3, <3>4, <3>5, <3>6, <3>7, TablesChange DEF AddsActivation
  <2>4. ASSUME (\E r \in Calls : Start(r)) \/ Fill \/ Crash PROVE y.mgr = OwnerOf(x.name)'
    BY <2>2, <2>4 DEF Start, Fill, Crash, tables, OwnerOf
  <2>5. ASSUME NEW n \in Names, Expire(n) PROVE y.mgr = OwnerOf(x.name)'
    <3>1. router'[x.name].comment = router[x.name].comment
      BY <2>1, <2>5, ExpireKeeps
    <3> QED
      BY <2>2, <2>5, <3>1 DEF Expire, OwnerOf
  <2>6. ASSUME NEW n \in Names, WinboxEdit(n) PROVE FALSE
    BY <2>1, <2>6 DEF WinboxEdit, TypeOK
  <2> QED
    BY <1>1, <2>3, <2>4, <2>5, <2>6 DEF Next, AllAnswered
<1> QED
  BY <1>1, PatchStep, PatchInit, PTL DEF Spec, RowsStayInStep

----------------------------------------------------------------------------
(* Sums over finite sets: MapThenSumSet adds in the order of CHOOSE.        *)

\* < on the natural numbers, as a relation.
NatLess == {ss \in Nat \X Nat : ss[1] < ss[2]}

\* Induction over the natural numbers, for a set.
LEMMA NatSet ==
  ASSUME NEW T \in SUBSET Nat, 0 \in T, \A k \in T : k + 1 \in T
  PROVE  T = Nat
<1> SUFFICES ASSUME Nat \ T # {} PROVE FALSE
  OBVIOUS
<1>1. IsWellFoundedOn(NatLess, Nat)
  BY NatLessThanWellFounded DEF OpToRel, NatLess
<1> DEFINE R == Nat \ T
<1>2. PICK x \in R : \A y \in R : <<y, x>> \notin NatLess
  <2>1. R \subseteq Nat /\ R # {}
    OBVIOUS
  <2> HIDE DEF R
  <2>2. \E x \in R : \A y \in R : ~ (<<y, x>> \in NatLess)
    BY <1>1, <2>1, WFMin
  <2> QED
    BY <2>2
<1>3. x \in Nat /\ x # 0
  OBVIOUS
<1>4. x - 1 \in Nat /\ (x - 1) + 1 = x /\ <<x - 1, x>> \in NatLess
  BY <1>3 DEF NatLess
<1> QED
  BY <1>2, <1>4

\* A proof by induction on the size of the subsets of a finite set S: Q has all of
\* them if it has the empty one and every s with an s \ {x} that it has.
LEMMA SubsetInduction ==
  ASSUME NEW S, IsFiniteSet(S), NEW Q \in SUBSET (SUBSET S), {} \in Q,
         \A s \in SUBSET S : s # {} /\ (\A x \in s : s \ {x} \in Q) => s \in Q
  PROVE  Q = SUBSET S
<1> DEFINE T == {k \in Nat : \A s \in SUBSET S : Cardinality(s) = k => s \in Q}
<1>1. \A s \in SUBSET S : IsFiniteSet(s) /\ Cardinality(s) \in Nat
  BY FS_Subset, FS_CardinalityType
<1>2. 0 \in T
  BY <1>1, FS_EmptySet
<1>3. ASSUME NEW k \in T PROVE k + 1 \in T
  <2> SUFFICES ASSUME NEW s \in SUBSET S, Cardinality(s) = k + 1 PROVE s \in Q
    OBVIOUS
  <2>1. s # {}
    BY <1>3, FS_EmptySet
  <2>2. ASSUME NEW x \in s PROVE s \ {x} \in Q
    <3>1. Cardinality(s \ {x}) = k
      BY <1>1, <1>3, FS_RemoveElement
    <3> QED
      BY <1>3, <3>1
  <2> QED
    BY <2>1, <2>2
<1>4. T = Nat
  <2>1. T \in SUBSET Nat
    OBVIOUS
  <2> HIDE DEF T
  <2> QED
    BY <1>2, <1>3, <2>1, NatSet
<1> QED
  BY <1>1, <1>4

\* h is a sum of f over the subsets of S, computed in the order of CHOOSE.
Sums(h, f, S) ==
  h = [s \in SUBSET S |->
         IF s = {} THEN 0
         ELSE LET x == CHOOSE x \in s : TRUE IN f[x] + h[s \ {x}]]

\* The recursion of a sum has a solution.
LEMMA SumsExist ==
  ASSUME NEW S, IsFiniteSet(S), NEW f \in [S -> Nat]
  PROVE  \E h : Sums(h, f, S)
<1> DEFINE body(h, s) == IF s = {} THEN 0
                         ELSE LET x == CHOOSE x \in s : TRUE IN f[x] + h[s \ {x}]
           upto(h, k) == \A s \in SUBSET S : Cardinality(s) <= k => h[s] = body(h, s)
           T == {k \in Nat : \E h \in [SUBSET S -> Nat] : upto(h, k)}
<1>1. \A s \in SUBSET S : IsFiniteSet(s) /\ Cardinality(s) \in Nat
  BY FS_Subset, FS_CardinalityType
<1>2. \A s \in SUBSET S : s # {} => (CHOOSE x \in s : TRUE) \in s
  OBVIOUS
<1>3. \A s \in SUBSET S : \A x \in s : Cardinality(s \ {x}) = Cardinality(s) - 1
                                       /\ Cardinality(s) # 0
  BY <1>1, FS_RemoveElement, FS_EmptySet
<1>4. 0 \in T
  <2>1. \A s \in SUBSET S : Cardinality(s) <= 0 => s = {}
    BY <1>1, FS_EmptySet
  <2>2. upto([s \in SUBSET S |-> 0], 0)
    BY <2>1
  <2> QED
    BY <2>2
<1>5. ASSUME NEW k \in T PROVE k + 1 \in T
  <2>1. PICK g \in [SUBSET S -> Nat] : upto(g, k)
    BY <1>5
  <2> DEFINE h == [s \in SUBSET S |-> IF Cardinality(s) <= k THEN g[s] ELSE body(g, s)]
  <2>2. ASSUME NEW s \in SUBSET S PROVE body(g, s) \in Nat
    <3>1. CASE s = {}
      BY <3>1
    <3>2. CASE s # {}
      <4> DEFINE x == CHOOSE x \in s : TRUE
      <4>1. x \in S /\ s \ {x} \in SUBSET S
        BY <1>2, <3>2
      <4>2. f[x] \in Nat /\ g[s \ {x}] \in Nat
        BY <4>1
      <4> QED
        BY <3>2, <4>2
    <3> QED
      BY <3>1, <3>2
  <2>3. h \in [SUBSET S -> Nat]
    BY <2>2
  <2>4. ASSUME NEW s \in SUBSET S, Cardinality(s) <= k + 1 PROVE h[s] = body(h, s)
    <3>1. CASE s = {}
      BY <1>1, <2>1, <3>1, FS_EmptySet
    <3>2. CASE s # {}
      <4> DEFINE x == CHOOSE x \in s : TRUE
      <4>1. x \in s /\ s \ {x} \in SUBSET S
        BY <1>2, <3>2
      <4>2. Cardinality(s \ {x}) <= k
        <5>1. Cardinality(s \ {x}) = Cardinality(s) - 1 /\ Cardinality(s) # 0
          BY <1>3, <4>1
        <5>2. Cardinality(s) \in Nat /\ k \in Nat
          BY <1>1, <1>5
        <5> HIDE DEF x
        <5> QED
          BY <2>4, <5>1, <5>2
      <4>3. h[s \ {x}] = g[s \ {x}]
        BY <4>1, <4>2
      <4>4. h[s] = body(g, s)
        BY <2>1
      <4> QED
        BY <3>2, <4>3, <4>4
    <3> QED
      BY <3>1, <3>2
  <2> HIDE DEF h
  <2>5. upto(h, k + 1)
    BY <2>4
  <2> HIDE DEF upto
  <2> QED
    BY <1>5, <2>3, <2>5
<1>6. T = Nat
  <2>1. T \in SUBSET Nat
    OBVIOUS
  <2> HIDE DEF T
  <2> QED
    BY <1>4, <1>5, <2>1, NatSet
<1>7. PICK h \in [SUBSET S -> Nat] : upto(h, Cardinality(S))
  BY <1>1, <1>6
<1>8. \A s \in SUBSET S : h[s] = body(h, s)
  BY <1>1, <1>7, FS_Subset
<1>9. h = [s \in SUBSET S |-> body(h, s)]
  BY <1>8
<1> QED
  BY <1>9 DEF Sums

\* A sum whose elements may be taken in any order.
AnyFirst(h, f, S) ==
  /\ h \in [SUBSET S -> Nat] /\ h[{}] = 0
  /\ \A s \in SUBSET S : \A x \in s : h[s] = f[x] + h[s \ {x}]

\* The order of CHOOSE does not matter.
LEMMA SumsTake ==
  ASSUME NEW S, IsFiniteSet(S), NEW f \in [S -> Nat], NEW h, Sums(h, f, S)
  PROVE  AnyFirst(h, f, S)
<1>1. /\ \A s \in SUBSET S : s # {} =>
           \E x \in s : x = (CHOOSE y \in s : TRUE) /\ h[s] = f[x] + h[s \ {x}]
      /\ h[{}] = 0 /\ h = [s \in SUBSET S |-> h[s]]
  BY DEF Sums
<1> DEFINE P == {s \in SUBSET S : h[s] \in Nat}
<1>2. P = SUBSET S
  <2>1. ASSUME NEW s \in SUBSET S, s # {}, \A x \in s : s \ {x} \in P PROVE s \in P
    <3>1. PICK x \in s : h[s] = f[x] + h[s \ {x}]
      BY <1>1, <2>1
    <3>2. h[s \ {x}] \in Nat /\ f[x] \in Nat
      BY <2>1
    <3> QED
      BY <3>1, <3>2
  <2>2. {} \in P /\ P \in SUBSET (SUBSET S)
    BY <1>1
  <2> HIDE DEF P
  <2> QED
    BY <2>1, <2>2, SubsetInduction
<1>3. h \in [SUBSET S -> Nat]
  BY <1>1, <1>2
<1> DEFINE Q == {s \in SUBSET S : \A x \in s : h[s] = f[x] + h[s \ {x}]}
<1>4. ASSUME NEW s \in SUBSET S, s # {}, \A x \in s : s \ {x} \in Q, NEW y \in s
      PROVE  h[s] = f[y] + h[s \ {y}]
  <2>1. PICK x \in s : h[s] = f[x] + h[s \ {x}]
    BY <1>1, <1>4
  <2>2. CASE x = y
    BY <2>1, <2>2
  <2>3. CASE x # y
    <3> DEFINE u == (s \ {x}) \ {y}
    <3>1. u = (s \ {y}) \ {x} /\ u \in SUBSET S
      OBVIOUS
    <3>2. h[s \ {x}] = f[y] + h[u]
      BY <1>4, <2>3
    <3>3. h[s \ {y}] = f[x] + h[u]
      BY <1>4, <2>3, <3>1
    <3>4. f[x] \in Nat /\ f[y] \in Nat /\ h[u] \in Nat
      BY <1>3, <3>1
    <3> HIDE DEF u
    <3> QED
      BY <2>1, <3>2, <3>3, <3>4
  <2> QED
    BY <2>2, <2>3
<1>5. Q = SUBSET S
  <2>1. \A s \in SUBSET S : s # {} /\ (\A x \in s : s \ {x} \in Q) => s \in Q
    BY <1>4
  <2>2. {} \in Q /\ Q \in SUBSET (SUBSET S)
    OBVIOUS
  <2> HIDE DEF Q
  <2> QED
    BY <2>1, <2>2, SubsetInduction
<1> QED
  BY <1>1, <1>3, <1>5 DEF AnyFirst

\* Sums of the same numbers are the same.
LEMMA SumsAgree ==
  ASSUME NEW S, IsFiniteSet(S), NEW f \in [S -> Nat], NEW h, Sums(h, f, S),
         NEW R, IsFiniteSet(R), NEW g \in [R -> Nat], NEW k, Sums(k, g, R),
         NEW D, D \subseteq S, D \subseteq R, \A x \in D : f[x] = g[x]
  PROVE  h[D] = k[D]
<1>1. AnyFirst(h, f, S)
  BY SumsTake
<1>2. AnyFirst(k, g, R)
  BY SumsTake
<1>3. /\ h[{}] = 0 /\ k[{}] = 0
      /\ \A s \in SUBSET D : \A x \in s : /\ h[s] = f[x] + h[s \ {x}]
                                           /\ k[s] = g[x] + k[s \ {x}]
  BY <1>1, <1>2 DEF AnyFirst
<1> DEFINE Q == {s \in SUBSET D : h[s] = k[s]}
<1>4. \A s \in SUBSET D : s # {} /\ (\A x \in s : s \ {x} \in Q) => s \in Q
  BY <1>3
<1>5. {} \in Q /\ Q \in SUBSET (SUBSET D) /\ IsFiniteSet(D)
  BY <1>3, FS_Subset
<1>6. Q = SUBSET D
  <2> HIDE DEF Q
  <2> QED
    BY <1>4, <1>5, SubsetInduction
<1> QED
  BY <1>6

\* The sum of shared-users of the accounts of rt with the names in C.
Total(rt, C) == MapThenSumSet(LAMBDA n : rt[n].shared, C)

\* Such a sum is a solution of its recursion.
LEMMA TotalIsSum ==
  ASSUME NEW rt, NEW C, IsFiniteSet(C), \A n \in C : rt[n].shared \in Nat
  PROVE  \E h : Sums(h, [n \in C |-> rt[n].shared], C) /\ Total(rt, C) = h[C]
<1> DEFINE f == [n \in C |-> rt[n].shared]
           rec(h) == h = [s \in SUBSET C |->
                  IF s = {} THEN 0
                  ELSE LET x == CHOOSE x \in s : TRUE IN rt[x].shared + h[s \ {x}]]
           h == CHOOSE h : rec(h)
<1>1. Total(rt, C) = h[C]
  BY DEF Total, MapThenSumSet, MapThenFoldSet
<1>2. f \in [C -> Nat]
  OBVIOUS
<1>3. ASSUME NEW g PROVE rec(g) <=> Sums(g, f, C)
  <2>1. \A s \in SUBSET C :
          (IF s = {} THEN 0
           ELSE LET x == CHOOSE x \in s : TRUE IN rt[x].shared + g[s \ {x}])
          = (IF s = {} THEN 0
             ELSE LET x == CHOOSE x \in s : TRUE IN f[x] + g[s \ {x}])
    <3> SUFFICES ASSUME NEW s \in SUBSET C, s # {}
                 PROVE  rt[CHOOSE x \in s : TRUE] .shared = f[CHOOSE x \in s : TRUE]
      OBVIOUS
    <3>1. (CHOOSE x \in s : TRUE) \in C
      OBVIOUS
    <3> QED
      BY <3>1
  <2> QED
    BY <2>1 DEF Sums
<1>4. \E g : rec(g)
  <2>1. PICK g : Sums(g, f, C)
    <3> HIDE DEF f
    <3> QED
      BY <1>2, SumsExist
  <2> HIDE DEF rec, f
  <2> QED
    BY <1>3, <2>1
<1>5. rec(h)
  <2> HIDE DEF rec
  <2> QED
    BY <1>4
<1> HIDE DEF h, rec
<1>6. Sums(h, f, C)
  BY <1>3, <1>5
<1> QED
  BY <1>1, <1>6

\* What one account changes of the total.
LEMMA TotalChange ==
  ASSUME NEW n, NEW rt, NEW C, IsFiniteSet(C), \A k \in C : rt[k].shared \in Nat,
         NEW rt2, NEW C2, IsFiniteSet(C2), \A k \in C2 : rt2[k].shared \in Nat,
         C2 \ {n} = C \ {n}, \A k \in C \ {n} : rt2[k].shared = rt[k].shared
  PROVE  /\ Total(rt, C) \in Nat /\ Total(rt2, C2) \in Nat
         /\ Total(rt2, C2) + (IF n \in C THEN rt[n].shared ELSE 0)
              = Total(rt, C) + (IF n \in C2 THEN rt2[n].shared ELSE 0)
<1> DEFINE f == [k \in C |-> rt[k].shared]
           g == [k \in C2 |-> rt2[k].shared]
           D == C \ {n}
<1>1. f \in [C -> Nat] /\ g \in [C2 -> Nat] /\ D \subseteq C /\ D \subseteq C2
      /\ D = C2 \ {n} /\ \A k \in D : f[k] = g[k]
  OBVIOUS
<1>2. PICK h : Sums(h, f, C) /\ Total(rt, C) = h[C]
  BY TotalIsSum
<1>3. PICK k : Sums(k, g, C2) /\ Total(rt2, C2) = k[C2]
  BY TotalIsSum
<1>4. n \in C => f[n] = rt[n].shared
  OBVIOUS
<1>5. n \in C2 => g[n] = rt2[n].shared
  OBVIOUS
<1> HIDE DEF f, g
<1>6. h[D] = k[D]
  BY <1>1, <1>2, <1>3, SumsAgree
<1>7. AnyFirst(h, f, C)
  BY <1>1, <1>2, SumsTake
<1>8. AnyFirst(k, g, C2)
  BY <1>1, <1>3, SumsTake
<1>9. /\ h \in [SUBSET C -> Nat] /\ k \in [SUBSET C2 -> Nat]
      /\ n \in C => h[C] = f[n] + h[D]
      /\ n \in C2 => k[C2] = g[n] + k[D]
  BY <1>1, <1>7, <1>8 DEF AnyFirst
<1>10. (n \notin C => D = C) /\ (n \notin C2 => D = C2)
  BY <1>1
<1>11. h[D] \in Nat /\ h[C] \in Nat /\ k[C2] \in Nat
  BY <1>1, <1>9
<1>12. (n \in C => f[n] \in Nat) /\ (n \in C2 => g[n] \in Nat)
  BY <1>1
<1> HIDE DEF D
<1> QED
  BY <1>2, <1>3, <1>4, <1>5, <1>6, <1>9, <1>10, <1>11, <1>12

\* A total over more accounts is no smaller.
LEMMA TotalGrows ==
  ASSUME NEW rt, NEW C, NEW rt2, NEW C2, IsFiniteSet(C2), C \subseteq C2,
         \A k \in C2 : rt2[k].shared \in Nat, \A k \in C : rt2[k].shared = rt[k].shared
  PROVE  /\ Total(rt, C) \in Nat /\ Total(rt2, C2) \in Nat
         /\ Total(rt, C) <= Total(rt2, C2)
<1> DEFINE f == [k \in C |-> rt[k].shared]
           g == [k \in C2 |-> rt2[k].shared]
<1>1. /\ f \in [C -> Nat] /\ g \in [C2 -> Nat] /\ \A k \in C : f[k] = g[k]
      /\ \A k \in C : rt[k].shared \in Nat
  OBVIOUS
<1>2. IsFiniteSet(C)
  BY FS_Subset
<1>3. PICK h : Sums(h, f, C) /\ Total(rt, C) = h[C]
  BY <1>1, <1>2, TotalIsSum
<1>4. PICK k : Sums(k, g, C2) /\ Total(rt2, C2) = k[C2]
  BY TotalIsSum
<1> HIDE DEF f, g
<1>5. h[C] = k[C]
  BY <1>1, <1>2, <1>3, <1>4, SumsAgree
<1>6. AnyFirst(k, g, C2)
  BY <1>1, <1>4, SumsTake
<1> DEFINE Q == {s \in SUBSET C2 : k[s \intersect C] <= k[s]}
<1>7. ASSUME NEW s \in SUBSET C2, s # {}, \A x \in s : s \ {x} \in Q PROVE s \in Q
  <2>1. PICK x \in s : TRUE
    BY <1>7
  <2> DEFINE v == s \ {x}
  <2>2. v \in SUBSET C2 /\ k[v \intersect C] <= k[v] /\ k[s] = g[x] + k[v]
    BY <1>6, <1>7 DEF AnyFirst
  <2>3. /\ g[x] \in Nat /\ k[v] \in Nat /\ k[v \intersect C] \in Nat
        /\ k[s \intersect C] \in Nat
    BY <1>1, <1>6, <2>2 DEF AnyFirst
  <2>4. ASSUME x \in C PROVE k[s \intersect C] <= k[s]
    <3>1. k[s \intersect C] = g[x] + k[(s \intersect C) \ {x}]
      BY <1>6, <2>4 DEF AnyFirst
    <3>2. (s \intersect C) \ {x} = v \intersect C
      OBVIOUS
    <3>3. k[s \intersect C] = g[x] + k[v \intersect C]
      BY <3>1, <3>2
    <3> HIDE DEF v
    <3> QED
      BY <2>2, <2>3, <3>3
  <2>5. ASSUME x \notin C PROVE k[s \intersect C] <= k[s]
    <3>1. s \intersect C = v \intersect C
      BY <2>5
    <3>2. k[s \intersect C] = k[v \intersect C]
      BY <3>1
    <3> HIDE DEF v
    <3> QED
      BY <2>2, <2>3, <3>2
  <2>6. k[s \intersect C] <= k[s]
    BY <2>4, <2>5
  <2> QED
    BY <2>6
<1>8. {} \in Q /\ Q \in SUBSET (SUBSET C2)
  <2>1. {} \intersect C = {} /\ k[{}] = 0
    BY <1>6 DEF AnyFirst
  <2> QED
    BY <2>1
<1>9. Q = SUBSET C2
  <2> HIDE DEF Q
  <2> QED
    BY <1>7, <1>8, SubsetInduction
<1>10. k[C2 \intersect C] <= k[C2]
  BY <1>9
<1>11. C2 \intersect C = C /\ k[C] \in Nat /\ k[C2] \in Nat
  BY <1>6 DEF AnyFirst
<1> QED
  BY <1>3, <1>4, <1>5, <1>10, <1>11

----------------------------------------------------------------------------
(* The quota, for a call that nobody disturbs.                             *)

\* The create that has passed the quota check still fits, and its account has no
\* profile yet.
CreatePaid(r) ==
  /\ r \notin disturbed /\ req[r].op = "create"
  /\ pc[r] \in {"addUser", "certs", "insertRow", "addProfile"}
  => /\ \A m \in Managers : req[r].mgr = m /\ req[r].assign =>
          Used(m) + req[r].shared <= Quota[m]
     /\ pc[r] = "addProfile" => req[r].assign
     /\ pc[r] # "addUser" /\ Present(req[r].name) =>
          /\ router[req[r].name].shared = req[r].shared
          /\ router[req[r].name].profile = "none"

\* The patch that has passed the quota check still fits.
RaisePaid(r) ==
  r \notin disturbed /\ pc[r] \in {"patchCheck", "setUser"} /\ Present(req[r].name) =>
    /\ mem[r].shared = router[req[r].name].shared
    /\ \A m \in Managers :
         /\ pc[r] = "setUser" /\ req[r].shared # 0 /\ "patchCheck" \notin failedAt[r]
         /\ mem[r].owner = m /\ router[req[r].name].profile = "active"
         => Used(m) + req[r].shared <= Quota[m] + mem[r].shared

QuotaInv == PatchInv /\ \A r \in Calls : CreatePaid(r) /\ RaisePaid(r)

\* What account n adds to the sum of manager m.
Share(n, m) == IF n \in Counted(router, m) THEN router[n].shared ELSE 0

\* What quota.UsedForManager computes.
LEMMA UsedIsTotal ==
  ASSUME NEW list, NEW m
  PROVE  UsedIn(list, m) = Total(list, Counted(list, m))
  BY DEF UsedIn, Total, MapThenSumSet, MapThenFoldSet

LEMMA CountedType ==
  ASSUME NEW list \in Routers, NEW m
  PROVE  /\ Counted(list, m) \subseteq Names /\ IsFiniteSet(Counted(list, m))
         /\ \A k \in Counted(list, m) : list[k].shared \in Nat
<1>1. Counted(list, m) \subseteq Names /\ IsFiniteSet(Counted(list, m))
  BY ConstantsAssumption, FS_Subset DEF Counted
<1>2. \A k \in Counted(list, m) : list[k].shared \in Nat
  BY ConstantsAssumption DEF Counted, Routers, Account
<1> QED
  BY <1>1, <1>2

LEMMA UsedType ==
  ASSUME NEW list \in Routers, NEW m
  PROVE  UsedIn(list, m) \in Nat
  BY CountedType, UsedIsTotal, TotalGrows

\* The lists that a quota check has put together give no less than what is used,
\* unless they lack a change.
LEMMA ListedCovers ==
  ASSUME TypeInv, ListsFresh, ~untold, NEW u \in UsersRead, NEW p \in AllProfilesRead,
         NEW m
  PROVE  /\ UsedIn(Listed(u, p), m) \in Nat /\ Used(m) \in Nat
         /\ Used(m) <= UsedIn(Listed(u, p), m)
         /\ \A n \in Names :
              Present(n) /\ router[n].profile = "active" => p[n] = "active"
<1> DEFINE L == Listed(u, p)
<1>1. /\ router \in Routers /\ u = UsersNow
      /\ p \in [Names -> Profiles] /\ \A n \in Names : p[n] \in ProfilesRead(n)
  BY DEF TypeInv, TypeOK, ListsFresh, UsersRead, AllProfilesRead
<1>2. ASSUME NEW n \in Names, Present(n)
      PROVE  /\ L[n] \in Account /\ L[n].shared = router[n].shared
             /\ L[n].comment = router[n].comment /\ L[n].disabled = router[n].disabled
             /\ L[n].profile = p[n]
  <2> DEFINE a == [router[n] EXCEPT !.profile = "none"]
  <2>1. router[n] \in Account /\ p[n] \in Profiles
    BY <1>1, <1>2, OwnerOfType
  <2>2. /\ a \in Account /\ a.shared = router[n].shared
        /\ a.comment = router[n].comment /\ a.disabled = router[n].disabled
    BY <2>1 DEF Account, Profiles
  <2>3. u[n] = a
    BY <1>1, <1>2 DEF UsersNow
  <2> HIDE DEF a
  <2>4. L[n] = [a EXCEPT !.profile = p[n]]
    BY <2>2, <2>3, ConstantsAssumption DEF Listed
  <2> HIDE DEF L
  <2> QED
    BY <2>1, <2>2, <2>4 DEF Account
<1>3. ASSUME NEW n \in Names, ~Present(n) PROVE L[n] = NoAccount
  BY <1>1, <1>3 DEF Listed, UsersNow
<1>4. L \in [Names -> Account \union {NoAccount}]
  <2>1. L = [n \in Names |-> L[n]]
    BY DEF Listed
  <2> HIDE DEF L
  <2> QED
    BY <1>2, <1>3, <2>1
<1>5. ASSUME NEW n \in Names, Present(n), router[n].profile = "active"
      PROVE  p[n] = "active"
  <2>1. ProfilesNow(n) = "active"
    BY <1>5 DEF ProfilesNow
  <2>2. ProfileFresh(n)
    BY DEF ListsFresh
  <2> QED
    BY <1>1, <2>1, <2>2 DEF ProfileFresh, ProfilesRead
<1> HIDE DEF L
<1>6. Counted(router, m) \subseteq Counted(L, m)
  <2> SUFFICES ASSUME NEW n \in Counted(router, m) PROVE n \in Counted(L, m)
    OBVIOUS
  <2>1. /\ n \in Names /\ Present(n) /\ Resolve(n, router[n].comment) = m
        /\ ~router[n].disabled /\ router[n].profile = "active"
    BY DEF Counted, Present
  <2>2. L[n] # NoAccount /\ L[n].profile = "active"
    BY <1>2, <1>5, <2>1, ConstantsAssumption
  <2> QED
    BY <1>2, <2>1, <2>2 DEF Counted
<1>7. /\ IsFiniteSet(Counted(L, m)) /\ \A k \in Counted(L, m) : L[k].shared \in Nat
      /\ \A k \in Counted(router, m) : L[k].shared = router[k].shared
  <2>1. L \in Routers
    BY <1>4 DEF Routers
  <2>2. \A k \in Counted(router, m) : k \in Names /\ Present(k)
    BY DEF Counted, Present
  <2> QED
    BY <1>2, <2>1, <2>2, CountedType
<1> QED
  BY <1>5, <1>6, <1>7, UsedIsTotal, TotalGrows DEF Used, L

\* If one account changes, the sum of a manager changes by its share.
LEMMA UsedMoves ==
  ASSUME router \in Routers, router' \in Routers, NEW n \in Names, NEW m,
         \A k \in Names \ {n} : router'[k] = router[k]
  PROVE  /\ Used(m) \in Nat /\ Used(m)' \in Nat
         /\ Share(n, m) \in Nat /\ Share(n, m)' \in Nat
         /\ Used(m)' + Share(n, m) = Used(m) + Share(n, m)'
<1> DEFINE C == Counted(router, m)
           D == Counted(router', m)
<1>1. /\ C \subseteq Names /\ IsFiniteSet(C) /\ \A k \in C : router[k].shared \in Nat
      /\ D \subseteq Names /\ IsFiniteSet(D) /\ \A k \in D : router'[k].shared \in Nat
  BY CountedType
<1>2. D \ {n} = C \ {n}
  BY DEF Counted
<1>3. \A k \in C \ {n} : router'[k].shared = router[k].shared
  BY <1>1
<1>4. /\ Share(n, m) = IF n \in C THEN router[n].shared ELSE 0
      /\ Share(n, m)' = IF n \in D THEN router'[n].shared ELSE 0
  BY DEF Share
<1>5. Used(m) = Total(router, C) /\ Used(m)' = Total(router', D)
  BY UsedIsTotal DEF Used
<1> HIDE DEF C, D
<1>6. /\ Total(router, C) \in Nat /\ Total(router', D) \in Nat
      /\ Total(router', D) + (IF n \in C THEN router[n].shared ELSE 0)
           = Total(router, C) + (IF n \in D THEN router'[n].shared ELSE 0)
  BY <1>1, <1>2, <1>3, TotalChange
<1>7. Share(n, m) \in Nat /\ Share(n, m)' \in Nat
  BY <1>1, <1>4
<1> QED
  BY <1>4, <1>5, <1>6, <1>7

\* A sum is kept with the router.
LEMMA UsedKept ==
  ASSUME router' = router, NEW m
  PROVE  Used(m)' = Used(m)
  BY DEF Used

\* A call changes no account but the one that it names.
LEMMA OthersOnRouter ==
  ASSUME TypeInv, NEW r \in Calls, Serve(r)
  PROVE  \A k \in Names \ {req[r].name} : router'[k] = router[k]
<1>1. router \in Routers
  BY DEF TypeInv, TypeOK, Routers
<1>2. CASE AddUser(r)
  BY <1>1, <1>2 DEF AddUser, FailedWrite, Routers, Writes, NoWrite
<1>3. CASE AddProfile(r)
  BY <1>1, <1>3 DEF AddProfile, FailedWrite, Routers, Writes, NoWrite
<1>4. CASE UndoUser(r)
  BY <1>1, <1>4 DEF UndoUser, FailedWrite, Routers, Writes, NoWrite
<1>5. CASE RemoveUser(r)
  BY <1>1, <1>5 DEF RemoveUser, FailedWrite, Routers, Writes, NoWrite
<1>6. CASE SetUser(r)
  BY <1>1, <1>6 DEF SetUser, FailedWrite, Routers, Writes, NoWrite
<1>7. CASE RemoveProfile(r)
  BY <1>1, <1>7 DEF RemoveProfile, FailedWrite, Routers, Writes, NoWrite
<1>8. CASE UNCHANGED router
  BY <1>8
<1> QED
  BY <1>2, <1>3, <1>4, <1>5, <1>6, <1>7, <1>8
     DEF Serve, tables, CheckQuota, SetupCerts, InsertRow, Record, UndoRow,
         FindRow, AdoptRead, AdoptInsert, AdoptFind, PatchRead, PatchCheck,
         UpdateRead, UpdateWrite, AssignRead, CheckUser, DeleteRow, Detail, Reads,
         NoWrite

\* A profile that expires takes away from a sum.
LEMMA ExpireLowers ==
  ASSUME TypeInv, NEW n \in Names, Expire(n)
  PROVE  /\ \A m : Used(m)' <= Used(m)
         /\ \A k \in Names :
              Present(k)' => /\ Present(k) /\ OwnerOf(k)' = OwnerOf(k)
                             /\ router'[k].shared = router[k].shared
                             /\ \/ router'[k].profile = router[k].profile
                                \/ router[k].profile = "active" /\ router'[k].profile = "idle"
<1>1. router \in Routers /\ router[n] \in Account /\ Present(n)
  BY ExpireKeeps DEF TypeInv, TypeOK
<1>3. router' \in Routers
  BY ExpireKeeps
<1>4. \A k \in Names \ {n} : router'[k] = router[k]
  BY ExpireKeeps
<1>5. /\ router'[n].shared = router[n].shared /\ router'[n].profile = "idle"
      /\ router'[n].comment = router[n].comment
  BY <1>1, ExpireKeeps DEF Account
<1>6. ASSUME NEW m PROVE Used(m)' <= Used(m)
  <2>1. Share(n, m)' = 0
    BY <1>5 DEF Share, Counted
  <2>2. /\ Used(m) \in Nat /\ Used(m)' \in Nat /\ Share(n, m) \in Nat
        /\ Used(m)' + Share(n, m) = Used(m) + Share(n, m)'
    BY <1>1, <1>3, <1>4, UsedMoves
  <2> QED
    BY <2>1, <2>2
<1>7. ASSUME NEW k \in Names, Present(k)'
      PROVE  /\ Present(k) /\ OwnerOf(k)' = OwnerOf(k)
             /\ router'[k].shared = router[k].shared
             /\ \/ router'[k].profile = router[k].profile
                \/ router[k].profile = "active" /\ router'[k].profile = "idle"
  <2>1. CASE k = n
    BY <1>1, <1>5, <2>1 DEF OwnerOf, Expire
  <2>2. CASE k # n
    BY <1>4, <1>7, <2>2 DEF OwnerOf, Present
  <2> QED
    BY <2>1, <2>2
<1> QED
  BY <1>6, <1>7

LEMMA QuotaFacts ==
  ASSUME QuotaInv
  PROVE  /\ PatchInv /\ HeldInv /\ TypeInv /\ TypeOK /\ Flow /\ router \in Routers
         /\ mem \in Locals /\ pc \in [Calls -> Steps] /\ ListsFresh
         /\ \A r \in Calls : OwnerOfPatch(r) /\ CreatePaid(r) /\ RaisePaid(r)
  BY DEF QuotaInv, PatchInv, HeldInv, OwnInv, TypeInv, TypeOK, Flow, Locals

\* A handler keeps what its quota check has found.
LEMMA CreatePaidStep ==
  ASSUME QuotaInv, NEW r \in Calls, Serve(r)
  PROVE  CreatePaid(r)'
<1> DEFINE q == req[r]
<1> SUFFICES ASSUME pc'[r] \in {"addUser", "certs", "insertRow", "addProfile"},
                    req'[r].op = "create", r \notin disturbed'
             PROVE  CreatePaid(r)'
  BY DEF CreatePaid
<1>1. /\ TypeInv /\ TypeOK /\ Flow /\ router \in Routers /\ pc \in [Calls -> Steps]
      /\ CreatePaid(r) /\ Control /\ Control' /\ r \notin disturbed /\ ListsFresh
  BY QuotaFacts, FlowStep, Undisturbed DEF TypeInv, Flow
<1>2. /\ req' = req /\ q.op = "create" /\ q.name \in Names /\ q.mgr \in Owners
      /\ q.shared # 0 /\ q \in Input
  BY <1>1, Progress, RequestType DEF Admissible
<1> PICK n \in Names : n = q.name
  BY <1>2
<1>3. \/ CheckQuota(r) /\ pc'[r] = "addUser"
      \/ AddUser(r) /\ pc'[r] = "certs"
      \/ SetupCerts(r) /\ pc'[r] = "insertRow"
      \/ InsertRow(r) /\ pc'[r] = "addProfile"
  <2>1. pc[r] \notin RowSteps
    BY <1>1, <1>2 DEF Control
  <2>2. CASE CheckQuota(r) \/ AddUser(r) \/ SetupCerts(r) \/ InsertRow(r)
    <3>1. CASE CheckQuota(r)
      BY <1>1, <3>1 DEF CheckQuota, Go, Answer
    <3>2. CASE AddUser(r)
      BY <1>1, <3>2 DEF AddUser, Go, Answer, OnNameTaken
    <3>3. CASE SetupCerts(r)
      BY <1>1, <3>3 DEF SetupCerts, Go, Answer
    <3>4. CASE InsertRow(r)
      BY <1>1, <3>4 DEF InsertRow, Go, Answer, OnInsertRefused
    <3> QED
      BY <2>2, <3>1, <3>2, <3>3, <3>4
  <2>3. CASE AddProfile(r) \/ Record(r) \/ UndoUser(r) \/ UndoRow(r)
    <3>1. CASE AddProfile(r)
      BY <1>1, <3>1 DEF AddProfile, Go, Answer, OnProfileRefused
    <3>2. CASE Record(r)
      BY <1>1, <3>2 DEF Record, Go, Answer
    <3>3. CASE UndoUser(r) \/ UndoRow(r)
      BY <1>1, <3>3 DEF UndoUser, UndoRow, Go, Answer
    <3> QED
      BY <2>3, <3>1, <3>2, <3>3
  <2>4. CASE \/ FindRow(r) \/ AdoptRead(r) \/ AdoptInsert(r) \/ AdoptFind(r)
            \/ PatchRead(r) \/ PatchCheck(r) \/ SetUser(r)
    BY <2>1, <2>4 DEF RowSteps, FindRow, AdoptRead, AdoptInsert, AdoptFind, PatchRead,
       PatchCheck, SetUser
  <2>5. CASE \/ UpdateRead(r) \/ UpdateWrite(r) \/ AssignRead(r) \/ RemoveProfile(r)
            \/ CheckUser(r) \/ RemoveUser(r) \/ DeleteRow(r) \/ Detail(r)
    BY <2>1, <2>5 DEF RowSteps, UpdateRead, UpdateWrite, AssignRead, RemoveProfile,
       CheckUser, RemoveUser, DeleteRow, Detail
  <2> QED
    BY <2>2, <2>3, <2>4, <2>5 DEF Serve
<1>4. CASE CheckQuota(r) /\ pc'[r] = "addUser"
  <2>1. PICK u \in UsersRead, p \in AllProfilesRead :
          q.assign => CheckAdd(UsedIn(Listed(u, p), q.mgr), Quota[q.mgr], q.shared)
    BY <1>1, <1>4 DEF CheckQuota, Answer
  <2>2. router' = router /\ ~untold
    BY <1>4, Undisturbed DEF CheckQuota, Reads, tables
  <2>3. ASSUME NEW m \in Managers, q.mgr = m, q.assign
        PROVE  Used(m) + q.shared <= Quota[m]
    <3>1. UsedIn(Listed(u, p), m) + q.shared <= Quota[m]
      BY <2>1, <2>3 DEF CheckAdd
    <3>2. /\ UsedIn(Listed(u, p), m) \in Nat /\ Used(m) \in Nat
          /\ Used(m) <= UsedIn(Listed(u, p), m)
      BY <1>1, <2>2, ListedCovers
    <3>3. q.shared \in Nat /\ Quota[m] \in Nat
      BY <1>2, ConstantsAssumption DEF Input
    <3> QED
      BY <3>1, <3>2, <3>3
  <2> QED
    BY <1>2, <1>4, <2>2, <2>3, UsedKept DEF CreatePaid
<1>5. CASE AddUser(r) /\ pc'[r] = "certs"
  <2>1. ~Present(n) /\ router' = [router EXCEPT ![n] = NewAccount(r)]
        /\ pc[r] = "addUser"
    BY <1>1, <1>5 DEF AddUser, Go, Answer, OnNameTaken, Writes, NoWrite
  <2>2. router'[n] = NewAccount(r)
    BY <1>1, <1>2, <2>1 DEF Routers
  <2>3. router'[n].shared = q.shared /\ router'[n].profile = "none"
    BY <2>2 DEF NewAccount
  <2>4. router' \in Routers
    BY <1>1, RouterStep
  <2>5. ASSUME NEW m PROVE Used(m)' = Used(m)
    <3>1. Share(n, m) = 0 /\ Share(n, m)' = 0
      BY <2>1, <2>3 DEF Share, Counted, Present
    <3>2. \A k \in Names \ {n} : router'[k] = router[k]
      BY <1>1, OthersOnRouter
    <3>3. /\ Used(m) \in Nat /\ Used(m)' \in Nat
          /\ Used(m)' + Share(n, m) = Used(m) + Share(n, m)'
      BY <1>1, <1>2, <2>4, <3>2, UsedMoves
    <3> QED
      BY <3>1, <3>3
  <2> QED
    BY <1>1, <1>2, <1>5, <2>1, <2>3, <2>5 DEF CreatePaid
<1>6. CASE (SetupCerts(r) /\ pc'[r] = "insertRow") \/ (InsertRow(r) /\ pc'[r] = "addProfile")
  <2>1. router' = router /\ pc[r] \in {"certs", "insertRow"}
    BY <1>6 DEF SetupCerts, InsertRow, tables, NoWrite
  <2>2. pc'[r] = "addProfile" => q.assign
    BY <1>1, <1>6 DEF InsertRow, OnInsertRefused, Go, Answer, NoWrite
  <2> QED
    BY <1>1, <1>2, <2>1, <2>2, UsedKept DEF CreatePaid, Present
<1> QED
  BY <1>3, <1>4, <1>5, <1>6

\* The same for a patch.
LEMMA RaisePaidStep ==
  ASSUME QuotaInv, NEW r \in Calls, Serve(r)
  PROVE  RaisePaid(r)'
<1> DEFINE q == req[r]
           n == q.name
<1> SUFFICES ASSUME pc'[r] \in {"patchCheck", "setUser"}, Present(req[r].name)',
                    r \notin disturbed'
             PROVE  RaisePaid(r)'
  <2>1. req' = req
    BY QuotaFacts, Progress
  <2> QED
    BY <2>1 DEF RaisePaid, Present
<1>1. /\ TypeInv /\ TypeOK /\ Flow /\ router \in Routers /\ pc \in [Calls -> Steps]
      /\ RaisePaid(r) /\ mem \in Locals /\ mem[r] \in Local /\ PatchInv
      /\ r \notin disturbed /\ ListsFresh
  BY QuotaFacts, Undisturbed DEF Locals
<1>2. /\ req' = req /\ n \in Names
      /\ \/ FindRow(r) \/ AdoptInsert(r) \/ AdoptFind(r) \/ PatchRead(r)
         \/ PatchCheck(r) \/ SetUser(r) \/ UpdateRead(r)
  BY <1>1, PatchMoves DEF PatchSteps
<1>3. ~(FindRow(r) \/ AdoptInsert(r) \/ AdoptFind(r) \/ SetUser(r) \/ UpdateRead(r))
  BY <1>1, <1>2, PatchMoves
     DEF FindRow, AdoptInsert, AdoptFind, Go, Answer, StepWithRow, PatchSteps,
         SetUser,
         UpdateRead, NoWrite, Writes
<1>4. CASE PatchRead(r)
  <2>1. PICK a \in GetUser(n) \ {NoAccount} :
          mem' = [mem EXCEPT ![r].owner = Resolve(n, a.comment), ![r].shared = a.shared]
    BY <1>1, <1>4 DEF PatchRead, Answer
  <2>2. ~untold /\ pc'[r] = "patchCheck" /\ router' = router
    BY <1>1, <1>4, Undisturbed DEF PatchRead, Go, Answer, tables, Reads
  <2>3. a.shared = router[n].shared
    BY <1>1, <1>2, <2>2, FreshUser
  <2> DEFINE o == Resolve(n, a.comment)
             s == a.shared
  <2>4. mem' = [mem EXCEPT ![r].owner = o, ![r].shared = s]
    BY <2>1
  <2> HIDE DEF o, s
  <2>5. mem'[r].shared = s
    BY <1>1, <2>4 DEF Locals, Local
  <2> QED
    BY <1>2, <2>2, <2>3, <2>5 DEF RaisePaid, s
<1>5. CASE PatchCheck(r)
  <2>1. /\ mem' = mem /\ router' = router /\ pc[r] = "patchCheck"
        /\ pc'[r] = "setUser" /\ req' = req
    BY <1>1, <1>5 DEF PatchCheck, Go, Answer, tables, Kept, Reads
  <2>2. \/ "patchCheck" \in failedAt'[r]
        \/ \E u \in UsersRead, p \in AllProfilesRead : ~RaiseRefused(r, u, p)
    BY <1>1, <1>5, <2>1 DEF PatchCheck, Answer, Fails, Flow
  <2>5. ~untold
    BY <1>5, Undisturbed DEF PatchCheck
  <2>3. mem[r].shared = router[n].shared
    BY <1>1, <2>1 DEF RaisePaid, Present
  <2>4. ASSUME NEW m \in Managers, q.shared # 0, "patchCheck" \notin failedAt'[r],
               mem[r].owner = m, router[n].profile = "active"
        PROVE  Used(m) + q.shared <= Quota[m] + mem[r].shared
    <3>1. PICK u \in UsersRead, p \in AllProfilesRead : ~RaiseRefused(r, u, p)
      BY <2>2, <2>4
    <3>2. Present(n)
      BY <2>1 DEF Present
    <3>3. /\ UsedIn(Listed(u, p), m) \in Nat /\ Used(m) \in Nat
          /\ Used(m) <= UsedIn(Listed(u, p), m) /\ p[n] = "active"
      BY <1>1, <1>2, <2>4, <2>5, <3>2, ListedCovers
    <3>4. UsedIn(Listed(u, p), m) + q.shared <= Quota[m] + mem[r].shared
      BY <2>4, <3>1, <3>3, ConstantsAssumption DEF RaiseRefused, CheckIncrease
    <3>5. q.shared \in Nat /\ Quota[m] \in Nat /\ mem[r].shared \in Nat
      BY <1>1, <2>1, RequestType, ConstantsAssumption DEF Input, Local
    <3> QED
      BY <3>3, <3>4, <3>5
  <2> QED
    BY <2>1, <2>3, <2>4, UsedKept DEF RaisePaid
<1> QED
  BY <1>2, <1>3, <1>4, <1>5

LEMMA QuotaInvInit == Init => QuotaInv
  BY PatchInit DEF Init, QuotaInv, CreatePaid, RaisePaid

\* What keeps it: no sum grows, and the account stays but for a profile that expires.
LEMMA PaidKept ==
  ASSUME QuotaInv, router' \in Routers, NEW k \in Calls, pc'[k] = pc[k],
         req'[k] = req[k], mem'[k] = mem[k], failedAt'[k] = failedAt[k],
         k \notin disturbed, pc[k] # "idle", NEW j \in Names, j = req[k].name,
         \A m \in Managers : Used(m)' <= Used(m),
         Present(j)' => /\ Present(j) /\ router'[j].shared = router[j].shared
                        /\ \/ router'[j].profile = router[j].profile
                           \/ router'[j].profile = "idle" /\ router[j].profile = "active"
  PROVE  CreatePaid(k)' /\ RaisePaid(k)'
<1>1. CreatePaid(k) /\ RaisePaid(k) /\ TypeOK /\ router \in Routers
  BY QuotaFacts
<1>2. \A m \in Managers : Used(m) \in Nat /\ Used(m)' \in Nat /\ Quota[m] \in Nat
  BY <1>1, UsedType, ConstantsAssumption DEF Used
<1>3. req[k].shared \in Nat /\ mem[k].shared \in Nat
  BY <1>1, RequestType, ConstantsAssumption DEF Input, TypeOK, Local, Owners
<1>4. CreatePaid(k)'
  <2> SUFFICES ASSUME pc[k] \in {"addUser", "certs", "insertRow", "addProfile"},
                      req[k].op = "create"
               PROVE  CreatePaid(k)'
    BY DEF CreatePaid
  <2>1. pc[k] # "addUser" /\ Present(j)' =>
          router'[j].shared = req[k].shared /\ router'[j].profile = "none"
    BY <1>1 DEF CreatePaid
  <2>2. ASSUME NEW m \in Managers, req[k].mgr = m, req[k].assign
        PROVE  Used(m)' + req[k].shared <= Quota[m]
    <3>1. Used(m) + req[k].shared <= Quota[m]
      BY <1>1, <2>2 DEF CreatePaid
    <3> QED
      BY <1>2, <1>3, <3>1
  <2> QED
    BY <1>1, <2>1, <2>2 DEF CreatePaid, Present
<1>5. RaisePaid(k)'
  <2> SUFFICES ASSUME pc[k] \in {"patchCheck", "setUser"}, Present(j)'
               PROVE  RaisePaid(k)'
    BY DEF RaisePaid, Present
  <2>1. mem[k].shared = router'[j].shared
    BY <1>1 DEF RaisePaid
  <2>2. ASSUME NEW m \in Managers, pc[k] = "setUser", req[k].shared # 0,
               "patchCheck" \notin failedAt[k], mem[k].owner = m,
               router'[j].profile = "active"
        PROVE  Used(m)' + req[k].shared <= Quota[m] + mem[k].shared
    <3>1. Used(m) + req[k].shared <= Quota[m] + mem[k].shared
      BY <1>1, <2>2 DEF RaisePaid
    <3> QED
      BY <1>2, <1>3, <3>1
  <2> QED
    BY <2>1, <2>2 DEF RaisePaid
<1> QED
  BY <1>4, <1>5

\* Whatever happens beside a call, if it is not disturbed there is room for it.
LEMMA QuotaInvStep ==
  ASSUME QuotaInv, [Next]_vars
  PROVE  QuotaInv'
<1>1. /\ PatchInv /\ PatchInv' /\ TypeInv /\ TypeOK /\ Flow /\ router \in Routers
      /\ router' \in Routers /\ pc \in [Calls -> Steps] /\ mem \in Locals
  BY QuotaFacts, PatchStep, TypeStep DEF TypeInv, TypeOK
<1> DEFINE Paid(k) == CreatePaid(k) /\ RaisePaid(k)
           PaidSteps == {"addUser", "certs", "insertRow", "addProfile",
                         "patchCheck", "setUser"}
<1>2. \A k \in Calls : k \in disturbed' \/ pc'[k] \notin PaidSteps => Paid(k)'
  BY DEF CreatePaid, RaisePaid
<1>3. \A k \in Calls : pc[k] \in PaidSteps =>
        req[k].name \in Names /\ pc[k] \notin {"idle", "done"}
  BY <1>1, RequestType
<1>4. \A m \in Managers : Used(m) \in Nat /\ Used(m)' \in Nat
  BY <1>1, UsedType DEF Used
<1>5. ASSUME NEW k \in Calls, UNCHANGED router, pc'[k] \in PaidSteps => pc'[k] = pc[k],
             req'[k] = req[k], mem'[k] = mem[k], failedAt'[k] = failedAt[k],
             k \notin disturbed
      PROVE  Paid(k)'
  <2>1. CASE pc'[k] \notin PaidSteps
    BY <1>2, <2>1
  <2>2. CASE pc'[k] \in PaidSteps
    <3>1. \A m \in Managers : Used(m)' <= Used(m)
      BY <1>4, <1>5, UsedKept
    <3> QED
      BY <1>1, <1>3, <1>5, <2>2, <3>1, PaidKept DEF Present
  <2> QED
    BY <2>1, <2>2
<1>6. ASSUME NEW r \in Calls, Serve(r), NEW k \in Calls PROVE Paid(k)'
  <2>1. CASE k = r
    BY <1>6, <2>1, CreatePaidStep, RaisePaidStep
  <2>2. CASE k # r /\ k \notin disturbed' /\ pc'[k] \in PaidSteps
    <3>1. /\ pc'[k] = pc[k] /\ req'[k] = req[k] /\ mem'[k] = mem[k]
          /\ failedAt'[k] = failedAt[k] /\ pc[k] \notin {"idle", "done"}
          /\ req[k].name \in Names
      BY <1>1, <1>3, <1>6, <2>2, Progress, OthersKept, FailuresStay
    <3>2. /\ k \notin disturbed /\ router'[req[k].name] = router[req[k].name]
          /\ \A m \in Managers : router' = router \/ ~(UsedIn(router', m) > Used(m))
      BY <1>6, <2>2, <3>1, Undisturbed
    <3>3. ASSUME NEW m \in Managers PROVE Used(m)' <= Used(m)
      <4>1. Used(m)' = UsedIn(router', m)
        BY DEF Used
      <4> QED
        BY <1>4, <3>2, <4>1, UsedKept
    <3> QED
      BY <1>1, <3>1, <3>2, <3>3, PaidKept DEF Present
  <2> QED
    BY <1>2, <2>1, <2>2
<1>7. ASSUME NEW r \in Calls, Start(r), NEW k \in Calls PROVE Paid(k)'
  <2>1. UNCHANGED <<router, mem, failedAt, disturbed>>
    BY <1>7 DEF Start, tables
  <2>2. CASE k # r /\ k \notin disturbed
    <3>1. pc'[k] = pc[k] /\ req'[k] = req[k]
      BY <1>1, <1>7, <2>2 DEF Start, TypeOK
    <3> QED
      BY <1>5, <2>1, <2>2, <3>1
  <2>3. CASE k = r
    <3>1. PICK q \in Inputs : /\ req' = [req EXCEPT ![r] = q]
                              /\ pc' = [pc EXCEPT ![r] = FirstStep(q)]
      BY <1>7 DEF Start
    <3>2. pc'[k] = FirstStep(q) /\ req'[k] = q
      BY <1>1, <2>3, <3>1 DEF TypeOK
    <3> QED
      BY <3>2, ConstantsAssumption DEF FirstStep, CreatePaid, RaisePaid
  <2> QED
    BY <1>2, <2>1, <2>2, <2>3
<1>8. ASSUME Fill \/ Crash \/ UNCHANGED vars, NEW k \in Calls PROVE Paid(k)'
  <2>1. /\ UNCHANGED <<router, mem, failedAt, req, disturbed>>
        /\ pc'[k] \in {pc[k], "done"}
    BY <1>1, <1>8 DEF Fill, Crash, vars, tables
  <2> QED
    BY <1>2, <1>5, <2>1
<1>9. ASSUME NEW n \in Names, Expire(n), NEW k \in Calls PROVE Paid(k)'
  <2>1. UNCHANGED <<pc, req, mem, failedAt, disturbed>>
    BY <1>9 DEF Expire
  <2>2. CASE k \notin disturbed /\ pc'[k] \in PaidSteps
    <3> PICK j \in Names : j = req[k].name
      BY <1>3, <2>1, <2>2
    <3>1. /\ \A m \in Managers : Used(m)' <= Used(m)
          /\ Present(j)' => /\ Present(j) /\ router'[j].shared = router[j].shared
                            /\ \/ router'[j].profile = router[j].profile
                               \/ router'[j].profile = "idle" /\ router[j].profile = "active"
      BY <1>1, <1>9, ExpireLowers
    <3> QED
      BY <1>1, <1>3, <2>1, <2>2, <3>1, PaidKept
  <2> QED
    BY <1>2, <2>1, <2>2
<1>10. ASSUME NEW n \in Names, WinboxEdit(n), NEW k \in Calls PROVE Paid(k)'
  <2>1. UNCHANGED <<pc, req, mem, failedAt>>
    BY <1>10 DEF WinboxEdit
  <2>2. CASE k \notin disturbed' /\ pc'[k] \in PaidSteps
    <3>1. /\ k \notin disturbed /\ router'[req[k].name] = router[req[k].name]
          /\ \A m \in Managers : ~(UsedIn(router', m) > Used(m))
      BY <1>3, <1>10, <2>1, <2>2 DEF WinboxEdit, Disturb, InFlight
    <3>2. ASSUME NEW m \in Managers PROVE Used(m)' <= Used(m)
      <4>1. Used(m)' = UsedIn(router', m)
        BY DEF Used
      <4> QED
        BY <1>4, <3>1, <4>1
    <3> QED
      BY <1>1, <1>3, <2>1, <2>2, <3>1, <3>2, PaidKept DEF Present
  <2> QED
    BY <1>2, <2>1, <2>2
<1>11. ASSUME NEW k \in Calls PROVE Paid(k)'
  BY <1>6, <1>7, <1>8, <1>9, <1>10, <1>11 DEF Next, AllAnswered
<1> QED
  BY <1>1, <1>11 DEF QuotaInv

LEMMA QuotaInvAlways == Spec => []QuotaInv
<1>1. QuotaInv /\ [Next]_vars => QuotaInv'
  BY QuotaInvStep
<1> QED
  BY <1>1, QuotaInvInit, PTL DEF Spec

\* Only call r leaves a step of its own, unless the panel dies.
LEMMA LeavesStep ==
  ASSUME TypeInv, [Next]_vars, NEW r \in Calls, pc'[r] # pc[r]
  PROVE  Serve(r) \/ Start(r) \/ Crash
<1>1. Flow
  BY DEF TypeInv, TypeOK, Flow
<1>2. ASSUME NEW k \in Calls, Serve(k) PROVE k = r
  BY <1>1, <1>2, Progress
<1>3. ASSUME NEW k \in Calls, Start(k) PROVE k = r
  BY <1>1, <1>3 DEF Start, Flow
<1>4. ~(UNCHANGED vars \/ Fill \/ \E n \in Names : Expire(n) \/ WinboxEdit(n))
  BY DEF vars, Fill, Expire, WinboxEdit
<1> QED
  BY <1>2, <1>3, <1>4 DEF Next, AllAnswered

\* The profile of a manager's create does not take the manager's active accounts above
\* the quota, however many calls there are: managerUsedQuota sums lists that may be
\* old, AddUserProfile comes three commands and statements after quota.CheckAdd, and
\* profiles may expire in between, commands fail and the panel die.  Excepted is the
\* create whose account another step has changed or during which one has raised a
\* sum, and the one whose lists lacked a change.
THEOREM CreatesWithinQuota == Spec => CreateWithinQuota
<1>1. ASSUME QuotaInv, [Next]_vars, NEW r \in Calls \ disturbed, Stepped(r, "addProfile"),
             req[r].op = "create", NEW m \in Managers, req[r].mgr = m
      PROVE  WithinQuota(m)
  <2>1. /\ TypeInv /\ TypeOK /\ router \in Routers /\ CreatePaid(r)
        /\ pc[r] = "addProfile" /\ pc'[r] # pc[r]
    BY <1>1, QuotaFacts DEF HeldInv, Stepped
  <2> PICK n \in Names : n = req[r].name
    BY <2>1, RequestType
  <2>2. Serve(r) \/ Crash
    BY <1>1, <2>1, LeavesStep DEF Start
  <2>3. CASE router' = router
    <3>1. Used(m)' = Used(m) /\ Used(m) \in Nat
      BY <2>1, <2>3, UsedKept, UsedMoves
    <3> QED
      BY <3>1 DEF WithinQuota
  <2>4. CASE /\ router' # router /\ Serve(r)
    <3>1. AddProfile(r)
      BY <2>1, <2>4
         DEF Serve, CheckQuota, AddUser, SetupCerts, InsertRow,
             Record, UndoUser, UndoRow, FindRow, AdoptRead, AdoptInsert,
             AdoptFind, PatchRead, PatchCheck, SetUser, UpdateRead, UpdateWrite,
             AssignRead, RemoveProfile, CheckUser, RemoveUser, DeleteRow, Detail,
             Reads, tables, Writes, NoWrite
    <3>2. Present(n) /\ router' = [router EXCEPT ![n].profile = "active"]
      BY <2>4, <3>1 DEF AddProfile, FailedWrite, Writes, NoWrite
    <3>3. /\ router' \in Routers /\ \A k \in Names \ {n} : router'[k] = router[k]
          /\ router[n] \in Account
      BY <2>1, <3>2, AccountWritten DEF Routers, Present
    <3>4. /\ router[n].shared = req[r].shared /\ router[n].profile = "none"
          /\ req[r].assign => Used(m) + req[r].shared <= Quota[m]
      BY <1>1, <2>1, <3>2 DEF CreatePaid
    <3>5. req[r].assign
      BY <1>1, <2>1 DEF CreatePaid
    <3>6. router'[n].shared = router[n].shared
      BY <2>1, <3>2, <3>3 DEF Routers, Account
    <3>7. /\ Used(m) \in Nat /\ Used(m)' \in Nat
          /\ Used(m)' + Share(n, m) = Used(m) + Share(n, m)'
      BY <2>1, <3>3, UsedMoves
    <3>8. Share(n, m) = 0 /\ Share(n, m)' \in {0, req[r].shared}
      BY <3>4, <3>6 DEF Share, Counted
    <3>9. req[r].shared \in Nat /\ Quota[m] \in Nat
      BY <2>1, RequestType, ConstantsAssumption DEF Input
    <3> QED
      BY <3>4, <3>5, <3>7, <3>8, <3>9 DEF WithinQuota
  <2> QED
    BY <2>2, <2>3, <2>4 DEF Crash, tables
<1>2. QuotaInv /\ [Next]_vars =>
        \A r \in Calls \ disturbed : Stepped(r, "addProfile") /\ req[r].op = "create"
          => \A m \in Managers : req[r].mgr = m => WithinQuota(m)
  BY <1>1
<1> QED
  BY <1>2, QuotaInvAlways, PTL DEF Spec, CreateWithinQuota

\* A patch that raises shared-users and does not enable the account keeps the owner's
\* sum within the quota, and that of every other manager, unless it was already above
\* it, with the same exceptions.
THEOREM RaisesWithinQuota == Spec => RaiseWithinQuota
<1>1. ASSUME QuotaInv, [Next]_vars, NEW r \in Calls \ disturbed, RaiseStep(r),
             req[r].disabled # "no", NEW m \in Managers
      PROVE  WithinQuota(m)
  <2>1. /\ TypeInv /\ TypeOK /\ router \in Routers /\ RaisePaid(r) /\ OwnerOfPatch(r)
        /\ pc[r] = "setUser" /\ pc'[r] # pc[r] /\ req[r].shared # 0
        /\ "patchCheck" \notin failedAt[r]
    BY <1>1, QuotaFacts DEF RaiseStep, Stepped
  <2> PICK n \in Names : n = req[r].name
    BY <2>1, RequestType
  <2>2. Serve(r) \/ Crash
    BY <1>1, <2>1, LeavesStep DEF Start
  <2>3. CASE router' = router
    <3>1. Used(m)' = Used(m) /\ Used(m) \in Nat
      BY <2>1, <2>3, UsedKept, UsedMoves
    <3> QED
      BY <3>1 DEF WithinQuota
  <2>4. CASE /\ router' # router /\ Serve(r)
    <3>1. SetUser(r)
      BY <2>1, <2>4
         DEF Serve, CheckQuota, AddUser, SetupCerts, InsertRow, AddProfile,
             Record, UndoUser, UndoRow, FindRow, AdoptRead, AdoptInsert,
             AdoptFind, PatchRead, PatchCheck, UpdateRead, UpdateWrite,
             AssignRead, RemoveProfile, CheckUser, RemoveUser, DeleteRow, Detail,
             Reads, tables, Writes, NoWrite
    <3>2. PICK c \in CommentsWritten(r) :
            Present(n) /\ router' = [router EXCEPT ![n] = Patched(@, req[r], c)]
      BY <2>4, <3>1 DEF SetUser, FailedWrite, Writes, NoWrite
    <3>3. /\ router' \in Routers /\ \A k \in Names \ {n} : router'[k] = router[k]
          /\ router[n] \in Account
      BY <2>1, <2>4, <3>2, RouterStep, OthersOnRouter DEF Routers, Present
    <3>4. router'[n] = Patched(router[n], req[r], c)
      BY <2>1, <3>2 DEF Routers
    <3>5. /\ router'[n].shared = req[r].shared
          /\ router'[n].profile = router[n].profile
          /\ router'[n].disabled = FALSE => router[n].disabled = FALSE
      <4>1. req[r].disabled \in {"absent", "yes"}
        BY <1>1, <2>1, RequestType DEF Input
      <4>2. /\ router'[n].shared = req[r].shared
            /\ router'[n].profile = router[n].profile
        BY <2>1, <3>3, <3>4 DEF Patched, Account
      <4>3. CASE req[r].disabled = "absent"
        <5>1. router'[n].disabled = router[n].disabled
          BY <3>3, <3>4, <4>3 DEF Patched, Account
        <5> QED
          BY <4>2, <5>1
      <4>4. CASE req[r].disabled = "yes"
        <5>1. router'[n].disabled = TRUE
          BY <3>3, <3>4, <4>4 DEF Patched, Account
        <5> QED
          BY <4>2, <5>1
      <4> QED
        BY <4>1, <4>3, <4>4
    <3>6. Present(n)' /\ OwnerOf(n)' = OwnerOf(n)
      <4>1. Present(n)'
        BY <2>1, <2>4, <3>2, RouterTaken DEF Present
      <4> QED
        BY <2>1, <2>4, <3>2, <4>1, OwnerStays DEF OwnerOfPatch, PatchSteps
    <3>7. /\ Used(m) \in Nat /\ Used(m)' \in Nat
          /\ Used(m)' + Share(n, m) = Used(m) + Share(n, m)'
      BY <2>1, <3>3, UsedMoves
    <3>8. CASE n \notin Counted(router, m)'
      <4>1. Share(n, m)' = 0 /\ Share(n, m) \in Nat
        BY <2>1, <3>3, <3>8, UsedMoves DEF Share
      <4> QED
        BY <3>7, <4>1 DEF WithinQuota
    <3>9. CASE n \in Counted(router, m)'
      <4>1. n \in Counted(router, m)
        BY <3>2, <3>5, <3>6, <3>9 DEF Counted, Present, OwnerOf
      <4>2. router[n].profile = "active" /\ OwnerOf(n) = m
        BY <4>1 DEF Counted, OwnerOf
      <4>3. mem[r].owner = m /\ mem[r].shared = router[n].shared
        BY <2>1, <3>2, <4>2 DEF OwnerOfPatch, RaisePaid, PatchSteps
      <4>4. Used(m) + req[r].shared <= Quota[m] + router[n].shared
        BY <2>1, <3>2, <4>2, <4>3 DEF RaisePaid
      <4>5. Share(n, m) = router[n].shared /\ Share(n, m)' = req[r].shared
        BY <3>5, <3>9, <4>1 DEF Share
      <4>6. /\ req[r].shared \in Nat /\ Quota[m] \in Nat /\ router[n].shared \in Nat
        BY <2>1, <3>3, RequestType, ConstantsAssumption DEF Input, Account
      <4> QED
        BY <3>7, <4>4, <4>5, <4>6 DEF WithinQuota
    <3> QED
      BY <3>8, <3>9
  <2> QED
    BY <2>2, <2>3, <2>4 DEF Crash, tables
<1>2. QuotaInv /\ [Next]_vars =>
        \A r \in Calls \ disturbed : RaiseStep(r) /\ req[r].disabled # "no"
          => \A m \in Managers : WithinQuota(m)
  BY <1>1
<1> QED
  BY <1>2, QuotaInvAlways, PTL DEF Spec, RaiseWithinQuota
=============================================================================
