------------------------ MODULE StoreMigrationProofs ------------------------
(***************************************************************************)
(* Proofs about StoreMigration: for any number of processes, failures and  *)
(* users, and whatever database is found, a panel that serves has the      *)
(* present schema, and a start loses no user.                              *)
(***************************************************************************)
EXTENDS StoreMigration, TLAPS

\* The steps of the rebuild, those after it and those after the columns.
Rebuilding == {"copy", "drop", "rename", "commit"}
Beyond     == {"checkColumn", "addColumn", "countAdmins", "createAdmin", "serving"}
Complete   == {"countAdmins", "createAdmin", "serving"}

\* The lock is held exactly by the process that rebuilds, and it sees the database
\* as it is but for its own statements.
Transaction ==
  \A p \in Procs :
    /\ lock = p <=> pc[p] \in Rebuilding
    /\ pc[p] \in {"copy", "drop"} => work[p] = db
    /\ pc[p] = "rename" => work[p] = Dropped(db)
    /\ pc[p] = "commit" => work[p] = [Dropped(db) EXCEPT !.legacy = FALSE]
    /\ pc[p] \in {"drop", "rename", "commit"} => db.legacy

\* What a process has already seen to.
Done(d, step, n) ==
  /\ step = "schema" => \A i \in DOMAIN Schema : i < n => Schema[i] \in d.tables
  /\ step \notin {"off", "schema"} => d.tables = AllTables
  /\ step \in Beyond => ~d.legacy
  /\ step \in {"checkColumn", "addColumn"} =>
       \A i \in DOMAIN Columns : i < n => Columns[i] \in d.cols
  /\ step \in Complete => d.cols = AllColumns
  /\ step = "serving" => (Configured => d.admin)

Progress == \A p \in Procs : Done(db, pc[p], next[p])

\* Certificates are younger than the old form of vpn_user_meta.
OldIsBare == db.legacy => db.certs = {}

Inv == TypeOK /\ Transaction /\ Progress /\ OldIsBare

----------------------------------------------------------------------------
LEMMA Lists ==
  /\ DOMAIN Schema = 1..4 /\ Len(Schema) = 4
  /\ DOMAIN Columns = 1..4 /\ Len(Columns) = 4
  /\ \A i \in 1..4 : Schema[i] \in AllTables /\ Columns[i] \in AllColumns
  /\ AllTables = {Schema[1], Schema[2], Schema[3], Schema[4]}
  /\ AllColumns = {Columns[1], Columns[2], Columns[3], Columns[4]}
<1>1. DOMAIN Schema = 1..4 /\ Len(Schema) = 4
  BY DEF Schema
<1>2. DOMAIN Columns = 1..4 /\ Len(Columns) = 4
  BY DEF Columns
<1>. QED BY <1>1, <1>2 DEF AllTables, AllColumns

\* A database that has more than before.
Grows(d, e) ==
  /\ d.tables \subseteq e.tables /\ (e.legacy => d.legacy)
  /\ ~d.legacy => d.cols \subseteq e.cols
  /\ d.admin => e.admin

\* What a process has seen to, the others do not undo.
LEMMA OthersProgress ==
  ASSUME TypeOK, db' \in Db, Progress, Grows(db, db'), NEW p \in Procs,
         pc' = [pc EXCEPT ![p] = pc'[p]], next' = [next EXCEPT ![p] = next'[p]],
         Done(db', pc'[p], next'[p])
  PROVE  Progress'
<1>1. ASSUME NEW q \in Procs, q # p PROVE Done(db', pc'[q], next'[q])
  <2>1. pc'[q] = pc[q] /\ next'[q] = next[q] /\ Done(db, pc[q], next[q])
    BY <1>1 DEF TypeOK, Progress
  <2>2. db'.tables \subseteq AllTables /\ db'.cols \subseteq AllColumns
    BY DEF Db
  <2>3. pc[q] \in Beyond => db.cols \subseteq db'.cols /\ ~db'.legacy
    BY <2>1 DEF Done, Grows
  <2>4. pc[q] \in Complete => pc[q] \in Beyond
    BY DEF Complete, Beyond
  <2>5. pc[q] \in {"checkColumn", "addColumn"} => pc[q] \in Beyond
    BY DEF Beyond
  <2>6. pc[q] = "serving" => pc[q] \in Beyond
    BY DEF Beyond
  <2>. QED BY <2>1, <2>2, <2>3, <2>4, <2>5, <2>6 DEF Done, Grows
<1>. QED BY <1>1 DEF Progress

\* A process that is not in a transaction, nor comes into one, leaves those of the
\* others alone if it writes only while nobody is in one.
LEMMA OthersTransaction ==
  ASSUME TypeOK, Transaction, NEW p \in Procs,
         pc' = [pc EXCEPT ![p] = pc'[p]],
         pc[p] \notin Rebuilding, pc'[p] \notin Rebuilding,
         lock' = lock, work' = work, db' = db \/ lock \in {Nobody, p}
  PROVE  Transaction'
<1>1. lock # p
  BY DEF Transaction
<1>2. \A q \in Procs \ {p} : pc'[q] = pc[q]
  BY DEF TypeOK
<1>3. ASSUME NEW q \in Procs, q # p, pc[q] \in Rebuilding PROVE lock = q /\ db' = db
  BY <1>1, <1>3, MigrationAssumption DEF Transaction
<1>4. \A q \in Procs : lock' = q <=> pc'[q] \in Rebuilding
  BY <1>1, <1>2 DEF Transaction
<1>5. {"copy", "drop"} \subseteq Rebuilding /\ "rename" \in Rebuilding /\ "commit" \in Rebuilding
  BY DEF Rebuilding
<1>. QED BY <1>2, <1>3, <1>4, <1>5 DEF Transaction

LEMMA Moved ==
  ASSUME TypeOK, NEW p \in Procs, NEW step \in Steps, GoTo(p, step)
  PROVE  /\ pc' \in [Procs -> Steps] /\ next' \in [Procs -> 1..Len(Columns)]
         /\ pc'[p] = step /\ next'[p] = 1
         /\ pc' = [pc EXCEPT ![p] = pc'[p]] /\ next' = [next EXCEPT ![p] = next'[p]]
BY Lists DEF TypeOK, GoTo

\* A step outside a transaction that writes e, if it may.
LEMMA Stepped ==
  ASSUME Inv, NEW p \in Procs, NEW step \in Steps,
         pc[p] \notin Rebuilding, step \notin Rebuilding,
         pc' \in [Procs -> Steps], next' \in [Procs -> 1..Len(Columns)],
         pc' = [pc EXCEPT ![p] = step], next' = [next EXCEPT ![p] = next'[p]],
         lock' = lock, work' = work, faults' \in Nat,
         db' \in Db, db' = db \/ lock \in {Nobody, p},
         Grows(db, db'), db'.legacy => db'.certs = {},
         Done(db', step, next'[p])
  PROVE  Inv'
<1>1. pc'[p] = step
  BY DEF Inv, TypeOK
<1>2. TypeOK'
  BY DEF Inv, TypeOK
<1>3. Transaction'
  BY <1>1, OthersTransaction DEF Inv
<1>4. Progress'
  BY <1>1, OthersProgress DEF Inv
<1>. QED BY <1>2, <1>3, <1>4 DEF Inv, OldIsBare

LEMMA SameGrows ==
  ASSUME TypeOK, db' = db
  PROVE  Grows(db, db') /\ db' \in Db
BY DEF Grows, TypeOK

LEMMA StepNames ==
  /\ Rebuilding \subseteq Steps /\ Beyond \subseteq Steps /\ Complete \subseteq Beyond
  /\ Beyond \intersect Rebuilding = {} /\ "off" \notin Rebuilding \union Beyond
  /\ {"off", "schema", "checkLegacy", "create"} \subseteq Steps \ (Rebuilding \union Beyond)
BY DEF Rebuilding, Beyond, Complete, Steps

LEMMA StartInv ==
  ASSUME Inv, NEW p \in Procs, Start(p)
  PROVE  Inv'
<1>1. /\ pc' \in [Procs -> Steps] /\ next' \in [Procs -> 1..Len(Columns)]
      /\ pc' = [pc EXCEPT ![p] = "schema"] /\ next' = [next EXCEPT ![p] = next'[p]]
      /\ next'[p] = 1
  BY Moved, StepNames DEF Inv, Start, GoTo
<1>2. Done(db, "schema", 1)
  BY Lists, StepNames DEF Done
<1>3. Grows(db, db') /\ db' \in Db
  BY SameGrows DEF Inv, Start
<1>. QED
  BY <1>1, <1>2, <1>3, StepNames, Stepped DEF Inv, TypeOK, Start, At, OldIsBare

LEMMA ExitInv ==
  ASSUME Inv, NEW p \in Procs, Exit(p), faults' \in Nat
  PROVE  Inv'
<1>1. /\ pc' \in [Procs -> Steps] /\ next' \in [Procs -> 1..Len(Columns)]
      /\ pc'[p] = "off" /\ pc' = [pc EXCEPT ![p] = pc'[p]]
      /\ next' = [next EXCEPT ![p] = next'[p]] /\ next'[p] = 1
  BY Moved, StepNames DEF Inv, Exit
<1>2. /\ db' = db /\ work' = [work EXCEPT ![p] = NoWork]
      /\ lock' = IF lock = p THEN Nobody ELSE lock
  BY DEF Exit, Release
<1>3. TypeOK'
  BY <1>1, <1>2 DEF Inv, TypeOK
<1>4. Transaction'
  <2>1. \A q \in Procs \ {p} : pc'[q] = pc[q] /\ work'[q] = work[q]
    BY <1>1, <1>2 DEF Inv, TypeOK
  <2>2. \A q \in Procs : lock' = q <=> pc'[q] \in Rebuilding
    BY <1>1, <1>2, <2>1, StepNames, MigrationAssumption DEF Inv, Transaction
  <2>3. ASSUME NEW q \in Procs
        PROVE  /\ pc'[q] \in {"copy", "drop"} => work'[q] = db'
               /\ pc'[q] = "rename" => work'[q] = Dropped(db')
               /\ pc'[q] = "commit" => work'[q] = [Dropped(db') EXCEPT !.legacy = FALSE]
               /\ pc'[q] \in {"drop", "rename", "commit"} => db'.legacy
    <3>1. CASE q = p
      BY <3>1, <1>1
    <3>2. CASE q # p
      BY <3>2, <1>2, <2>1 DEF Inv, Transaction
    <3>. QED BY <3>1, <3>2
  <2>. QED BY <2>2, <2>3 DEF Transaction
<1>5. Progress'
  <2>1. Done(db', "off", 1)
    BY StepNames DEF Done
  <2>2. Grows(db, db') /\ db' \in Db
    BY <1>2, SameGrows DEF Inv
  <2>. QED BY <1>1, <2>1, <2>2, OthersProgress DEF Inv
<1>. QED BY <1>2, <1>3, <1>4, <1>5 DEF Inv, OldIsBare

LEMMA CreateTableInv ==
  ASSUME Inv, NEW p \in Procs, CreateTable(p)
  PROVE  Inv'
<1>. DEFINE t == Schema[next[p]]
<1>1. /\ next[p] \in 1..4 /\ t \in AllTables /\ pc[p] = "schema" /\ faults' \in Nat
      /\ pc[p] \notin Rebuilding
  BY Lists, StepNames DEF Inv, TypeOK, CreateTable, At
<1>2. db \in Db /\ db' = WithTable(db, t) /\ lock' = lock /\ work' = work
      /\ lock \in {Nobody, p}
  BY DEF Inv, TypeOK, CreateTable, Write, Free
<1>3. /\ db' \in Db /\ db'.tables = db.tables \union {t} /\ db'.legacy = db.legacy
      /\ db'.certs = db.certs /\ db'.admin = db.admin /\ db.cols \subseteq db'.cols
  <2>1. CASE t \in db.tables
    BY <1>2, <2>1 DEF WithTable
  <2>2. CASE t \notin db.tables
    <3>1. db' = [db EXCEPT !.tables = @ \union {t}, !.cols = @ \union ColumnsOf(t)]
      BY <1>2, <2>2 DEF WithTable
    <3>2. ColumnsOf(t) \subseteq AllColumns
      BY DEF ColumnsOf
    <3>. DEFINE k == ColumnsOf(t)
    <3>3. db \in [tables : SUBSET AllTables, legacy : BOOLEAN, cols : SUBSET AllColumns,
                 meta : SUBSET Users, acts : SUBSET Users, certs : SUBSET Users,
                 admin : BOOLEAN]
      BY <1>2 DEF Db
    <3>. HIDE DEF t, k
    <3>4. db' = [db EXCEPT !.tables = db.tables \union {t}, !.cols = db.cols \union k]
      BY <3>1, <3>3 DEF k
    <3>5. db.tables \union {t} \in SUBSET AllTables /\ db.cols \union k \in SUBSET AllColumns
      BY <1>1, <3>2, <3>3 DEF k
    <3>6. /\ db'.tables = db.tables \union {t} /\ db'.legacy = db.legacy
          /\ db'.certs = db.certs /\ db'.admin = db.admin /\ db'.cols = db.cols \union k
      BY <3>3, <3>4
    <3>7. db' \in Db
      BY <3>3, <3>4, <3>5 DEF Db
    <3>. QED BY <3>6, <3>7
  <2>. QED BY <2>1, <2>2
<1>4. Grows(db, db') /\ (db'.legacy => db'.certs = {})
  BY <1>3 DEF Grows, Inv, OldIsBare
<1>5. \A i \in 1..4 : i < next[p] => Schema[i] \in db.tables
  BY <1>1, Lists DEF Inv, Progress, Done
<1>6. CASE next[p] < Len(Schema)
  <2>1. next' = [next EXCEPT ![p] = @ + 1] /\ pc' = pc
    BY <1>6 DEF CreateTable, Advance
  <2>2. next' \in [Procs -> 1..Len(Columns)] /\ next'[p] = next[p] + 1
        /\ next' = [next EXCEPT ![p] = next'[p]]
    BY <1>1, <1>6, <2>1, Lists DEF Inv, TypeOK
  <2>3. pc' \in [Procs -> Steps] /\ pc' = [pc EXCEPT ![p] = "schema"]
    BY <1>1, <2>1 DEF Inv, TypeOK
  <2>4. \A i \in 1..4 : i < next[p] + 1 => Schema[i] \in db'.tables
    BY <1>1, <1>3, <1>5
  <2>5. Done(db', "schema", next'[p])
    BY <2>2, <2>4, StepNames, Lists DEF Done
  <2>. HIDE DEF t
  <2>. QED BY <1>1, <1>2, <1>3, <1>4, <2>2, <2>3, <2>5, StepNames, Stepped
<1>7. CASE ~(next[p] < Len(Schema))
  <2>1. /\ pc' \in [Procs -> Steps] /\ next' \in [Procs -> 1..Len(Columns)]
        /\ pc' = [pc EXCEPT ![p] = "checkLegacy"] /\ next' = [next EXCEPT ![p] = next'[p]]
    BY <1>7, Moved, StepNames DEF Inv, CreateTable, Advance, GoTo
  <2>2. next[p] = 4
    BY <1>1, <1>7, Lists
  <2>3. \A i \in 1..4 : Schema[i] \in db'.tables
    BY <1>1, <1>3, <1>5, <2>2
  <2>4. db'.tables = AllTables
    BY <1>3, <2>3, Lists DEF Db
  <2>5. Done(db', "checkLegacy", next'[p])
    BY <2>4, StepNames DEF Done
  <2>. HIDE DEF t
  <2>. QED BY <1>1, <1>2, <1>3, <1>4, <2>1, <2>5, StepNames, Stepped
<1>. QED BY <1>6, <1>7

LEMMA CheckLegacyInv ==
  ASSUME Inv, NEW p \in Procs, CheckLegacy(p)
  PROVE  Inv'
<1>. DEFINE step == IF db.legacy THEN "create" ELSE "checkColumn"
<1>1. step \in Steps \ Rebuilding
  BY StepNames DEF Steps, Rebuilding
<1>2. /\ pc' \in [Procs -> Steps] /\ next' \in [Procs -> 1..Len(Columns)]
      /\ pc' = [pc EXCEPT ![p] = step] /\ next' = [next EXCEPT ![p] = next'[p]]
      /\ next'[p] = 1
  BY <1>1, Moved DEF Inv, CheckLegacy, GoTo
<1>3. db.tables = AllTables
  BY DEF Inv, Progress, Done, CheckLegacy, At
<1>4. Done(db, step, 1)
  BY <1>3, Lists DEF Done, Beyond, Complete
<1>5. Grows(db, db') /\ db' \in Db
  BY SameGrows DEF Inv, CheckLegacy
<1>. HIDE DEF step
<1>. QED BY <1>1, <1>2, <1>4, <1>5, StepNames, Stepped DEF Inv, TypeOK, CheckLegacy, At, OldIsBare

\* A step within a transaction: the database stays.
LEMMA SteppedWithin ==
  ASSUME Inv, NEW p \in Procs, NEW step \in Rebuilding,
         GoTo(p, step), pc[p] \in Rebuilding \/ lock \in {Nobody, p},
         lock' = p, db' = db, faults' \in Nat, NEW w \in Db,
         work' = [work EXCEPT ![p] = w],
         step \in {"copy", "drop"} => w = db,
         step = "rename" => w = Dropped(db),
         step = "commit" => w = [Dropped(db) EXCEPT !.legacy = FALSE],
         step \in {"drop", "rename", "commit"} => db.legacy,
         db.tables = AllTables
  PROVE  Inv'
<1>1. /\ pc' \in [Procs -> Steps] /\ next' \in [Procs -> 1..Len(Columns)]
      /\ pc'[p] = step /\ pc' = [pc EXCEPT ![p] = pc'[p]]
      /\ next' = [next EXCEPT ![p] = next'[p]]
  BY Moved, StepNames DEF Inv
<1>2. \A q \in Procs \ {p} : pc'[q] = pc[q] /\ work'[q] = work[q]
  BY <1>1 DEF Inv, TypeOK
<1>3. work'[p] = w
  BY DEF Inv, TypeOK
<1>4. TypeOK'
  BY <1>1 DEF Inv, TypeOK
<1>5. Transaction'
  <2>1. lock \in {Nobody, p}
    BY DEF Inv, Transaction
  <2>2. \A q \in Procs \ {p} : lock # q
    BY <2>1, MigrationAssumption
  <2>3. \A q \in Procs \ {p} : pc'[q] \notin Rebuilding
    BY <1>2, <2>2 DEF Inv, Transaction
  <2>4. {"copy", "drop", "rename", "commit"} = Rebuilding
    BY DEF Rebuilding
  <2>. QED BY <1>1, <1>3, <2>3, <2>4 DEF Transaction
<1>6. Progress'
  <2>1. Done(db', step, next'[p])
    BY StepNames DEF Done, Rebuilding
  <2>2. Grows(db, db') /\ db' \in Db
    BY SameGrows DEF Inv
  <2>. QED BY <1>1, <2>1, <2>2, OthersProgress DEF Inv
<1>. QED BY <1>4, <1>5, <1>6 DEF Inv, OldIsBare

LEMMA CreateNewInv ==
  ASSUME Inv, NEW p \in Procs, CreateNew(p)
  PROVE  Inv'
<1>1. db.tables = AllTables
  BY DEF Inv, Progress, Done, CreateNew, At
<1>2. "copy" \in Rebuilding
  BY DEF Rebuilding
<1>. QED
  BY <1>1, <1>2, SteppedWithin DEF Inv, TypeOK, CreateNew, Free

\* The process that rebuilds.
LEMMA Within ==
  ASSUME Inv, NEW p \in Procs, pc[p] \in Rebuilding
  PROVE  /\ lock = p /\ db \in Db /\ db.tables = AllTables
         /\ work = [work EXCEPT ![p] = work[p]]
<1>1. lock = p /\ db \in Db
  BY DEF Inv, TypeOK, Transaction
<1>2. pc[p] \notin {"off", "schema"}
  BY StepNames
<1>3. db.tables = AllTables
  BY <1>2 DEF Inv, Progress, Done
<1>. QED BY <1>1, <1>3 DEF Inv, TypeOK

LEMMA CopyRowsInv ==
  ASSUME Inv, NEW p \in Procs, CopyRows(p)
  PROVE  Inv'
<1>1. pc[p] = "copy" /\ pc[p] \in Rebuilding /\ "drop" \in Rebuilding /\ faults' \in Nat
  BY DEF CopyRows, At, Rebuilding, Inv, TypeOK
<1>2. work[p] = db
  BY <1>1 DEF Inv, Transaction
<1>3. CASE work[p].legacy
  <2>1. db' = db /\ lock' = p /\ work' = [work EXCEPT ![p] = db] /\ GoTo(p, "drop")
    BY <1>1, <1>2, <1>3, Within DEF CopyRows
  <2>. QED BY <1>1, <1>2, <1>3, <2>1, Within, SteppedWithin
<1>4. CASE ~work[p].legacy
  BY <1>1, <1>4, ExitInv DEF CopyRows
<1>. QED BY <1>3, <1>4

LEMMA DroppedDb ==
  ASSUME NEW d \in Db
  PROVE  /\ Dropped(d) \in Db /\ Dropped(d).meta = d.meta
         /\ Dropped(d).certs = {} /\ Dropped(d).acts = {}
         /\ Dropped(d).tables = d.tables /\ Dropped(d).admin = d.admin
         /\ Dropped(d).cols = d.cols \ ColumnsOf("vpn_user_meta")
BY DEF Dropped, Db

LEMMA RenamedDb ==
  ASSUME NEW d \in Db
  PROVE  LET e == [Dropped(d) EXCEPT !.legacy = FALSE]
         IN  /\ e \in Db /\ e.meta = d.meta /\ e.certs = {} /\ ~e.legacy
             /\ e.tables = d.tables /\ e.admin = d.admin
<1>. DEFINE b == Dropped(d)
<1>1. /\ b \in Db /\ b.meta = d.meta /\ b.certs = {}
      /\ b.tables = d.tables /\ b.admin = d.admin
  BY DroppedDb
<1>. HIDE DEF b
<1>2. LET e == [b EXCEPT !.legacy = FALSE]
      IN  /\ e \in Db /\ e.meta = b.meta /\ e.certs = b.certs /\ ~e.legacy
          /\ e.tables = b.tables /\ e.admin = b.admin
  BY <1>1 DEF Db
<1>. QED BY <1>1, <1>2 DEF b

LEMMA DropOldInv ==
  ASSUME Inv, NEW p \in Procs, DropOld(p)
  PROVE  Inv'
<1>1. /\ pc[p] = "drop" /\ pc[p] \in Rebuilding /\ "rename" \in Rebuilding
      /\ faults' \in Nat /\ db' = db /\ lock' = lock /\ GoTo(p, "rename")
  BY DEF DropOld, At, Rebuilding, Inv, TypeOK
<1>2. work[p] = db /\ db.legacy
  BY <1>1 DEF Inv, Transaction
<1>3. work' = [work EXCEPT ![p] = Dropped(db)]
  BY <1>2 DEF DropOld
<1>. QED BY <1>1, <1>2, <1>3, Within, DroppedDb, SteppedWithin

LEMMA RenameInv ==
  ASSUME Inv, NEW p \in Procs, Rename(p)
  PROVE  Inv'
<1>1. /\ pc[p] = "rename" /\ pc[p] \in Rebuilding /\ "commit" \in Rebuilding
      /\ faults' \in Nat /\ db' = db /\ lock' = lock /\ GoTo(p, "commit")
  BY DEF Rename, At, Rebuilding, Inv, TypeOK
<1>2. work[p] = Dropped(db) /\ db.legacy
  BY <1>1 DEF Inv, Transaction
<1>3. work' = [work EXCEPT ![p] = [Dropped(db) EXCEPT !.legacy = FALSE]]
  BY <1>2 DEF Rename
<1>4. [Dropped(db) EXCEPT !.legacy = FALSE] \in Db
  BY <1>1, Within, RenamedDb
<1>. QED BY <1>1, <1>2, <1>3, <1>4, Within, SteppedWithin

LEMMA CommitInv ==
  ASSUME Inv, NEW p \in Procs, Commit(p)
  PROVE  Inv'
<1>1. /\ pc[p] = "commit" /\ pc[p] \in Rebuilding /\ faults' \in Nat /\ lock = p
      /\ db' = work[p] /\ Release(p) /\ GoTo(p, "checkColumn") /\ db \in Db
      /\ db.tables = AllTables
  BY Within DEF Commit, At, Rebuilding, Inv, TypeOK
<1>2. work[p] = [Dropped(db) EXCEPT !.legacy = FALSE] /\ db.legacy
  BY <1>1 DEF Inv, Transaction
<1>3. /\ db' \in Db /\ ~db'.legacy /\ db'.tables = AllTables /\ db'.admin = db.admin
  BY <1>1, <1>2, RenamedDb
<1>4. /\ pc' \in [Procs -> Steps] /\ next' \in [Procs -> 1..Len(Columns)]
      /\ pc'[p] = "checkColumn" /\ pc' = [pc EXCEPT ![p] = pc'[p]]
      /\ next' = [next EXCEPT ![p] = next'[p]] /\ next'[p] = 1
  BY <1>1, Moved, StepNames DEF Inv, Steps
<1>5. lock' = Nobody /\ work' = [work EXCEPT ![p] = NoWork]
  BY <1>1 DEF Release
<1>6. TypeOK'
  BY <1>1, <1>3, <1>4, <1>5 DEF Inv, TypeOK
<1>7. Transaction'
  <2>1. \A q \in Procs \ {p} : pc'[q] = pc[q] /\ pc[q] \notin Rebuilding
    BY <1>1, <1>4 DEF Inv, TypeOK, Transaction
  <2>2. "checkColumn" \notin Rebuilding
    BY DEF Rebuilding
  <2>3. \A q \in Procs : pc'[q] \notin Rebuilding /\ lock' # q
    BY <1>4, <1>5, <2>1, <2>2, MigrationAssumption
  <2>4. Rebuilding = {"copy", "drop", "rename", "commit"}
    BY DEF Rebuilding
  <2>. QED BY <2>3, <2>4 DEF Transaction
<1>8. Progress'
  <2>1. Grows(db, db')
    BY <1>1, <1>2, <1>3 DEF Grows
  <2>2. Done(db', "checkColumn", 1)
    BY <1>3, Lists DEF Done, Complete
  <2>. QED BY <1>3, <1>4, <2>1, <2>2, OthersProgress DEF Inv
<1>. QED BY <1>3, <1>6, <1>7, <1>8 DEF Inv, OldIsBare

\* One column more: the next is looked for, or all are there.
LEMMA NextColumn ==
  ASSUME TypeOK, NEW p \in Procs, pc[p] \in {"checkColumn", "addColumn"},
         Done(db, pc[p], next[p]), NEW d \in Db, Grows(db, d),
         Columns[next[p]] \in d.cols, db.cols \subseteq d.cols
  PROVE  /\ next[p] < Len(Columns) => Done(d, "checkColumn", next[p] + 1)
         /\ ~(next[p] < Len(Columns)) => Done(d, "countAdmins", 1)
<1>1. next[p] \in 1..4 /\ d.tables \subseteq AllTables /\ d.cols \subseteq AllColumns
  BY Lists DEF TypeOK, Db
<1>2. /\ db.tables = AllTables /\ ~db.legacy
      /\ \A i \in 1..4 : i < next[p] => Columns[i] \in db.cols
  BY Lists DEF Done, Beyond
<1>3. d.tables = AllTables /\ ~d.legacy
  BY <1>1, <1>2 DEF Grows
<1>4. \A i \in 1..4 : i < next[p] + 1 => Columns[i] \in d.cols
  BY <1>1, <1>2
<1>5. CASE next[p] < Len(Columns)
  BY <1>3, <1>4, <1>5, Lists DEF Done, Complete
<1>6. CASE ~(next[p] < Len(Columns))
  <2>1. \A i \in 1..4 : Columns[i] \in d.cols
    BY <1>1, <1>4, <1>6, Lists
  <2>2. d.cols = AllColumns
    BY <1>1, <2>1, Lists
  <2>. QED BY <1>3, <1>6, <2>2 DEF Done
<1>. QED BY <1>5, <1>6

LEMMA CheckColumnInv ==
  ASSUME Inv, NEW p \in Procs, CheckColumn(p)
  PROVE  Inv'
<1>1. /\ pc[p] = "checkColumn" /\ db' = db /\ lock' = lock /\ work' = work
      /\ faults' \in Nat /\ Done(db, pc[p], next[p]) /\ next[p] \in 1..4
  BY Lists DEF Inv, TypeOK, CheckColumn, At, Progress
<1>2. Grows(db, db') /\ db' \in Db
  BY <1>1, SameGrows DEF Inv
<1>3. {"checkColumn", "addColumn", "countAdmins"} \subseteq Steps \ Rebuilding
  BY DEF Steps, Rebuilding
<1>4. db.cols \subseteq db'.cols /\ (db'.legacy => db'.certs = {})
  BY <1>1 DEF Inv, OldIsBare
<1>5. CASE Columns[next[p]] \in db.cols /\ next[p] < Len(Columns)
  <2>1. next' = [next EXCEPT ![p] = @ + 1] /\ pc' = pc
    BY <1>5 DEF CheckColumn, HasColumn, Advance
  <2>2. next' \in [Procs -> 1..Len(Columns)] /\ next'[p] = next[p] + 1
        /\ next' = [next EXCEPT ![p] = next'[p]]
    BY <1>1, <1>5, <2>1, Lists DEF Inv, TypeOK
  <2>3. pc' \in [Procs -> Steps] /\ pc' = [pc EXCEPT ![p] = "checkColumn"]
    BY <1>1, <2>1 DEF Inv, TypeOK
  <2>4. Done(db', "checkColumn", next'[p])
    BY <1>1, <1>2, <1>4, <1>5, <2>2, NextColumn DEF Inv
  <2>. QED BY <1>1, <1>2, <1>3, <1>4, <2>2, <2>3, <2>4, Stepped
<1>6. CASE Columns[next[p]] \in db.cols /\ ~(next[p] < Len(Columns))
  <2>1. /\ pc' \in [Procs -> Steps] /\ next' \in [Procs -> 1..Len(Columns)]
        /\ pc' = [pc EXCEPT ![p] = "countAdmins"] /\ next' = [next EXCEPT ![p] = next'[p]]
        /\ next'[p] = 1
    BY <1>3, <1>6, Moved DEF Inv, CheckColumn, HasColumn, Advance, GoTo
  <2>2. Done(db', "countAdmins", next'[p])
    BY <1>1, <1>2, <1>4, <1>6, <2>1, NextColumn DEF Inv
  <2>. QED BY <1>1, <1>2, <1>3, <1>4, <2>1, <2>2, Stepped
<1>7. CASE Columns[next[p]] \notin db.cols
  <2>1. pc' = [pc EXCEPT ![p] = "addColumn"] /\ next' = next
    BY <1>7 DEF CheckColumn, HasColumn
  <2>2. /\ pc' \in [Procs -> Steps] /\ next' \in [Procs -> 1..Len(Columns)]
        /\ next' = [next EXCEPT ![p] = next'[p]]
    BY <1>3, <2>1 DEF Inv, TypeOK
  <2>3. Done(db', "addColumn", next'[p])
    BY <1>1, <2>1 DEF Done, Beyond, Complete
  <2>. QED BY <1>1, <1>2, <1>3, <1>4, <2>1, <2>2, <2>3, Stepped
<1>. QED BY <1>5, <1>6, <1>7

LEMMA AddColumnInv ==
  ASSUME Inv, NEW p \in Procs, AddColumn(p)
  PROVE  Inv'
<1>. DEFINE k == Columns[next[p]]
<1>1. /\ pc[p] = "addColumn" /\ faults' \in Nat /\ db \in Db
      /\ Done(db, pc[p], next[p]) /\ next[p] \in 1..4
  BY Lists DEF Inv, TypeOK, AddColumn, At, Progress
<1>2. CASE k \in db.cols
  BY <1>1, <1>2, ExitInv DEF AddColumn
<1>3. CASE k \notin db.cols
  <2>1. /\ db' = [db EXCEPT !.cols = @ \union {k}] /\ lock' = lock /\ work' = work
        /\ lock \in {Nobody, p} /\ k \in AllColumns
    BY <1>1, <1>3, Lists DEF AddColumn, Write, Free
  <2>2. /\ db' \in Db /\ db'.cols = db.cols \union {k} /\ db'.tables = db.tables
        /\ db'.legacy = db.legacy /\ db'.certs = db.certs /\ db'.admin = db.admin
    <3>. HIDE DEF k
    <3>. QED BY <1>1, <2>1 DEF Db
  <2>3. /\ Grows(db, db') /\ (db'.legacy => db'.certs = {})
        /\ k \in db'.cols /\ db.cols \subseteq db'.cols
    BY <2>2 DEF Grows, Inv, OldIsBare
  <2>4. {"checkColumn", "addColumn", "countAdmins"} \subseteq Steps \ Rebuilding
    BY DEF Steps, Rebuilding
  <2>5. CASE next[p] < Len(Columns)
    <3>1. pc' = [pc EXCEPT ![p] = "checkColumn"] /\ next' = [next EXCEPT ![p] = @ + 1]
      BY <1>3, <2>5 DEF AddColumn
    <3>2. /\ next' \in [Procs -> 1..Len(Columns)] /\ next'[p] = next[p] + 1
          /\ next' = [next EXCEPT ![p] = next'[p]] /\ pc' \in [Procs -> Steps]
      BY <1>1, <2>4, <2>5, <3>1, Lists DEF Inv, TypeOK
    <3>3. Done(db', "checkColumn", next'[p])
      BY <1>1, <2>2, <2>3, <2>5, <3>2, NextColumn DEF Inv
    <3>. HIDE DEF k
    <3>. QED BY <1>1, <2>1, <2>2, <2>3, <2>4, <3>1, <3>2, <3>3, Stepped
  <2>6. CASE ~(next[p] < Len(Columns))
    <3>1. /\ pc' \in [Procs -> Steps] /\ next' \in [Procs -> 1..Len(Columns)]
          /\ pc' = [pc EXCEPT ![p] = "countAdmins"] /\ next' = [next EXCEPT ![p] = next'[p]]
          /\ next'[p] = 1
      BY <1>3, <2>4, <2>6, Moved DEF Inv, AddColumn, GoTo
    <3>2. Done(db', "countAdmins", next'[p])
      BY <1>1, <2>2, <2>3, <2>6, <3>1, NextColumn DEF Inv
    <3>. HIDE DEF k
    <3>. QED BY <1>1, <2>1, <2>2, <2>3, <2>4, <3>1, <3>2, Stepped
  <2>. QED BY <2>5, <2>6
<1>. QED BY <1>2, <1>3

LEMMA CountAdminsInv ==
  ASSUME Inv, NEW p \in Procs, CountAdmins(p)
  PROVE  Inv'
<1>. DEFINE step == IF db.admin \/ ~Configured THEN "serving" ELSE "createAdmin"
<1>1. pc[p] = "countAdmins" /\ step \in Steps \ Rebuilding
  BY DEF CountAdmins, At, Steps, Rebuilding
<1>2. /\ pc' \in [Procs -> Steps] /\ next' \in [Procs -> 1..Len(Columns)]
      /\ pc' = [pc EXCEPT ![p] = step] /\ next' = [next EXCEPT ![p] = next'[p]]
      /\ next'[p] = 1
  BY <1>1, Moved DEF Inv, CountAdmins, GoTo
<1>3. db.tables = AllTables /\ ~db.legacy /\ db.cols = AllColumns
  BY <1>1 DEF Inv, Progress, Done, Complete, Beyond
<1>4. Done(db, step, 1)
  BY <1>3 DEF Done
<1>5. Grows(db, db') /\ db' \in Db
  BY SameGrows DEF Inv, CountAdmins
<1>6. pc[p] \notin Rebuilding
  BY <1>1 DEF Rebuilding
<1>. HIDE DEF step
<1>. QED BY <1>1, <1>2, <1>4, <1>5, <1>6, Stepped DEF Inv, TypeOK, CountAdmins, OldIsBare

LEMMA CreateAdminInv ==
  ASSUME Inv, NEW p \in Procs, CreateAdmin(p)
  PROVE  Inv'
<1>1. /\ pc[p] = "createAdmin" /\ pc[p] \notin Rebuilding /\ faults' \in Nat
      /\ "serving" \in Steps \ Rebuilding /\ db \in Db
  BY DEF CreateAdmin, At, Steps, Rebuilding, Inv, TypeOK
<1>2. CASE db.admin
  BY <1>1, <1>2, ExitInv DEF CreateAdmin
<1>3. CASE ~db.admin
  <2>1. /\ db' = [db EXCEPT !.admin = TRUE] /\ lock' = lock /\ work' = work
        /\ lock \in {Nobody, p}
    BY <1>3 DEF CreateAdmin, Write, Free
  <2>2. /\ db' \in Db /\ db'.cols = db.cols /\ db'.tables = db.tables
        /\ db'.legacy = db.legacy /\ db'.certs = db.certs /\ db'.admin
    BY <1>1, <2>1 DEF Db
  <2>3. Grows(db, db') /\ (db'.legacy => db'.certs = {})
    BY <2>2 DEF Grows, Inv, OldIsBare
  <2>4. /\ pc' \in [Procs -> Steps] /\ next' \in [Procs -> 1..Len(Columns)]
        /\ pc' = [pc EXCEPT ![p] = "serving"] /\ next' = [next EXCEPT ![p] = next'[p]]
        /\ next'[p] = 1
    BY <1>1, <1>3, Moved DEF Inv, CreateAdmin, GoTo
  <2>5. db.tables = AllTables /\ ~db.legacy /\ db.cols = AllColumns
    BY <1>1 DEF Inv, Progress, Done, Complete, Beyond
  <2>6. Done(db', "serving", next'[p])
    BY <2>2, <2>5 DEF Done
  <2>. QED BY <1>1, <2>1, <2>2, <2>3, <2>4, <2>6, Stepped
<1>. QED BY <1>2, <1>3

\* What requests write: only rows.
LEMMA Served ==
  ASSUME Inv, NEW p \in Procs, Request(p)
  PROVE  /\ db' \in Db /\ db'.cols = db.cols /\ db'.tables = db.tables
         /\ db'.legacy = db.legacy /\ db'.admin = db.admin
         /\ lock' = lock /\ work' = work /\ lock \in {Nobody, p}
<1>1. PICK u \in Users :
        \/ \E c \in SUBSET {u} :
             Write(p, [db EXCEPT !.meta = @ \union {u}, !.certs = @ \union c])
        \/ Write(p, [db EXCEPT !.acts = @ \union {u}])
        \/ Write(p, [db EXCEPT !.meta = @ \ {u}, !.acts = @ \ {u}, !.certs = @ \ {u}])
  BY DEF Request
<1>2. db \in [tables : SUBSET AllTables, legacy : BOOLEAN, cols : SUBSET AllColumns,
             meta : SUBSET Users, acts : SUBSET Users, certs : SUBSET Users,
             admin : BOOLEAN]
  BY DEF Inv, TypeOK, Db
<1>3. CASE \E c \in SUBSET {u} :
             Write(p, [db EXCEPT !.meta = @ \union {u}, !.certs = @ \union c])
  <2>1. PICK c \in SUBSET {u} :
          Write(p, [db EXCEPT !.meta = @ \union {u}, !.certs = @ \union c])
    BY <1>3
  <2>. DEFINE M == db.meta \union {u}
              C == db.certs \union c
  <2>2. M \in SUBSET Users /\ C \in SUBSET Users
    BY <1>2
  <2>3. /\ db' = [db EXCEPT !.meta = M, !.certs = C]
        /\ lock' = lock /\ work' = work /\ lock \in {Nobody, p}
    BY <1>2, <2>1 DEF Write, Free
  <2>. HIDE DEF M, C
  <2>. QED BY <1>2, <2>2, <2>3 DEF Db
<1>4. CASE Write(p, [db EXCEPT !.acts = @ \union {u}])
  <2>. DEFINE A == db.acts \union {u}
  <2>1. A \in SUBSET Users
    BY <1>2
  <2>2. /\ db' = [db EXCEPT !.acts = A]
        /\ lock' = lock /\ work' = work /\ lock \in {Nobody, p}
    BY <1>2, <1>4 DEF Write, Free
  <2>. HIDE DEF A
  <2>. QED BY <1>2, <2>1, <2>2 DEF Db
<1>5. CASE Write(p, [db EXCEPT !.meta = @ \ {u}, !.acts = @ \ {u}, !.certs = @ \ {u}])
  <2>. DEFINE M == db.meta \ {u}
              A == db.acts \ {u}
              C == db.certs \ {u}
  <2>1. M \in SUBSET Users /\ A \in SUBSET Users /\ C \in SUBSET Users
    BY <1>2
  <2>2. /\ db' = [db EXCEPT !.meta = M, !.acts = A, !.certs = C]
        /\ lock' = lock /\ work' = work /\ lock \in {Nobody, p}
    BY <1>2, <1>5 DEF Write, Free
  <2>. HIDE DEF M, A, C
  <2>. QED BY <1>2, <2>1, <2>2 DEF Db
<1>. QED BY <1>1, <1>3, <1>4, <1>5

LEMMA RequestInv ==
  ASSUME Inv, NEW p \in Procs, Request(p)
  PROVE  Inv'
<1>1. /\ pc[p] = "serving" /\ pc' = pc /\ next' = next /\ faults' \in Nat
      /\ "serving" \in Steps \ Rebuilding
  BY DEF Request, At, Steps, Rebuilding, Inv, TypeOK
<1>2. /\ ~db.legacy /\ Done(db, "serving", next[p])
  BY <1>1 DEF Inv, Progress, Done, Beyond
<1>3. Done(db', "serving", next'[p]) /\ Grows(db, db') /\ ~db'.legacy
  BY <1>1, <1>2, Served DEF Done, Grows
<1>4. /\ pc' \in [Procs -> Steps] /\ next' \in [Procs -> 1..Len(Columns)]
      /\ pc' = [pc EXCEPT ![p] = "serving"] /\ next' = [next EXCEPT ![p] = next'[p]]
  BY <1>1 DEF Inv, TypeOK
<1>. QED BY <1>1, <1>3, <1>4, Served, Stepped

LEMMA FailInv ==
  ASSUME Inv, NEW p \in Procs, Fail(p)
  PROVE  Inv'
BY ExitInv DEF Fail, Inv, TypeOK

----------------------------------------------------------------------------
LEMMA InitInv ==
  ASSUME Init
  PROVE  Inv
<1>1. TypeOK
  BY MigrationAssumption, Lists DEF Init, TypeOK, Steps
<1>2. Transaction
  BY MigrationAssumption DEF Init, Transaction, Rebuilding
<1>3. Progress
  BY DEF Init, Progress, Done, Beyond, Complete
<1>4. OldIsBare
  BY MigrationAssumption DEF Init, OldIsBare
<1>. QED BY <1>1, <1>2, <1>3, <1>4 DEF Inv

LEMMA NextInv ==
  ASSUME Inv, [Next]_vars
  PROVE  Inv'
<1>1. ASSUME NEW p \in Procs, StartUp(p)
      PROVE  Inv'
  BY <1>1, StartInv, CreateTableInv, CheckLegacyInv, CreateNewInv, CopyRowsInv, DropOldInv,
     RenameInv, CommitInv, CheckColumnInv, AddColumnInv, CountAdminsInv, CreateAdminInv
     DEF StartUp, Migrate, Rebuild
<1>2. CASE UNCHANGED vars
  BY <1>2 DEF vars, Inv, TypeOK, Transaction, Progress, OldIsBare
<1>. QED BY <1>1, <1>2, RequestInv, FailInv DEF Next

LEMMA AlwaysInv == Spec => []Inv
BY InitInv, NextInv, PTL DEF Spec

\* The database and the processes are always in states of their types.
THEOREM MigrationTypeCorrect == Spec => []TypeOK
<1>1. Inv => TypeOK
  BY DEF Inv
<1>. QED BY <1>1, AlwaysInv, PTL

\* store.Open returns a database of the present schema whatever was found and however
\* many processes start, fail and serve beside it.
THEOREM AlwaysMigrated == Spec => []ServesMigrated
<1>1. Inv => ServesMigrated
  BY DEF Inv, Progress, Done, ServesMigrated, Migrated, At, Beyond, Complete
<1>. QED BY <1>1, AlwaysInv, PTL

\* What the steps of a start keep.
LEMMA StepLosesNothing ==
  ASSUME Inv, NEW p \in Procs, StartUp(p) \/ Fail(p)
  PROVE  /\ db'.meta = db.meta /\ db'.certs = db.certs
         /\ db.acts \subseteq db'.acts \/ db.legacy
<1>1. db \in Db
  BY DEF Inv, TypeOK
<1>2. CASE Commit(p)
  <2>1. db' = [Dropped(db) EXCEPT !.legacy = FALSE] /\ db.legacy
    BY <1>2 DEF Commit, At, Inv, Transaction
  <2>. QED BY <1>1, <2>1, RenamedDb DEF Inv, OldIsBare
<1>3. CASE CreateTable(p)
  <2>1. db' = WithTable(db, Schema[next[p]])
    BY <1>3 DEF CreateTable, Write
  <2>2. \A t, k : LET e == [db EXCEPT !.tables = t, !.cols = k]
                 IN e.meta = db.meta /\ e.certs = db.certs /\ e.acts = db.acts
    BY <1>1 DEF Db
  <2>. QED BY <2>1, <2>2 DEF WithTable
<1>4. CASE AddColumn(p)
  <2>1. db' = db \/ db' = [db EXCEPT !.cols = @ \union {Columns[next[p]]}]
    BY <1>4 DEF AddColumn, Write, Exit
  <2>. QED BY <1>1, <2>1 DEF Db
<1>5. CASE CreateAdmin(p)
  <2>1. db' = db \/ db' = [db EXCEPT !.admin = TRUE]
    BY <1>5 DEF CreateAdmin, Write, Exit
  <2>. QED BY <1>1, <2>1 DEF Db
<1>6. CASE \/ Start(p) \/ CheckLegacy(p) \/ CreateNew(p) \/ CopyRows(p) \/ DropOld(p)
           \/ Rename(p) \/ CheckColumn(p) \/ CountAdmins(p) \/ Fail(p)
  <2>1. db' = db
    BY <1>6 DEF Start, CheckLegacy, CreateNew, CopyRows, DropOld, Rename, CheckColumn,
                CountAdmins, Fail, Exit
  <2>. QED BY <2>1
<1>. QED BY <1>2, <1>3, <1>4, <1>5, <1>6 DEF StartUp, Migrate, Rebuild

\* No start loses a user or a certificate, and only the rebuild of the old table loses
\* activations.
THEOREM StartsKeepRows == Spec => StartsLoseNothing
<1>1. ASSUME Inv, [Next]_vars
      PROVE  [\A p \in Procs : pc'[p] # pc[p] \/ next'[p] # next[p] =>
                /\ db'.meta = db.meta /\ db'.certs = db.certs
                /\ db.acts \subseteq db'.acts \/ db.legacy]_vars
  <2>1. CASE \E p \in Procs : StartUp(p) \/ Fail(p)
    BY <1>1, <2>1, StepLosesNothing
  <2>2. CASE \E p \in Procs : Request(p)
    BY <2>2 DEF Request
  <2>3. CASE UNCHANGED vars
    BY <2>3
  <2>. QED BY <1>1, <2>1, <2>2, <2>3 DEF Next
<1>. QED BY <1>1, AlwaysInv, PTL DEF Spec, StartsLoseNothing
=============================================================================
