--------------------------- MODULE StoreMigration ---------------------------
(***************************************************************************)
(* The start of the panel: store.Open brings the database to the present   *)
(* schema, BootstrapAdmin sees to an administrator, then requests are      *)
(* served (cmd/server/main.go, store.go, schema.sql, bootstrap.go).        *)
(*                                                                         *)
(* A process may die anywhere and is started again; nothing keeps two      *)
(* processes from one database.  Statements outside the rebuild of         *)
(* vpn_user_meta are transactions of their own.                            *)
(***************************************************************************)
EXTENDS Sequences, Naturals

CONSTANTS
  Procs,       \* processes of the panel
  Nobody,      \* no process
  NoWork,      \* no transaction
  Users,       \* names in vpn_user_meta
  Founders,    \* the databases that a start may find
  Configured,  \* ADMIN_PASSWORD is set, and not to change-me
  MaxFaults    \* bound: statements that fail and processes that die

\* The tables of schema.sql in its order, and the columns that are added in theirs.
Schema  == <<"managers", "panel_admins", "vpn_user_meta", "profile_activations">>
Columns == <<[table |-> "managers", col |-> "cert_title"],
             [table |-> "managers", col |-> "cert_key_pass"],
             [table |-> "vpn_user_meta", col |-> "cert_title"],
             [table |-> "vpn_user_meta", col |-> "cert_key_pass"]>>

AllTables  == {Schema[i] : i \in DOMAIN Schema}
AllColumns == {Columns[i] : i \in DOMAIN Columns}
ColumnsOf(table) == {k \in AllColumns : k.table = table}

\* legacy: vpn_user_meta has local_name, contact_phone and contact_note; meta: its
\* rows; acts, certs: the users with activations and with a certificate.
Db == [tables : SUBSET AllTables, legacy : BOOLEAN, cols : SUBSET AllColumns,
       meta : SUBSET Users, acts : SUBSET Users, certs : SUBSET Users,
       admin : BOOLEAN]

\* The foreign key, and columns only of tables.
Sound(d) ==
  /\ d.acts \subseteq d.meta /\ d.certs \subseteq d.meta
  /\ d.legacy => "vpn_user_meta" \in d.tables
  /\ \A k \in d.cols : k.table \in d.tables
  /\ d.meta # {} => "vpn_user_meta" \in d.tables

Steps == {"off", "schema", "checkLegacy", "create", "copy", "drop", "rename",
          "commit", "checkColumn", "addColumn", "countAdmins", "createAdmin",
          "serving"}

ASSUME MigrationAssumption ==
  /\ Founders \subseteq Db
  /\ \A d \in Founders : Sound(d) /\ (d.legacy => d.certs = {})
  /\ Nobody \notin Procs /\ NoWork \notin Db
  /\ Configured \in BOOLEAN /\ MaxFaults \in Nat

VARIABLES
  db,      \* the database as committed
  work,    \* of each process, the database as its transaction has it
  lock,    \* the process that writes in a transaction
  pc,
  next,    \* the place in Schema or Columns
  faults

vars == <<db, work, lock, pc, next, faults>>

TypeOK ==
  /\ db \in Db
  /\ work \in [Procs -> Db \union {NoWork}]
  /\ lock \in Procs \union {Nobody}
  /\ pc \in [Procs -> Steps]
  /\ next \in [Procs -> 1..Len(Columns)]
  /\ faults \in Nat

----------------------------------------------------------------------------
At(p, step) == pc[p] = step
GoTo(p, step) == pc' = [pc EXCEPT ![p] = step] /\ next' = [next EXCEPT ![p] = 1]

\* The transaction of p, if there is one, is over.
Release(p) ==
  /\ lock' = IF lock = p THEN Nobody ELSE lock
  /\ work' = [work EXCEPT ![p] = NoWork]

\* The process ends with status 1.
Exit(p) == GoTo(p, "off") /\ Release(p) /\ UNCHANGED db

Free(p) == lock \in {Nobody, p}

Start(p) ==
  /\ At(p, "off") /\ GoTo(p, "schema")
  /\ UNCHANGED <<db, work, lock, faults>>

\* A statement that writes what d has become; it waits for the lock or fails.
Write(p, d) ==
  /\ Free(p) /\ db' = d /\ UNCHANGED <<work, lock>>

Advance(p, list, step) ==
  IF next[p] < Len(list)
  THEN next' = [next EXCEPT ![p] = @ + 1] /\ UNCHANGED pc
  ELSE GoTo(p, step)

----------------------------------------------------------------------------
(* migrate.                                                                *)

\* CREATE TABLE IF NOT EXISTS.
WithTable(d, t) ==
  IF t \in d.tables THEN d
  ELSE [d EXCEPT !.tables = @ \union {t}, !.cols = @ \union ColumnsOf(t)]

CreateTable(p) ==
  /\ At(p, "schema")
  /\ Write(p, WithTable(db, Schema[next[p]]))
  /\ Advance(p, Schema, "checkLegacy") /\ UNCHANGED faults

\* migrateVPNMetaContactInfo, in one transaction.
CheckLegacy(p) ==
  /\ At(p, "checkLegacy")
  /\ GoTo(p, IF db.legacy THEN "create" ELSE "checkColumn")
  /\ UNCHANGED <<db, work, lock, faults>>

\* CREATE TABLE vpn_user_meta_new takes the lock.
CreateNew(p) ==
  /\ At(p, "create") /\ Free(p)
  /\ work' = [work EXCEPT ![p] = db] /\ lock' = p
  /\ GoTo(p, "copy") /\ UNCHANGED <<db, faults>>

\* The SELECT names contact_note, which is gone if another process was faster.
CopyRows(p) ==
  /\ At(p, "copy")
  /\ IF work[p].legacy THEN GoTo(p, "drop") /\ UNCHANGED <<db, work, lock>>
                       ELSE Exit(p)
  /\ UNCHANGED faults

\* The copy has no certificates.  DROP TABLE deletes the rows first, and
\* foreign_keys(1) cascades to profile_activations.
Dropped(d) ==
  [d EXCEPT !.acts = {}, !.certs = {}, !.cols = @ \ ColumnsOf("vpn_user_meta")]

\* Mutant of DropOld: outside the transaction.
DropOldNow(p) ==
  /\ At(p, "drop")
  /\ db' = [Dropped(db) EXCEPT !.meta = {}]
  /\ work' = [work EXCEPT ![p] = Dropped(@)]
  /\ GoTo(p, "rename") /\ UNCHANGED <<lock, faults>>
DropOld(p) ==
  /\ At(p, "drop")
  /\ work' = [work EXCEPT ![p] = Dropped(@)]
  /\ GoTo(p, "rename") /\ UNCHANGED <<db, lock, faults>>

Rename(p) ==
  /\ At(p, "rename")
  /\ work' = [work EXCEPT ![p] = [@ EXCEPT !.legacy = FALSE]]
  /\ GoTo(p, "commit") /\ UNCHANGED <<db, lock, faults>>

Commit(p) ==
  /\ At(p, "commit")
  /\ db' = work[p] /\ Release(p)
  /\ GoTo(p, "checkColumn") /\ UNCHANGED faults

\* Mutants of HasColumn: one of the first table does for both; the column is added
\* without a look.
HasColumnNever(k) == FALSE
HasColumnAnywhere(k) == \E t \in AllTables : [k EXCEPT !.table = t] \in db.cols
HasColumn(k) == k \in db.cols

\* migrateCertificateColumns.
CheckColumn(p) ==
  /\ At(p, "checkColumn")
  /\ IF HasColumn(Columns[next[p]]) THEN Advance(p, Columns, "countAdmins")
     ELSE pc' = [pc EXCEPT ![p] = "addColumn"] /\ UNCHANGED next
  /\ UNCHANGED <<db, work, lock, faults>>

\* ALTER TABLE fails if another process has added the column since.
AddColumn(p) ==
  LET k == Columns[next[p]]
  IN /\ At(p, "addColumn") /\ Free(p)
     /\ IF k \in db.cols THEN Exit(p)
        ELSE /\ Write(p, [db EXCEPT !.cols = @ \union {k}])
             /\ IF next[p] < Len(Columns)
                THEN /\ pc' = [pc EXCEPT ![p] = "checkColumn"]
                     /\ next' = [next EXCEPT ![p] = @ + 1]
                ELSE GoTo(p, "countAdmins")
     /\ UNCHANGED faults

----------------------------------------------------------------------------
(* BootstrapAdmin, and the requests.                                       *)

CountAdmins(p) ==
  /\ At(p, "countAdmins")
  /\ GoTo(p, IF db.admin \/ ~Configured THEN "serving" ELSE "createAdmin")
  /\ UNCHANGED <<db, work, lock, faults>>

\* The name of the administrator is unique.
CreateAdmin(p) ==
  /\ At(p, "createAdmin") /\ Free(p)
  /\ IF db.admin THEN Exit(p)
     ELSE Write(p, [db EXCEPT !.admin = TRUE]) /\ GoTo(p, "serving")
  /\ UNCHANGED faults

\* Users come with or without a certificate, get activations and are deleted with
\* them.
Request(p) ==
  /\ At(p, "serving")
  /\ \E u \in Users :
       \/ /\ u \notin db.meta
          /\ \E c \in SUBSET {u} :
               Write(p, [db EXCEPT !.meta = @ \union {u}, !.certs = @ \union c])
       \/ u \in db.meta \ db.acts /\ Write(p, [db EXCEPT !.acts = @ \union {u}])
       \/ u \in db.meta /\ Write(p, [db EXCEPT !.meta = @ \ {u}, !.acts = @ \ {u},
                                               !.certs = @ \ {u}])
  /\ UNCHANGED <<pc, next, faults>>

\* A statement fails (the disk is full, the database is locked), the process dies
\* or is stopped.
Fail(p) ==
  /\ ~At(p, "off") /\ faults < MaxFaults /\ faults' = faults + 1
  /\ Exit(p)

----------------------------------------------------------------------------
Init ==
  /\ db \in Founders
  /\ work = [p \in Procs |-> NoWork]
  /\ lock = Nobody
  /\ pc = [p \in Procs |-> "off"]
  /\ next = [p \in Procs |-> 1]
  /\ faults = 0

Rebuild(p) == CreateNew(p) \/ CopyRows(p) \/ DropOld(p) \/ Rename(p) \/ Commit(p)
Migrate(p) == CreateTable(p) \/ CheckLegacy(p) \/ Rebuild(p)
                \/ CheckColumn(p) \/ AddColumn(p)
StartUp(p) == Start(p) \/ Migrate(p) \/ CountAdmins(p) \/ CreateAdmin(p)

Next == \E p \in Procs : StartUp(p) \/ Request(p) \/ Fail(p)

Spec == Init /\ [][Next]_vars

\* Whoever runs the panel starts it again, and a start goes on.
FairSpec == Spec /\ \A p \in Procs : WF_vars(StartUp(p))

----------------------------------------------------------------------------
(* Properties.                                                             *)

Migrated(d) == d.tables = AllTables /\ d.cols = AllColumns /\ ~d.legacy

\* A panel that serves has the present schema and an administrator, wherever
\* earlier starts ended and whatever starts beside it (store.go, migrate; main.go).
ServesMigrated ==
  \A p \in Procs : At(p, "serving") => Migrated(db) /\ (Configured => db.admin)

\* No start loses a user or a certificate, and activations are lost with the
\* old table at most: the rebuild is one transaction.
StartsLoseNothing ==
  [][\A p \in Procs : pc'[p] # pc[p] \/ next'[p] # next[p] =>
       /\ db'.meta = db.meta /\ db'.certs = db.certs
       /\ db.acts \subseteq db'.acts \/ db.legacy]_vars

\* If processes do not die for ever, the panel is up in the end: no end of a start
\* is in the way of the next (the columns are looked for one by one).
ComesUp == <>[](\A p \in Procs : At(p, "serving"))
=============================================================================
