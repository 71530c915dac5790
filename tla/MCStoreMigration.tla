-------------------------- MODULE MCStoreMigration --------------------------
(***************************************************************************)
(* Instances of StoreMigration for TLC.                                    *)
(***************************************************************************)
EXTENDS StoreMigration, FiniteSets

CONSTANTS x, y

Empty == [tables |-> {}, legacy |-> FALSE, cols |-> {}, meta |-> {}, acts |-> {},
          certs |-> {}, admin |-> FALSE]

\* Before certificates; with the columns of db/migrations/001 added by hand, some
\* or all; as the first version had it; and as it is today.
Old == [Empty EXCEPT !.tables = AllTables, !.meta = {x}, !.acts = {x}, !.admin = TRUE]
Legacy == [Old EXCEPT !.legacy = TRUE]
Present == [Old EXCEPT !.cols = AllColumns, !.certs = {x}]

Found ==
  {Empty, Old, [Old EXCEPT !.cols = {Columns[1], Columns[3]}], Legacy,
   [Legacy EXCEPT !.cols = AllColumns],
   [Legacy EXCEPT !.tables = {"vpn_user_meta"}, !.acts = {}, !.admin = FALSE], Present}
=============================================================================
