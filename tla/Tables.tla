-------------------------------- MODULE Tables --------------------------------
(***************************************************************************)
(* The part of SQLite the server relies on: a table with an INTEGER        *)
(* PRIMARY KEY (internal/store/db.go) is a function from row ids to rows.  *)
(* Without AUTOINCREMENT the next id is one more than the largest id in    *)
(* the table, so the ids of deleted rows are given out again.              *)
(***************************************************************************)
EXTENDS Naturals, FiniteSetsExt, Functions

EmptyTable == [id \in {} |-> id]

NextRowid(table) == IF DOMAIN table = {} THEN 1 ELSE Max(DOMAIN table) + 1

\* INSERT INTO table.
InsertRow(table, row) ==
  [id \in DOMAIN table \cup {NextRowid(table)} |->
     IF id \in DOMAIN table THEN table[id] ELSE row]

\* DELETE FROM table WHERE id IN ids.
DeleteRows(table, ids) == Restrict(table, DOMAIN table \ ids)

\* The rows of a table for which Test holds: the WHERE of a statement.
RowsWhere(table, Test(_)) == {id \in DOMAIN table : Test(table[id])}

===============================================================================
