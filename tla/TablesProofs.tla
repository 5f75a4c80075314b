----------------------------- MODULE TablesProofs -----------------------------
(***************************************************************************)
(* Lemmas about the row ids of Tables, for the proofs about the modules    *)
(* whose state is tables.                                                  *)
(***************************************************************************)
EXTENDS Tables, TLAPS, WellFoundedInduction

\* A table of the database: row ids are numbers, and there is a largest one.
IsTable(table) == \E bound \in Nat : DOMAIN table \subseteq 0..bound

\* A set of numbers with a bound has a largest member.
LEMMA LargestMember ==
  ASSUME NEW S, NEW bound \in Nat, S \subseteq 0..bound, S # {}
  PROVE  \E m \in S : \A n \in S : m >= n
<1> DEFINE Bounds == {b \in Nat : \A n \in S : b >= n}
<1>1. bound \in Bounds
  OBVIOUS
<1>2. PICK b \in Bounds : \A c \in Bounds : ~(<<c, b>> \in OpToRel(<, Nat))
  BY <1>1, NatLessThanWellFounded, WFMin
<1>3. \A c \in Bounds : ~(c < b)
  BY <1>2 DEF OpToRel
<1>4. CASE b \in S
  BY <1>4
<1>5. CASE b \notin S
  <2>1. \A n \in S : b - 1 >= n
    BY <1>5
  <2>2. PICK n \in S : TRUE
    OBVIOUS
  <2>3. n \in Nat /\ b \in Nat /\ b >= n /\ b # n
    BY <2>2, <1>5
  <2>4. b - 1 \in Nat
    BY <2>3
  <2>5. b - 1 \in Bounds
    BY <2>1, <2>4
  <2>6. QED
    BY <2>5, <2>3, <1>3
<1>6. QED
  BY <1>4, <1>5

\* The id of the next row is a number greater than that of every other row.
LEMMA NextRowidIsFresh ==
  ASSUME NEW table, IsTable(table)
  PROVE  /\ NextRowid(table) \in Nat
         /\ \A id \in DOMAIN table : id \in Nat /\ id < NextRowid(table)
         /\ NextRowid(table) \notin DOMAIN table
<1>1. CASE DOMAIN table = {}
  BY <1>1 DEF NextRowid
<1>2. CASE DOMAIN table # {}
  <2>1. PICK bound \in Nat : DOMAIN table \subseteq 0..bound
    BY DEF IsTable
  <2>2. \E m \in DOMAIN table : \A n \in DOMAIN table : m >= n
    BY <2>1, <1>2, LargestMember
  <2> QED
    BY <2>1, <2>2, <1>2 DEF NextRowid, Max
<1>3. QED
  BY <1>1, <1>2

\* Inserting a row keeps the others and puts it under the new id.
LEMMA InsertedRow ==
  ASSUME NEW table, NEW row, IsTable(table)
  PROVE  /\ IsTable(InsertRow(table, row))
         /\ DOMAIN InsertRow(table, row) = DOMAIN table \cup {NextRowid(table)}
         /\ \A id \in DOMAIN table : InsertRow(table, row)[id] = table[id]
         /\ InsertRow(table, row)[NextRowid(table)] = row
<1>1. IsTable(InsertRow(table, row))
  <2>1. DOMAIN InsertRow(table, row) \subseteq 0..NextRowid(table)
    BY NextRowidIsFresh DEF InsertRow
  <2>2. QED
    BY <2>1, NextRowidIsFresh DEF IsTable
<1>2. QED
  BY <1>1, NextRowidIsFresh DEF InsertRow

\* Deleting rows keeps the others.
LEMMA DeletedRows ==
  ASSUME NEW table, NEW ids, IsTable(table)
  PROVE  /\ IsTable(DeleteRows(table, ids))
         /\ DOMAIN DeleteRows(table, ids) = DOMAIN table \ ids
         /\ \A id \in DOMAIN table \ ids : DeleteRows(table, ids)[id] = table[id]
<1>1. DeleteRows(table, ids) = [id \in DOMAIN table \ ids |-> table[id]]
  BY DEF DeleteRows, Restrict
<1>2. QED
  BY <1>1 DEF IsTable

\* A table whose rows are changed in place, or that is empty, is a table.
LEMMA SameIds ==
  ASSUME NEW table, NEW other, IsTable(table), DOMAIN other = DOMAIN table
  PROVE  IsTable(other)
BY DEF IsTable

LEMMA NoRows == IsTable(EmptyTable) /\ DOMAIN EmptyTable = {}
BY DEF IsTable, EmptyTable

===============================================================================
