---------------------------- MODULE AdminTables ----------------------------
(***************************************************************************)
(* One table of the database as the admin service serves it: the handlers  *)
(* of /table/:schema/:name (admin/src/handlers.ts) over admin/src/db.ts,   *)
(* next to whoever else writes to it.  A row is a primary key and one text *)
(* column.  A handler reads the catalog first (getTableShape) and then     *)
(* runs its statements; a table that is missing, a view, an unknown column *)
(* and a rejected statement all end in an error, which may come to any     *)
(* request.                                                                *)
(***************************************************************************)
EXTENDS Naturals, FiniteSets

CONSTANTS Ids,        \* primary keys, in order
          Page        \* rows asked for at once

ASSUME TableAssumption == Ids \subseteq Nat /\ IsFiniteSet(Ids) /\ Page \in Nat \ {0}

\* Contents of the column: NULL, and texts that the editor treats each its
\* own way: an empty one, a plain one, one that reads as the number 7, and "7".
Null == "NULL"
Vals == {Null, "", "abc", "007", "7"}

VARIABLES table,    \* [live ids -> Vals]
          writes    \* writes that others have left: a bound

tableVars == <<table, writes>>

InitTable == table = [id \in Ids |-> "abc"]

Live == DOMAIN table

\* The rows that come after exactly n others.
RankedAt(n) == {id \in Live : Cardinality({k \in Live : k < id}) = n}

\* selectTable: ORDER BY the key LIMIT Page OFFSET offset.
selectTable(offset) ==
  [i \in {j \in 1..Page : RankedAt(offset + j - 1) # {}} |->
     LET id == CHOOSE id \in RankedAt(offset + i - 1) : TRUE
     IN [id |-> id, val |-> table[id]]]

Put(id, val) == [i \in Live \cup {id} |-> IF i = id THEN val ELSE table[i]]
Without(id) == [i \in Live \ {id} |-> table[i]]

\* The statements and what they leave; none matches a row that is gone.
insertRow(id, val) == Put(id, val)
updateRows(id, val) == IF id \in Live THEN Put(id, val) ELSE table
deleteRows(id) == Without(id)

\* Applications and other operators write as they please.
OthersWrite(id, val) ==
  /\ writes > 0 /\ writes' = writes - 1
  /\ \/ table' = Put(id, val)
     \/ id \in Live /\ table' = Without(id)
  /\ table' # table
=============================================================================
