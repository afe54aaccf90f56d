-------------------------------- MODULE Rows --------------------------------
(***************************************************************************)
(* A table is a function from the ids of its rows to the rows.             *)
(***************************************************************************)
EXTENDS Functions

Put(table, id, row) == [x \in DOMAIN table \cup {id} |-> IF x = id THEN row ELSE table[x]]
Drop(table, ids) == Restrict(table, DOMAIN table \ ids)
=============================================================================
