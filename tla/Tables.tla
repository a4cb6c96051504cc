------------------------------- MODULE Tables -------------------------------
(***************************************************************************)
(* A database table keyed by its primary key is a function whose domain is *)
(* the set of keys in use.  An INSERT enlarges the domain, an UPDATE maps   *)
(* the rows its WHERE clause selects.                                      *)
(***************************************************************************)
IsTable(table, Key, Row) ==
  DOMAIN table \subseteq Key /\ table \in [DOMAIN table -> Row]

EmptyTable == [k \in {} |-> {}]

Insert(table, key, row) ==
  [k \in DOMAIN table \cup {key} |-> IF k = key THEN row ELSE table[k]]
=============================================================================
