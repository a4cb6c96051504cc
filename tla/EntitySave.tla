----------------------------- MODULE EntitySave -----------------------------
(***************************************************************************)
(* repository.save(entity) of TypeORM, as UsersService and RolesService    *)
(* use it: SELECT what is stored, compare it with the entity, then in one  *)
(* transaction write the columns and the junction rows that differ.        *)
(* `stored` is what the transaction finds, `read` what the SELECT found.   *)
(***************************************************************************)

(* An UPDATE names only the columns in which the entity differs from what  *)
(* was read.                                                               *)
WrittenColumn(stored, read, entity) == IF entity = read THEN stored ELSE entity

(* Junction rows the entity has and the SELECT did not find are inserted,  *)
(* those it found and the entity lacks are deleted.                        *)
Inserted(read, entity) == entity \ read
Deleted(read, entity) == read \ entity
WrittenRelation(stored, read, entity) ==
  (stored \ Deleted(read, entity)) \cup Inserted(read, entity)

(* A junction row refers to an existing row, and its primary key is free.  *)
Insertable(stored, read, entity, existing) ==
  /\ Inserted(read, entity) \subseteq existing
  /\ Inserted(read, entity) \cap stored = {}
=============================================================================
