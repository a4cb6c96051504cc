------------------------------- MODULE MCRbac -------------------------------
(***************************************************************************)
(* Instances of Rbac for TLC.  The migration's two roles and its           *)
(* permissions are one role with every permission and one without any.     *)
(***************************************************************************)
EXTENDS Rbac, TLC

CONSTANTS admin, user, adminId, userId, read, manage

Migration == [
  roles |-> adminId :> [name |-> admin, permissions |-> {read}]
         @@ userId :> [name |-> user, permissions |-> {}],
  permissions |-> {read}]

AllCalls == {"createPermission", "create", "remove", "setPermissions"}

Symmetry == Permutations(Request)
=============================================================================
