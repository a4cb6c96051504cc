----------------------------- MODULE MCAccounts -----------------------------
(***************************************************************************)
(* Instances of Accounts for TLC.  Passwords, names, files and requests    *)
(* are model values that nothing orders; users and roles are not, since    *)
(* the seed's email and the two roles of the migration are named.          *)
(***************************************************************************)
EXTENDS Accounts, TLC

EditCalls == {"create", "update", "updatePassword"}
AllCalls == EditCalls \cup {"updateAvatar", "assignRoles", "removeRole", "addRole", "seed"}

Symmetry == Permutations(Password) \cup Permutations(Name) \cup Permutations(File)
              \cup Permutations(Request)
=============================================================================
