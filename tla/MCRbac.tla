------------------------------- MODULE MCRbac -------------------------------
(* Small instances of Rbac: the administrator's role has both permissions.  *)
EXTENDS Rbac, TLC

MCDefaults == [r \in BuiltIn |-> IF r = Admin THEN Code ELSE {}]
MCAsked == {{}, {ManageUsers}, {ManageRoles, Unknown}}
Symmetry == Permutations(Worker)
=============================================================================
