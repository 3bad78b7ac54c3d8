--------------------------- MODULE MCGroupAccess ----------------------------
(***************************************************************************)
(* Three pages one after the other, as many as it takes to add a group,    *)
(* archive and restore it, while the account leaves and returns.           *)
(***************************************************************************)
EXTENDS GroupAccess, TLC

Symmetry == Permutations(Links)
=============================================================================
