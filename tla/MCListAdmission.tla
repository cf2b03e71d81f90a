--------------------------- MODULE MCListAdmission --------------------------
(* A small instance of ListAdmission for TLC.                              *)
EXTENDS ListAdmission, TLC

Symmetry == Permutations(Calls) \union Permutations(Owners)
=============================================================================
