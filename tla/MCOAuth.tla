------------------------------ MODULE MCOAuth ------------------------------
(* Small instances of OAuth.                                               *)
EXTENDS OAuth, TLC

Symmetry == Permutations(Users) \cup Permutations(Requests)
=============================================================================
