------------------------------- MODULE MCWiki -------------------------------
(* Small instances of Wiki.                                                *)
EXTENDS Wiki, TLC

Symmetry == Permutations(Shared) \cup Permutations(Pages \ Shared) \cup Permutations(Requests)
=============================================================================
