------------------------------ MODULE MCTools ------------------------------
(* Small instances of Tools.                                               *)
EXTENDS Tools, TLC

Symmetry == Permutations(Todos) \cup Permutations(Titles) \cup Permutations(Notes)
            \cup Permutations(Agents)
=============================================================================
