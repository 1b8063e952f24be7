---------------------------- MODULE MCTaskGraph ----------------------------
(* Small instances of TaskGraph.                                           *)
EXTENDS TaskGraph, TLC

Symmetry == Permutations(Todos) \cup Permutations(Users) \cup Permutations(Titles)

\* Bound: neither graph reads completed_date, so the run over the graphs does
\* not go on from a state in which a task has one.
NotDated == \A t \in Todos : todo[t] # None => ~todo[t].dated
=============================================================================
