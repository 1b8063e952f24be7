------------------------------ MODULE MCRelay ------------------------------
(* Small instances of Relay.                                               *)
EXTENDS Relay, TLC

Symmetry == Permutations(Channels) \cup Permutations(Waiters) \cup Permutations(Senders)
=============================================================================
