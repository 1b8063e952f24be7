---------------------------- MODULE MCAuthServer ----------------------------
(* Small instances of AuthServer.                                          *)
EXTENDS AuthServer, TLC

Symmetry == Permutations(Scopes) \cup Permutations(Requests)
=============================================================================
