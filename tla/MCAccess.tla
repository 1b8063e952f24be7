----------------------------- MODULE MCAccess ------------------------------
(* Small instances of Access.                                              *)
EXTENDS Access, TLC

Symmetry == Permutations(Requests) \cup Permutations(Keys) \cup Permutations(Users)
              \cup Permutations(Emails)

\* Bound: no action but for MaxRows reads keys and anything of passkeys or GitHub, so the
\* run does not go on from a state that has both.
KeysAlone ==
    (\E k \in Keys : key[k] # None) =>
       /\ \A x \in Accounts : link[x] = None
       /\ \A x \in Passkeys : passkey[x] = None
       /\ \A x \in Challenges : challenge[x] = None
       /\ \A x \in States : state[x] = "gone"
=============================================================================
