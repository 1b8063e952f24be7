--------------------------- MODULE AccountProofs ----------------------------
(***************************************************************************)
(* Theorems about how people get in and how they registered: about Access  *)
(* for any users, states, challenges, passkeys and keys, and about         *)
(* Registration for any codes, addresses and max_uses, both for any number *)
(* of overlapping requests.                                                *)
(***************************************************************************)
EXTENDS Access, Registration, FiniteSetTheorems, TLAPS

\* What a request in progress carries, by its kind.
Carries(q) ==
    /\ q.op \in {"idle", "password", "newpassword", "changed", "newkey"} => q.item = None
    /\ q.op \in {"passkey", "newpasskey"} => q.item \in Challenges /\ q.what \in Passkeys
    /\ q.op \in {"github", "link", "create"} => q.item \in States
    /\ q.op = "link" => q.what \in Accounts
    /\ q.op = "create" => q.what \in Accounts \X Emails
    /\ q.op \notin {"idle", "github"} => q.user \in Users

\* A state or challenge is in one place: its table, or one request (a state that a
\* request holds is still in the table); while it is anywhere it has done nothing.
OnePlace ==
    /\ \A r, s \in Requests : req[r].item # None /\ req[r].item = req[s].item => r = s
    /\ \A r \in Requests : req[r].item \in States => state[req[r].item] = "stored"
    /\ \A r \in Requests : req[r].item \in Challenges => challenge[req[r].item] = None
    /\ \A r \in Requests : req[r].item # None => used[req[r].item] = 0
    /\ \A s \in States : state[s] = "stored" => used[s] = 0
    /\ \A c \in Challenges : challenge[c] # None => used[c] = 0

\* A request that has read the keys of a user and, were the keys K all there are, would
\* find room for another.
Creators(u, K) ==
    {r \in Requests : /\ req[r].op = "newkey" /\ req[r].user = u
                      /\ Cardinality(req[r].seen \cap K) < MaxKeys}

\* Deletions can bring the limit back for requests that began above it.  Whichever of the
\* keys are deleted first, what is left and those that may still add to it are bounded.
KeysWithCreators ==
    \A u \in Users : \A K \in SUBSET KeysOf(u) :
        Cardinality(K) >= MaxKeys =>
          Cardinality(K) + Cardinality(Creators(u, K)) < MaxKeys + Cardinality(Requests)

\* One change of a user's password commits at a time, and from its deletion of the sessions
\* on none of the user's is of a login that it does not overlap.
Ends ==
    /\ ChangeEndsSessions
    /\ \A s \in session : s.end = "none" => ~Changing(s.user)
    /\ \A q, r \in Requests :
         req[q].op = "changed" /\ req[r].op = "changed" /\ req[q].user = req[r].user => q = r

Inv == /\ TypeOK /\ \A r \in Requests : Carries(req[r])
       /\ OnePlace /\ UsedOnce /\ Ends
       /\ KeysWithCreators

-----------------------------------------------------------------------------
(* The bound on keys.                                                      *)

LEMMA CreatorsFinite ==
  ASSUME NEW u, NEW K \in SUBSET Keys
  PROVE  /\ IsFiniteSet(K) /\ Cardinality(K) \in Nat
         /\ IsFiniteSet(Creators(u, K)) /\ Cardinality(Creators(u, K)) \in Nat
         /\ Cardinality(Requests) \in Nat
  <1>1. Creators(u, K) \subseteq Requests
    BY DEF Creators
  <1>2. QED
    BY <1>1, FS_Subset, FS_CardinalityType, AccessAssumption

LEMMA SeenFinite ==
  ASSUME NEW S \in SUBSET Keys, NEW K \in SUBSET Keys
  PROVE  IsFiniteSet(S \cap K) /\ Cardinality(S \cap K) \in Nat
  <1>1. S \cap K \subseteq Keys
    OBVIOUS
  <1>2. QED
    BY <1>1, FS_Subset, FS_CardinalityType, AccessAssumption

\* With no key more, and no request that has read less than all keys of its user, the
\* bound stays.
LEMMA KeysKept ==
  ASSUME Inv,
         \A u \in Users : KeysOf(u)' \subseteq KeysOf(u),
         \A r \in Requests : \/ req'[r] = req[r]
                             \/ req'[r].op # "newkey"
                             \/ req'[r].seen = KeysOf(req'[r].user)
  PROVE  KeysWithCreators'
  <1>1. SUFFICES ASSUME NEW u \in Users, NEW K \in SUBSET KeysOf(u)',
                        Cardinality(K) >= MaxKeys
                 PROVE  Cardinality(K) + Cardinality(Creators(u, K)')
                          < MaxKeys + Cardinality(Requests)
    BY DEF KeysWithCreators
  <1>2. K \in SUBSET KeysOf(u) /\ K \in SUBSET Keys
    BY DEF KeysOf
  <1>3. Creators(u, K)' \subseteq Creators(u, K)
    <2>1. SUFFICES ASSUME NEW r \in Requests, req'[r].op = "newkey", req'[r].user = u,
                          Cardinality(req'[r].seen \cap K) < MaxKeys
                   PROVE  req'[r] = req[r]
      BY DEF Creators
    <2>2. CASE req'[r].seen = KeysOf(u)
      <3>1. req'[r].seen \cap K = K
        BY <1>2, <2>2
      <3>2. Cardinality(K) < MaxKeys
        BY <2>1, <3>1
      <3>3. QED
        BY <1>1, <1>2, <3>2, CreatorsFinite, AccessAssumption
    <2>3. QED
      BY <2>1, <2>2
  <1>4. Cardinality(Creators(u, K)') <= Cardinality(Creators(u, K))
    BY <1>2, <1>3, CreatorsFinite, FS_Subset
  <1>5. Cardinality(Creators(u, K)') \in Nat
    BY <1>2, <1>3, CreatorsFinite, FS_Subset, FS_CardinalityType
  <1>6. Cardinality(K) + Cardinality(Creators(u, K)) < MaxKeys + Cardinality(Requests)
    BY <1>1, <1>2 DEF Inv, KeysWithCreators
  <1>7. QED
    BY <1>2, <1>4, <1>5, <1>6, CreatorsFinite, AccessAssumption

\* The creation of a key takes the room of its request.
LEMMA CreateKeyKeys ==
  ASSUME Inv, NEW r \in Requests, NEW k \in Keys, CreateKey(r, k)
  PROVE  KeysWithCreators'
  <1>1. /\ req[r].op = "newkey" /\ req[r].user \in Users /\ req[r].seen \in SUBSET Keys
        /\ \A s \in Requests : req[s].seen \in SUBSET Keys
    BY DEF Inv, TypeOK, Carries, CreateKey, Finish
  <1>2. /\ \A s \in Requests : req'[s] = IF s = r THEN Idle ELSE req[s]
        /\ Idle.op = "idle"
    BY DEF Inv, TypeOK, CreateKey, Finish, Idle
  <1>3. /\ key[k] = None
        /\ \A j \in Keys : key'[j] = IF j = k THEN req[r].user ELSE key[j]
    BY DEF Inv, TypeOK, CreateKey
  <1>4. Cardinality(req[r].seen \cap KeysOf(req[r].user)) < MaxKeys
    BY DEF CreateKey, UnderLimit
  <1>5. SUFFICES ASSUME NEW u \in Users, NEW K \in SUBSET KeysOf(u)',
                        Cardinality(K) >= MaxKeys
                 PROVE  Cardinality(K) + Cardinality(Creators(u, K)')
                          < MaxKeys + Cardinality(Requests)
    BY DEF KeysWithCreators
  <1> DEFINE old == K \ {k}
  <1>6. K \in SUBSET Keys /\ old \in SUBSET Keys /\ old \in SUBSET KeysOf(u)
    BY <1>3 DEF KeysOf
  <1>7. Creators(u, K)' \subseteq Creators(u, old) \ {r}
    <2>1. SUFFICES ASSUME NEW s \in Requests, s # r, req[s].op = "newkey", req[s].user = u,
                          Cardinality(req[s].seen \cap K) < MaxKeys
                   PROVE  Cardinality(req[s].seen \cap old) < MaxKeys
      BY <1>2 DEF Creators
    <2>2. req[s].seen \cap old \subseteq req[s].seen \cap K
      OBVIOUS
    <2>3. /\ IsFiniteSet(req[s].seen \cap K) /\ Cardinality(req[s].seen \cap K) \in Nat
          /\ Cardinality(req[s].seen \cap old) \in Nat
      BY <1>1, <1>6, SeenFinite
    <2>4. Cardinality(req[s].seen \cap old) <= Cardinality(req[s].seen \cap K)
      BY <2>2, <2>3, FS_Subset
    <2>5. QED
      BY <2>1, <2>3, <2>4, AccessAssumption
  <1>8. Cardinality(Creators(u, K)') \in Nat
    BY <1>6, <1>7, CreatorsFinite, FS_Subset, FS_CardinalityType
  <1>9. CASE k \notin K
    <2>1. old = K
      BY <1>9
    <2>2. Cardinality(Creators(u, K)') <= Cardinality(Creators(u, K))
      BY <1>6, <1>7, <2>1, CreatorsFinite, FS_Subset
    <2>3. Cardinality(K) + Cardinality(Creators(u, K)) < MaxKeys + Cardinality(Requests)
      BY <1>5, <1>6, <2>1 DEF Inv, KeysWithCreators
    <2>4. QED
      BY <1>6, <1>8, <2>2, <2>3, CreatorsFinite, AccessAssumption
  <1>10. CASE k \in K
    <2>1. u = req[r].user
      BY <1>3, <1>10 DEF KeysOf
    <2>2. Cardinality(K) = Cardinality(old) + 1
      <3>1. K = old \cup {k} /\ k \notin old
        BY <1>10
      <3>2. Cardinality(old \cup {k}) = Cardinality(old) + 1
        BY <1>6, <3>1, CreatorsFinite, FS_AddElement
      <3>3. QED
        BY <3>1, <3>2
    <2>3. CASE Cardinality(old) >= MaxKeys
      <3>1. r \in Creators(u, old)
        <4>1. req[r].seen \cap old \subseteq req[r].seen \cap KeysOf(u)
          BY <1>6
        <4>2. /\ IsFiniteSet(req[r].seen \cap KeysOf(u))
              /\ Cardinality(req[r].seen \cap KeysOf(u)) \in Nat
              /\ Cardinality(req[r].seen \cap old) \in Nat
          <5>1. KeysOf(u) \in SUBSET Keys
            BY DEF KeysOf
          <5>2. QED
            BY <1>1, <1>6, <5>1, SeenFinite
        <4>3. Cardinality(req[r].seen \cap old) <= Cardinality(req[r].seen \cap KeysOf(u))
          BY <4>1, <4>2, FS_Subset
        <4>4. Cardinality(req[r].seen \cap old) < MaxKeys
          BY <1>4, <2>1, <4>2, <4>3, AccessAssumption
        <4>5. QED
          BY <1>1, <2>1, <4>4 DEF Creators
      <3>2. /\ IsFiniteSet(Creators(u, old) \ {r})
            /\ Cardinality(Creators(u, old) \ {r}) = Cardinality(Creators(u, old)) - 1
        <4>1. IsFiniteSet(Creators(u, old))
          BY <1>6, CreatorsFinite
        <4>2. QED
          BY <3>1, <4>1, FS_RemoveElement
      <3>3. Cardinality(Creators(u, K)') <= Cardinality(Creators(u, old) \ {r})
        BY <1>7, <3>2, FS_Subset
      <3>4. Cardinality(old) + Cardinality(Creators(u, old)) < MaxKeys + Cardinality(Requests)
        BY <1>6, <2>3 DEF Inv, KeysWithCreators
      <3>5. QED
        BY <1>6, <1>8, <2>2, <3>2, <3>3, <3>4, CreatorsFinite, AccessAssumption
    <2>4. CASE ~(Cardinality(old) >= MaxKeys)
      <3>1. Cardinality(K) = MaxKeys
        BY <1>5, <1>6, <2>2, <2>4, CreatorsFinite, AccessAssumption
      <3>2. Creators(u, K)' \subseteq Requests \ {r}
        BY <1>7 DEF Creators
      <3>3. /\ IsFiniteSet(Requests \ {r})
            /\ Cardinality(Requests \ {r}) = Cardinality(Requests) - 1
        BY FS_RemoveElement, AccessAssumption
      <3>4. Cardinality(Creators(u, K)') <= Cardinality(Requests) - 1
        BY <3>2, <3>3, FS_Subset
      <3>5. QED
        <4>1. Cardinality(Requests) \in Nat
          BY FS_CardinalityType, AccessAssumption
        <4>2. QED
          BY <1>8, <3>1, <3>4, <4>1, AccessAssumption
    <2>5. QED
      BY <2>3, <2>4
  <1>11. QED
    BY <1>9, <1>10

\* What is said of any subset of the keys is the bound when it is said of all of them.
LEMMA KeysBoundedInv == Inv => KeysBounded
  <1> SUFFICES ASSUME Inv, NEW u \in Users
               PROVE  Cardinality(KeysOf(u)) < MaxKeys + Cardinality(Requests)
    BY DEF KeysBounded
  <1>1. KeysOf(u) \in SUBSET Keys
    BY DEF KeysOf
  <1>2. Cardinality(Requests) \in Nat \ {0}
    BY FS_CardinalityType, FS_EmptySet, AccessAssumption
  <1>3. CASE Cardinality(KeysOf(u)) >= MaxKeys
    <2>1. Cardinality(KeysOf(u)) + Cardinality(Creators(u, KeysOf(u)))
            < MaxKeys + Cardinality(Requests)
      BY <1>3 DEF Inv, KeysWithCreators
    <2>2. QED
      BY <1>1, <2>1, CreatorsFinite, AccessAssumption
  <1>4. CASE ~(Cardinality(KeysOf(u)) >= MaxKeys)
    BY <1>1, <1>2, <1>4, CreatorsFinite, AccessAssumption
  <1>5. QED
    BY <1>3, <1>4

-----------------------------------------------------------------------------
(* Sessions, states and challenges.                                        *)

LEMMA InitInv == Init => Inv
  <1> SUFFICES ASSUME Init PROVE Inv
    OBVIOUS
  <1> USE DEF Init
  <1>1. \A r \in Requests : req[r] = Idle
    OBVIOUS
  <1>2. TypeOK
    BY AccessAssumption DEF TypeOK, Idle
  <1>3. (\A r \in Requests : Carries(req[r])) /\ OnePlace
    BY <1>1, AccessAssumption DEF OnePlace, Carries, Idle
  <1>4. UsedOnce /\ Ends
    BY <1>1 DEF UsedOnce, Ends, ChangeEndsSessions, Idle
  <1>5. KeysWithCreators
    <2>1. SUFFICES ASSUME NEW u \in Users, NEW K \in SUBSET KeysOf(u),
                          Cardinality(K) >= MaxKeys
                   PROVE  FALSE
      BY DEF KeysWithCreators
    <2>2. K = {}
      BY AccessAssumption DEF KeysOf
    <2>3. QED
      BY <2>1, <2>2, FS_EmptySet, AccessAssumption
  <1>6. QED
    BY <1>2, <1>3, <1>4, <1>5 DEF Inv

\* The passwords stay, no change of one begins to commit, and a session that is made says
\* whether a change has missed it.
LEMMA SessionsKept ==
  ASSUME Inv, password' = password,
         \A q \in Requests : req'[q].op = "changed" => req'[q] = req[q],
         \/ session' \subseteq session
         \/ \E r \in Requests : req[r].user \in Users /\ NewSession(r)
  PROVE  Ends' /\ session' \subseteq Session
  <1>1. /\ \A u : Changing(u)' => Changing(u)
        /\ (\A q, r \in Requests :
              req[q].op = "changed" /\ req[r].op = "changed" /\ req[q].user = req[r].user
                => q = r)'
    BY DEF Inv, Ends, Changing
  <1>2. CASE session' \subseteq session
    BY <1>1, <1>2 DEF Inv, TypeOK, Ends, ChangeEndsSessions
  <1>3. ASSUME NEW r \in Requests, req[r].user \in Users, NewSession(r)
        PROVE  Ends' /\ session' \subseteq Session
    <2> DEFINE u == req[r].user
               new == [user |-> u, old |-> req[r].old,
                       end |-> IF Changing(u) \/ req[r].old # password[u] THEN "missed"
                               ELSE "none"]
    <2>1. session' = session \cup {new}
      BY <1>3 DEF NewSession
    <2>2. new \in Session
      BY <1>3 DEF Inv, TypeOK, Session
    <2>3. new.end = "none" => new.old = password[new.user] /\ ~Changing(new.user)
      OBVIOUS
    <2> HIDE DEF new
    <2>4. QED
      BY <1>1, <2>1, <2>2, <2>3 DEF Inv, TypeOK, Ends, ChangeEndsSessions
  <1>4. QED
    BY <1>2, <1>3

\* After a change is rolled back, a session of the user is again what its password says.
LEMMA SessionsRestored ==
  ASSUME Inv, NEW users \in SUBSET Users, password' = password,
         session' = Restored(users),
         \A q \in Requests : req'[q].op = "changed" =>
           req'[q] = req[q] /\ req[q].user \notin users
  PROVE  Ends' /\ session' \subseteq Session
  <1> DEFINE new(s) == IF s.user \in users
                       THEN [s EXCEPT !.end = IF s.old = password[s.user] THEN "none" ELSE "missed"]
                       ELSE s
  <1>1. session' = {new(s) : s \in session} /\ session \subseteq Session
    BY DEF Restored, Inv, TypeOK
  <1>2. \A s \in session : /\ new(s) \in Session /\ new(s).user = s.user /\ new(s).old = s.old
                           /\ s.user \in users /\ new(s).end = "none" => s.old = password[s.user]
                           /\ s.user \notin users => new(s) = s
    BY <1>1 DEF Session
  <1> HIDE DEF new
  <1>3. ASSUME NEW s \in session, new(s).end = "none"
        PROVE  /\ new(s).old = password[new(s).user]
               /\ \A q \in Requests : ~(req'[q].op = "changed" /\ req'[q].user = new(s).user)
    <2>1. new(s).user = s.user /\ new(s).old = s.old
      BY <1>2
    <2>2. CASE s.user \in users
      BY <1>2, <1>3, <2>1, <2>2
    <2>3. CASE s.user \notin users
      <3>1. s.old = password[s.user] /\ ~Changing(s.user)
        BY <1>2, <1>3, <2>3 DEF Inv, Ends, ChangeEndsSessions
      <3>2. QED
        BY <2>1, <3>1 DEF Changing
    <2>4. QED
      BY <2>2, <2>3
  <1>4. \A s \in session' : /\ s \in Session
                            /\ s.end = "none" =>
                                 /\ s.old = password[s.user]
                                 /\ \A q \in Requests :
                                      ~(req'[q].op = "changed" /\ req'[q].user = s.user)
    BY <1>1, <1>2, <1>3
  <1>5. (\A q, r \in Requests :
           req[q].op = "changed" /\ req[r].op = "changed" /\ req[q].user = req[r].user => q = r)'
    BY DEF Inv, Ends
  <1>6. QED
    BY <1>4, <1>5 DEF Ends, ChangeEndsSessions, Changing

\* A request is over: what it held is spent, or lost, or, if it is a state, back.
LEMMA FinishInv ==
  ASSUME Inv, NEW r \in Requests, req' = [req EXCEPT ![r] = Idle], challenge' = challenge,
         mail' \in [Users -> Emails \cup {None}],
         password' \in [Users -> 0..MaxChanges],
         session' \subseteq Session,
         link' \in [Accounts -> Users \cup {None}],
         passkey' \in [Passkeys -> Users \cup {None}],
         key' \in [Keys -> Users \cup {None}],
         \/ state' = state
         \/ state' = [state EXCEPT ![req[r].item] = "gone"],
         \/ used' = used
         \/ /\ req[r].item \in States \cup Challenges /\ Spend(r)
            /\ req[r].item \in States => state' = [state EXCEPT ![req[r].item] = "gone"],
         Ends', KeysWithCreators'
  PROVE  Inv'
  <1> DEFINE x == req[r].item
  <1>1. /\ \A s \in Requests : req'[s] = IF s = r THEN Idle ELSE req[s]
        /\ Idle.op = "idle" /\ Idle.item = None
    BY DEF Inv, TypeOK, Idle
  <1>2. Carries(Idle)
    BY DEF Carries, Idle
  <1>3. \A s \in Requests : Carries(req'[s])
    BY <1>1, <1>2 DEF Inv
  <1>4. /\ state' \in [States -> {"gone", "stored"}]
        /\ \A s \in States : state'[s] = state[s] \/ (s = x /\ state'[s] = "gone")
    BY DEF Inv, TypeOK
  <1>5. /\ used' \in [States \cup Challenges -> Nat]
        /\ \/ used' = used
           \/ /\ x \in States \cup Challenges /\ used[x] = 0
              /\ used' = [used EXCEPT ![x] = 1]
              /\ x \in States => state'[x] = "gone"
    BY AccessAssumption DEF Inv, TypeOK, Spend, OnePlace
  <1>6. TypeOK'
    <2>1. req' \in [Requests ->
            [op : {"idle", "password", "passkey", "github", "link", "create",
                   "newpassword", "changed", "newpasskey", "newkey"},
             user : Users \cup {None}, item : States \cup Challenges \cup {None},
             what : Accounts \cup Passkeys \cup (Accounts \X Emails) \cup {None},
             seen : SUBSET Keys, old : 0..MaxChanges]]
      BY AccessAssumption DEF Inv, TypeOK, Idle
    <2>2. QED
      BY <1>4, <1>5, <2>1 DEF Inv, TypeOK
  <1>7. UsedOnce'
    BY <1>5 DEF Inv, TypeOK, UsedOnce
  <1>8. OnePlace'
    <2>1. \A s \in Requests : req'[s].item # None =>
            s # r /\ req'[s] = req[s] /\ req[s].item # x /\ req[s].item \in States \cup Challenges
      BY <1>1 DEF Inv, TypeOK, OnePlace
    <2>2. \A s \in Requests : req'[s].item \in States => state'[req'[s].item] = "stored"
      BY <1>4, <2>1, AccessAssumption DEF Inv, OnePlace
    <2>3. \A s \in Requests : req'[s].item # None => used'[req'[s].item] = 0
      BY <1>5, <2>1 DEF Inv, TypeOK, OnePlace
    <2>4. \A s \in States : state'[s] = "stored" => used'[s] = 0
      BY <1>4, <1>5 DEF Inv, TypeOK, OnePlace
    <2>5. \A c \in Challenges : challenge[c] # None => used'[c] = 0
      BY <1>5, AccessAssumption DEF Inv, TypeOK, OnePlace
    <2>6. QED
      BY <2>1, <2>2, <2>3, <2>4, <2>5, AccessAssumption DEF Inv, OnePlace
  <1>9. QED
    BY <1>3, <1>6, <1>7, <1>8 DEF Inv

\* A request begins, and takes what nobody holds.
LEMMA BeginInv ==
  ASSUME Inv, NEW r \in Requests, NEW op \in {"password", "passkey", "github", "newpassword",
                                              "newpasskey", "newkey"},
         NEW u \in Users \cup {None}, NEW item \in States \cup Challenges \cup {None},
         NEW what \in Passkeys \cup {None},
         Begin(r, op, u, item, what), UNCHANGED <<tables, used>>,
         op # "github" => u \in Users,
         op \in {"password", "newpassword", "newkey"} => item = None,
         op \in {"passkey", "newpasskey"} => item \in Challenges /\ what \in Passkeys,
         op = "github" => item \in States,
         item \in States => state[item] = "stored" /\ \A s \in Requests : req[s].item # item,
         item \in Challenges => challenge[item] # None,
         \/ item \notin Challenges /\ challenge' = challenge
         \/ challenge' = [challenge EXCEPT ![item] = None]
  PROVE  Inv'
  <1> DEFINE q == [op |-> op, user |-> u, item |-> item, what |-> what,
                   seen |-> IF op = "newkey" THEN KeysOf(u) ELSE {},
                   old |-> IF op \in {"password", "passkey"} THEN password[u] ELSE 0]
  <1>1. /\ \A s \in Requests : req'[s] = IF s = r THEN q ELSE req[s]
        /\ req' = [req EXCEPT ![r] = q]
    BY DEF Inv, TypeOK, Begin
  <1>2. UNCHANGED <<mail, password, session, link, passkey, key, state, used>>
    BY DEF tables
  <1>3. q \in [op : {"idle", "password", "passkey", "github", "link", "create",
                     "newpassword", "changed", "newpasskey", "newkey"},
               user : Users \cup {None}, item : States \cup Challenges \cup {None},
               what : Accounts \cup Passkeys \cup (Accounts \X Emails) \cup {None},
               seen : SUBSET Keys, old : 0..MaxChanges]
    <2>1. KeysOf(u) \in SUBSET Keys
      BY DEF KeysOf
    <2>2. (IF op \in {"password", "passkey"} THEN password[u] ELSE 0) \in 0..MaxChanges
      BY AccessAssumption DEF Inv, TypeOK
    <2>3. QED
      BY <2>1, <2>2
  <1>4. /\ q.item = item /\ q.op = op
        /\ q.op = "newkey" => q.seen = KeysOf(q.user)
        /\ Carries(q)
    BY DEF Carries
  <1> HIDE DEF q
  <1>5. /\ challenge' \in [Challenges -> Challenge \cup {None}]
        /\ \A c \in Challenges : challenge'[c] = challenge[c] \/ challenge'[c] = None
        /\ item \in Challenges => challenge'[item] = None
    BY DEF Inv, TypeOK
  <1>6. TypeOK'
    BY <1>1, <1>2, <1>3, <1>5 DEF Inv, TypeOK
  <1>7. \A s \in Requests : Carries(req'[s])
    BY <1>1, <1>4 DEF Inv
  <1>8. OnePlace'
    <2>1. item # None => used[item] = 0 /\ \A s \in Requests : req[s].item # item
      BY DEF Inv, OnePlace
    <2>2. \A s \in Requests : req'[s].item = IF s = r THEN item ELSE req[s].item
      BY <1>1, <1>4
    <2>3. \A s, t \in Requests : req'[s].item # None /\ req'[s].item = req'[t].item => s = t
      BY <2>1, <2>2 DEF Inv, OnePlace
    <2>4. \A s \in Requests : req'[s].item \in States => state[req'[s].item] = "stored"
      BY <2>2 DEF Inv, OnePlace
    <2>5. \A s \in Requests : req'[s].item \in Challenges => challenge'[req'[s].item] = None
      BY <1>5, <2>2 DEF Inv, OnePlace
    <2>6. \A s \in Requests : req'[s].item # None => used[req'[s].item] = 0
      BY <2>1, <2>2 DEF Inv, OnePlace
    <2>7. \A c \in Challenges : challenge'[c] # None => used[c] = 0
      BY <1>5 DEF Inv, OnePlace
    <2>8. QED
      BY <1>2, <2>3, <2>4, <2>5, <2>6, <2>7 DEF Inv, OnePlace
  <1>9. UsedOnce' /\ Ends'
    <2>1. \A s \in Requests : req'[s].op = "changed" => req'[s] = req[s]
      BY <1>1, <1>4
    <2>2. Ends'
      BY <1>2, <2>1, SessionsKept
    <2>3. QED
      BY <1>2, <2>2 DEF Inv, UsedOnce
  <1>10. KeysWithCreators'
    BY <1>1, <1>2, <1>4, KeysKept DEF KeysOf
  <1>11. QED
    BY <1>6, <1>7, <1>8, <1>9, <1>10 DEF Inv

\* No request, state or challenge changes, and no key is added.
LEMMA RowsInv ==
  ASSUME Inv, UNCHANGED <<password, state, challenge, req, used>>,
         mail' \in [Users -> Emails \cup {None}], session' \subseteq session,
         link' \in [Accounts -> Users \cup {None}],
         passkey' \in [Passkeys -> Users \cup {None}],
         key' \in [Keys -> Users \cup {None}],
         \A u \in Users : KeysOf(u)' \subseteq KeysOf(u)
  PROVE  Inv'
  <1>1. TypeOK'
    BY SessionsKept DEF Inv, TypeOK
  <1>2. (\A r \in Requests : Carries(req'[r])) /\ OnePlace' /\ UsedOnce'
    BY DEF Inv, OnePlace, UsedOnce
  <1>3. Ends' /\ KeysWithCreators'
    BY SessionsKept, KeysKept
  <1>4. QED
    BY <1>1, <1>2, <1>3 DEF Inv

\* A state is stored, or a challenge, that nobody holds and no table.
LEMMA DrawnInv ==
  ASSUME Inv, NEW x \in States \cup Challenges, Unheld(x), req' = req,
         UNCHANGED <<mail, password, session, link, passkey, key>>,
         state' \in [States -> {"gone", "stored"}],
         challenge' \in [Challenges -> Challenge \cup {None}],
         \A s \in States : s # x => state'[s] = state[s],
         \A c \in Challenges : c # x => challenge'[c] = challenge[c]
  PROVE  Inv'
  <1>1. /\ \A r \in Requests : req[r].item # x
        /\ used' \in [States \cup Challenges -> Nat] /\ used'[x] = 0
        /\ \A y \in States \cup Challenges : y # x => used'[y] = used[y]
    BY DEF Inv, TypeOK, Unheld
  <1>2. TypeOK' /\ UsedOnce'
    BY <1>1 DEF Inv, TypeOK, UsedOnce
  <1>3. OnePlace'
    BY <1>1, AccessAssumption DEF Inv, TypeOK, OnePlace
  <1>4. (\A r \in Requests : Carries(req'[r])) /\ Ends'
    BY SessionsKept DEF Inv
  <1>5. KeysWithCreators'
    BY KeysKept DEF KeysOf
  <1>6. QED
    BY <1>2, <1>3, <1>4, <1>5 DEF Inv

-----------------------------------------------------------------------------
(* Every step.                                                             *)

\* The callback of GitHub learns whom it is about, and goes on or ends.
LEMMA LookupInv ==
  ASSUME Inv, NEW r \in Requests, NEW a \in Accounts, NEW e \in Emails, Lookup(r, a, e)
  PROVE  Inv'
  <1>1. /\ req[r].op = "github" /\ req[r].item \in States
        /\ UNCHANGED <<mail, password, session, link, passkey, key, state, challenge, used>>
    BY DEF Inv, Carries, Lookup, tables
  <1>2. CASE req' = [req EXCEPT ![r] = Idle]
    BY <1>1, <1>2, FinishInv, SessionsKept, KeysKept DEF Inv, TypeOK, KeysOf, Idle
  <1>3. ASSUME NEW u \in Users, NEW op \in {"link", "create"}, NEW what,
               op = "link" => what = a, op = "create" => what = <<a, e>>,
               req' = [req EXCEPT ![r].user = u, ![r].what = what, ![r].op = op,
                                  ![r].old = password[u]]
        PROVE  Inv'
    <2> DEFINE q == [req[r] EXCEPT !.user = u, !.what = what, !.op = op, !.old = password[u]]
    <2>1. req' = [req EXCEPT ![r] = q]
      BY <1>3 DEF Inv, TypeOK
    <2>2. /\ q \in [op : {"idle", "password", "passkey", "github", "link", "create",
                          "newpassword", "changed", "newpasskey", "newkey"},
                    user : Users \cup {None}, item : States \cup Challenges \cup {None},
                    what : Accounts \cup Passkeys \cup (Accounts \X Emails) \cup {None},
                    seen : SUBSET Keys, old : 0..MaxChanges]
          /\ q.op = op /\ q.user = u /\ q.what = what /\ q.item = req[r].item
      <3>1. req[r] \in [op : {"idle", "password", "passkey", "github", "link", "create",
                              "newpassword", "changed", "newpasskey", "newkey"},
                        user : Users \cup {None}, item : States \cup Challenges \cup {None},
                        what : Accounts \cup Passkeys \cup (Accounts \X Emails) \cup {None},
                        seen : SUBSET Keys, old : 0..MaxChanges]
        BY DEF Inv, TypeOK
      <3>2. what \in Accounts \cup (Accounts \X Emails) /\ password[u] \in 0..MaxChanges
        BY <1>3 DEF Inv, TypeOK
      <3>3. QED
        BY <1>3, <3>1, <3>2
    <2> HIDE DEF q
    <2>3. \A s \in Requests : req'[s] = IF s = r THEN q ELSE req[s]
      BY <2>1 DEF Inv, TypeOK
    <2>4. TypeOK'
      BY <1>1, <2>1, <2>2 DEF Inv, TypeOK
    <2>5. Carries(q)
      BY <1>1, <1>3, <2>2 DEF Carries
    <2>6. \A s \in Requests : Carries(req'[s])
      BY <2>3, <2>5 DEF Inv
    <2>7. \A s \in Requests : req'[s].item = req[s].item
      BY <2>2, <2>3
    <2>8. OnePlace' /\ UsedOnce' /\ Ends'
      <3>1. \A s \in Requests : req'[s].op = "changed" => req'[s] = req[s]
        BY <1>3, <2>2, <2>3
      <3>2. Ends'
        BY <1>1, <3>1, SessionsKept
      <3>3. QED
        BY <1>1, <2>7, <3>2 DEF Inv, OnePlace, UsedOnce
    <2>9. KeysWithCreators'
      BY <1>1, <1>3, <2>2, <2>3, KeysKept DEF KeysOf
    <2>10. QED
      BY <2>4, <2>6, <2>8, <2>9 DEF Inv
  <1>4. CASE link[a] = None
    <2> DEFINE found == {v \in Users : mail[v] = e}
               op == IF found # {} THEN "link" ELSE "create"
               what == IF found # {} THEN a ELSE <<a, e>>
    <2>1. PICK u \in Users : req' = [req EXCEPT ![r].user = u, ![r].what = what,
                                                ![r].op = op, ![r].old = password[u]]
      BY <1>4 DEF Lookup
    <2>2. /\ op \in {"link", "create"}
          /\ op = "link" => what = a
          /\ op = "create" => what = <<a, e>>
      OBVIOUS
    <2> HIDE DEF op, what
    <2>3. QED
      BY <1>3, <2>1, <2>2
  <1>5. QED
    BY <1>2, <1>4 DEF Lookup

LEMMA RaiseInv ==
  ASSUME Inv, NEW r \in Requests, Raise(r)
  PROVE  Inv'
  <1>1. /\ UNCHANGED <<mail, password, link, passkey, key, state, challenge, used>>
        /\ req' = [req EXCEPT ![r] = Idle]
        /\ session' = Restored(IF req[r].op = "changed" THEN {req[r].user} ELSE {})
    BY DEF Raise
  <1>2. /\ \A q \in Requests : req'[q].op = "changed" => q # r /\ req'[q] = req[q]
        /\ req[r].op = "changed" => req[r].user \in Users
    BY <1>1 DEF Inv, TypeOK, Carries, Idle
  <1>3. PICK users \in SUBSET Users : users = IF req[r].op = "changed" THEN {req[r].user} ELSE {}
    BY <1>2
  <1>4. \A q \in Requests : req'[q].op = "changed" =>
          req'[q] = req[q] /\ req[q].user \notin users
    BY <1>2, <1>3 DEF Inv, Ends
  <1>5. Ends' /\ session' \subseteq Session
    BY <1>1, <1>3, <1>4, SessionsRestored
  <1>6. KeysWithCreators'
    BY <1>1, KeysKept DEF Inv, TypeOK, KeysOf, Idle
  <1>7. QED
    BY <1>1, <1>5, <1>6, FinishInv DEF Inv, TypeOK

\* The requests that log in, and those that give a state up.
LEMMA LogInInv ==
  ASSUME Inv, NEW r \in Requests,
         Login(r) \/ LoginByPasskey(r) \/ FailCallback(r) \/ LinkUser(r) \/ CreateUser(r)
  PROVE  Inv'
  <1>1. /\ req' = [req EXCEPT ![r] = Idle] /\ key' = key /\ passkey' = passkey
        /\ challenge' = challenge /\ password' = password
        /\ session' = session \/ (req[r].user \in Users /\ NewSession(r))
    BY DEF Inv, Carries, Login, LoginByPasskey, FailCallback, LinkUser, CreateUser, Linked,
           Finish
  <1>2. /\ mail' \in [Users -> Emails \cup {None}]
        /\ link' \in [Accounts -> Users \cup {None}]
    <2>1. CASE Login(r) \/ LoginByPasskey(r) \/ FailCallback(r)
      BY <2>1 DEF Inv, TypeOK, Login, LoginByPasskey, FailCallback
    <2>2. CASE LinkUser(r)
      BY <2>2 DEF Inv, TypeOK, Carries, LinkUser, Linked, Finish
    <2>3. CASE CreateUser(r)
      BY <2>3 DEF Inv, TypeOK, Carries, CreateUser, Linked, Finish
    <2>4. QED
      BY <2>1, <2>2, <2>3
  <1>3. /\ \/ state' = state
           \/ state' = [state EXCEPT ![req[r].item] = "gone"]
        /\ \/ used' = used
           \/ /\ req[r].item \in States \cup Challenges /\ Spend(r)
              /\ req[r].item \in States => state' = [state EXCEPT ![req[r].item] = "gone"]
    BY AccessAssumption DEF Inv, Carries, Login, LoginByPasskey, FailCallback, LinkUser,
       CreateUser, Linked, Finish
  <1>4. /\ Ends'
        /\ session' \subseteq Session
    BY <1>1, SessionsKept DEF Inv, TypeOK, Idle
  <1>5. KeysWithCreators'
    BY <1>1, KeysKept DEF Inv, TypeOK, KeysOf, Idle
  <1>6. passkey' \in [Passkeys -> Users \cup {None}] /\ key' \in [Keys -> Users \cup {None}]
        /\ password' \in [Users -> 0..MaxChanges]
    BY <1>1 DEF Inv, TypeOK
  <1>7. QED
    BY <1>1, <1>2, <1>3, <1>4, <1>5, <1>6, FinishInv

\* The deletion of a change leaves no session of its user unmarked.
LEMMA EndSessionsInv ==
  ASSUME Inv, NEW r \in Requests, EndSessions(r)
  PROVE  Inv'
  <1> DEFINE u == req[r].user
             q == [req[r] EXCEPT !.op = "changed"]
             new(s) == IF s.user = u THEN [s EXCEPT !.end = "marked"] ELSE s
  <1>1. /\ req[r].op = "newpassword" /\ ~Changing(u) /\ req' = [req EXCEPT ![r] = q]
        /\ session' = {new(s) : s \in session}
        /\ UNCHANGED <<mail, password, link, passkey, key, state, challenge, used>>
    BY DEF EndSessions, Marked, Inv, TypeOK
  <1>2. req[r] \in [op : {"idle", "password", "passkey", "github", "link", "create",
                          "newpassword", "changed", "newpasskey", "newkey"},
                    user : Users \cup {None}, item : States \cup Challenges \cup {None},
                    what : Accounts \cup Passkeys \cup (Accounts \X Emails) \cup {None},
                    seen : SUBSET Keys, old : 0..MaxChanges]
    BY DEF Inv, TypeOK
  <1>3. /\ q \in [op : {"idle", "password", "passkey", "github", "link", "create",
                        "newpassword", "changed", "newpasskey", "newkey"},
                  user : Users \cup {None}, item : States \cup Challenges \cup {None},
                  what : Accounts \cup Passkeys \cup (Accounts \X Emails) \cup {None},
                  seen : SUBSET Keys, old : 0..MaxChanges]
        /\ q.op = "changed" /\ q.user = u /\ q.item = req[r].item
    BY <1>2
  <1>4. Carries(q)
    BY <1>1, <1>3 DEF Inv, Carries
  <1> HIDE DEF q
  <1>5. \A s \in Requests : req'[s] = IF s = r THEN q ELSE req[s]
    BY <1>1 DEF Inv, TypeOK
  <1>6. \A s \in session : /\ new(s) \in Session
                           /\ new(s).end = "none" => new(s) = s /\ s.user # u
    BY DEF Inv, TypeOK, Session
  <1> HIDE DEF new
  <1>7. TypeOK'
    <2>1. session' \subseteq Session
      BY <1>1, <1>6
    <2>2. QED
      BY <1>1, <1>3, <2>1 DEF Inv, TypeOK
  <1>8. \A s \in Requests : Carries(req'[s])
    BY <1>4, <1>5 DEF Inv
  <1>9. OnePlace' /\ UsedOnce'
    <2>1. \A s \in Requests : req'[s].item = req[s].item
      BY <1>3, <1>5
    <2>2. QED
      BY <1>1, <2>1 DEF Inv, OnePlace, UsedOnce
  <1>10. Ends'
    <2>1. \A s \in session' : s.end = "none" => s \in session /\ s.user # u
      BY <1>1, <1>6
    <2>2. \A v : v # u => (Changing(v)' <=> Changing(v))
      BY <1>1, <1>3, <1>5 DEF Changing
    <2>3. \A s, t \in Requests : req'[s].op = "changed" /\ req'[t].op = "changed"
                                   /\ req'[s].user = req'[t].user => s = t
      BY <1>1, <1>3, <1>5 DEF Inv, Ends, Changing
    <2>4. QED
      BY <1>1, <2>1, <2>2, <2>3 DEF Inv, Ends, ChangeEndsSessions
  <1>11. KeysWithCreators'
    BY <1>1, <1>3, <1>5, KeysKept DEF KeysOf
  <1>12. QED
    BY <1>7, <1>8, <1>9, <1>10, <1>11 DEF Inv

LEMMA UpdatePasswordInv ==
  ASSUME Inv, NEW r \in Requests, UpdatePassword(r)
  PROVE  Inv'
  <1> DEFINE u == req[r].user
  <1>1. /\ req[r].op = "changed" /\ req' = [req EXCEPT ![r] = Idle]
        /\ UNCHANGED <<mail, link, passkey, key, state, challenge, used>>
        /\ session' \subseteq session
    BY DEF UpdatePassword, Finish
  <1>2. PICK n \in 1..MaxChanges : password' = [password EXCEPT ![u] = n]
    BY DEF UpdatePassword
  <1>3. /\ password' \in [Users -> 0..MaxChanges]
        /\ \A v \in Users : v # u => password'[v] = password[v]
    <2>1. n \in 0..MaxChanges
      BY <1>2, AccessAssumption
    <2>2. QED
      BY <1>2, <2>1 DEF Inv, TypeOK
  <1>4. session' \subseteq Session
    BY <1>1 DEF Inv, TypeOK
  <1>5. Ends'
    <2>1. Changing(u) /\ Idle.op = "idle"
      BY <1>1 DEF Changing, Idle
    <2>2. \A s \in session' : s.end = "none" => s \in session /\ s.user # u /\ s.user \in Users
      BY <1>1, <2>1 DEF Inv, TypeOK, Ends, Session
    <2>3. \A q \in Requests : req'[q].op = "changed" => req'[q] = req[q]
      BY <1>1, <2>1 DEF Inv, TypeOK
    <2>4. QED
      BY <1>3, <2>2, <2>3 DEF Inv, Ends, ChangeEndsSessions, Changing
  <1>6. KeysWithCreators'
    BY <1>1, KeysKept DEF Inv, TypeOK, KeysOf, Idle
  <1>7. QED
    BY <1>1, <1>3, <1>4, <1>5, <1>6, FinishInv DEF Inv, TypeOK

LEMMA CreatePasskeyInv ==
  ASSUME Inv, NEW r \in Requests, CreatePasskey(r)
  PROVE  Inv'
  <1>1. /\ req' = [req EXCEPT ![r] = Idle]
        /\ UNCHANGED <<mail, password, session, link, key, state, challenge>>
        /\ passkey' = [passkey EXCEPT ![req[r].what] = req[r].user]
    BY DEF CreatePasskey, Finish
  <1>2. req[r].user \in Users /\ req[r].item \in Challenges /\ Spend(r)
    BY DEF Inv, Carries, CreatePasskey, Finish
  <1>3. passkey' \in [Passkeys -> Users \cup {None}]
    BY <1>1, <1>2 DEF Inv, TypeOK
  <1>4. Ends' /\ KeysWithCreators'
    BY <1>1, SessionsKept, KeysKept DEF Inv, TypeOK, KeysOf, Idle
  <1>5. QED
    BY <1>1, <1>2, <1>3, <1>4, FinishInv, AccessAssumption DEF Inv, TypeOK

LEMMA CreateKeyInv ==
  ASSUME Inv, NEW r \in Requests, NEW k \in Keys, CreateKey(r, k)
  PROVE  Inv'
  <1>1. /\ req' = [req EXCEPT ![r] = Idle]
        /\ UNCHANGED <<mail, password, session, link, passkey, state, challenge, used>>
        /\ key' = [key EXCEPT ![k] = req[r].user]
    BY DEF CreateKey, Finish
  <1>2. key' \in [Keys -> Users \cup {None}]
    BY <1>1 DEF Inv, TypeOK, Carries, CreateKey, Finish
  <1>3. Ends' /\ KeysWithCreators'
    <2>1. \A q \in Requests : req'[q].op = "changed" => req'[q] = req[q]
      BY <1>1 DEF Inv, TypeOK, Idle
    <2>2. QED
      BY <1>1, <2>1, SessionsKept, CreateKeyKeys
  <1>4. QED
    BY <1>1, <1>2, <1>3, FinishInv DEF Inv, TypeOK

\* What a user does to rows of his own in one step.
LEMMA OwnInv ==
  ASSUME Inv, NEW u \in Users,
         \/ Logout(u) \/ Disconnect(u)
         \/ \E e \in Emails : UpdateEmail(u, e) \/ Register(u, e)
  PROVE  Inv'
  <1>1. /\ UNCHANGED <<password, state, challenge, req, used, passkey, key>>
        /\ mail' \in [Users -> Emails \cup {None}] /\ session' \subseteq session
        /\ link' \in [Accounts -> Users \cup {None}]
    BY DEF Inv, TypeOK, Logout, Disconnect, UpdateEmail, Register, Own
  <1>2. QED
    BY <1>1, RowsInv DEF Inv, TypeOK, KeysOf

LEMMA DeleteInv ==
  ASSUME Inv,
         (\E k \in Keys : DeleteKey(k)) \/ (\E p \in Passkeys : DeletePasskey(p))
  PROVE  Inv'
  <1>1. /\ UNCHANGED <<mail, password, session, link, state, challenge, req, used>>
        /\ passkey' \in [Passkeys -> Users \cup {None}]
        /\ key' \in [Keys -> Users \cup {None}]
        /\ \A k \in Keys : key'[k] \in {key[k], None}
    BY DEF Inv, TypeOK, DeleteKey, DeletePasskey, Own
  <1>2. \A u \in Users : KeysOf(u)' \subseteq KeysOf(u)
    BY <1>1, AccessAssumption DEF KeysOf
  <1>3. QED
    BY <1>1, <1>2, RowsInv DEF Inv, TypeOK

\* Challenges are lost, one of them or, with the process, all, and then the requests too.
LEMMA LostInv ==
  ASSUME Inv, Restart \/ \E c \in Challenges : LoseChallenge(c)
  PROVE  Inv'
  <1>1. /\ UNCHANGED <<mail, password, link, passkey, key, state, used>>
        /\ challenge' \in [Challenges -> Challenge \cup {None}]
        /\ \A c \in Challenges : challenge'[c] \in {challenge[c], None}
    BY DEF Inv, TypeOK, Restart, LoseChallenge, GetChallenge, tables
  <1>2. req' = req \/ req' = [r \in Requests |-> Idle]
    BY DEF Restart, LoseChallenge
  <1>3. Ends' /\ session' \subseteq Session
    <2>1. CASE Restart
      <3>1. session' = Restored(Users) /\ req' = [r \in Requests |-> Idle]
        BY <2>1 DEF Restart
      <3>2. \A q \in Requests : req'[q].op # "changed"
        BY <3>1 DEF Idle
      <3>3. QED
        BY <1>1, <3>1, <3>2, SessionsRestored
    <2>2. CASE \E c \in Challenges : LoseChallenge(c)
      BY <1>1, <2>2, SessionsKept DEF LoseChallenge, tables
    <2>3. QED
      BY <2>1, <2>2
  <1>4. /\ \A r \in Requests : Carries(req'[r]) /\ req'[r].item \in {req[r].item, None}
        /\ \A r \in Requests : req'[r] = req[r] \/ req'[r].op # "newkey"
    BY <1>2 DEF Inv, Carries, Idle
  <1>5. TypeOK' /\ OnePlace' /\ UsedOnce'
    <2>1. TypeOK'
      BY <1>1, <1>2, <1>3, AccessAssumption DEF Inv, TypeOK, Idle
    <2>2. OnePlace' /\ UsedOnce'
      BY <1>1, <1>4, AccessAssumption DEF Inv, OnePlace, UsedOnce
    <2>3. QED
      BY <2>1, <2>2
  <1>6. KeysWithCreators'
    BY <1>1, <1>4, KeysKept DEF KeysOf
  <1>7. QED
    BY <1>3, <1>4, <1>5, <1>6 DEF Inv

\* The requests of passwords, passkeys, GitHub and keys begin.
LEMMA BeginsInv ==
  ASSUME Inv, NEW r \in Requests,
         \/ \E u \in Users : BeginLogin(r, u)
         \/ \E u \in Users, op \in {"newpassword", "newkey"} : BeginOwn(r, u, op)
         \/ \E u \in Users, c \in Challenges, p \in Passkeys :
              BeginVerifyRegistration(r, u, c, p)
         \/ \E c \in Challenges, p \in Passkeys : BeginVerifyAuthentication(r, c, p)
         \/ \E s \in States : BeginCallback(r, s)
  PROVE  Inv'
  <1>1. ASSUME NEW u \in Users, BeginLogin(r, u)
        PROVE  Inv'
    BY <1>1, BeginInv, AccessAssumption DEF BeginLogin
  <1>2. ASSUME NEW u \in Users, NEW op \in {"newpassword", "newkey"}, BeginOwn(r, u, op)
        PROVE  Inv'
    BY <1>2, BeginInv, AccessAssumption DEF BeginOwn
  <1>3. ASSUME NEW u \in Users, NEW c \in Challenges, NEW p \in Passkeys,
               BeginVerifyRegistration(r, u, c, p)
        PROVE  Inv'
    <2>1. c \notin States /\ c # None
      BY AccessAssumption
    <2>2. QED
      BY <1>3, <2>1, BeginInv DEF BeginVerifyRegistration, GetChallenge
  <1>4. ASSUME NEW c \in Challenges, NEW p \in Passkeys, BeginVerifyAuthentication(r, c, p)
        PROVE  Inv'
    <2>1. c \notin States /\ c # None
      BY AccessAssumption
    <2>2. passkey[p] \in Users
      BY <1>4 DEF Inv, TypeOK, BeginVerifyAuthentication
    <2>3. QED
      BY <1>4, <2>1, <2>2, BeginInv DEF BeginVerifyAuthentication, GetChallenge
  <1>5. ASSUME NEW s \in States, BeginCallback(r, s)
        PROVE  Inv'
    BY <1>5, BeginInv, AccessAssumption DEF BeginCallback, Consume
  <1>6. QED
    BY <1>1, <1>2, <1>3, <1>4, <1>5

LEMMA DrawInv ==
  ASSUME Inv,
         \/ \E c \in Challenges, u \in Users : RegistrationOptions(c, u)
         \/ \E c \in Challenges, u \in Users \cup {None} : AuthenticationOptions(c, u)
         \/ \E s \in States : StoreState(s)
  PROVE  Inv'
  <1>1. ASSUME NEW c \in Challenges, NEW u \in Users \cup {None},
               RegistrationOptions(c, u) \/ AuthenticationOptions(c, u)
        PROVE  Inv'
    <2>1. /\ Unheld(c) /\ challenge' = [challenge EXCEPT ![c] = [user |-> u]]
          /\ UNCHANGED <<mail, password, session, link, passkey, key, state, req>>
      BY <1>1 DEF RegistrationOptions, AuthenticationOptions, Fresh, tables
    <2>2. challenge' \in [Challenges -> Challenge \cup {None}]
      BY <2>1 DEF Inv, TypeOK, Challenge
    <2>3. QED
      BY <2>1, <2>2, DrawnInv DEF Inv, TypeOK
  <1>2. ASSUME NEW s \in States, StoreState(s)
        PROVE  Inv'
    BY <1>2, DrawnInv DEF StoreState, Inv, TypeOK
  <1>3. QED
    BY <1>1, <1>2

LEMMA NextInv == Inv /\ [Next]_vars => Inv'
  <1> SUFFICES ASSUME Inv, [Next]_vars PROVE Inv'
    OBVIOUS
  <1>1. CASE UNCHANGED vars
    BY <1>1, RowsInv DEF vars, tables, Inv, TypeOK, KeysOf
  <1>2. CASE Next
    BY <1>2, OwnInv, BeginsInv, LookupInv, RaiseInv, LogInInv, EndSessionsInv, UpdatePasswordInv,
       CreatePasskeyInv, CreateKeyInv, DrawInv, LostInv, DeleteInv DEF Next
  <1>3. QED
    BY <1>1, <1>2

\* The strengthening holds initially and every step keeps it.
THEOREM AccessInv == Spec => []Inv
  <1>1. QED
    BY InitInv, NextInv, PTL DEF Spec

-----------------------------------------------------------------------------
(* What the runs check, for every value of the constants.                  *)

\* Tables, challenges and requests have their types.
THEOREM AccessTypes == Spec => []TypeOK
  <1>1. Inv => TypeOK
    BY DEF Inv
  <1>2. QED
    BY <1>1, AccessInv, PTL

\* A state that GitHub gave back and a challenge are each good for one login or one
\* registration, however many requests present it and however often one is rolled back.
THEOREM NothingUsedTwice == Spec => []UsedOnce
  <1>1. Inv => UsedOnce
    BY DEF Inv
  <1>2. QED
    BY <1>1, AccessInv, PTL

\* No session outlives the password of its user, but those whose login was in progress
\* while the password changed.
THEOREM ChangesEndSessions == Spec => []ChangeEndsSessions
  <1>1. Inv => ChangeEndsSessions
    BY DEF Inv, Ends
  <1>2. QED
    BY <1>1, AccessInv, PTL

\* With n requests at a time no user gets n keys more than the limit allows, whatever is
\* deleted in between.
THEOREM KeysStayBounded == Spec => []KeysBounded
  <1>1. QED
    BY KeysBoundedInv, AccessInv, PTL

-----------------------------------------------------------------------------
(* Registration.                                                           *)

Locked == {"counted", "free", "inserted"}

\* What a registration that holds the lock on its code's row knows of it: the
\* row is still there, usable but for its expiry, and as it read it.
HoldsUsableCode(r) ==
    LET c == reg[r].code IN
    /\ code[c] # None
    /\ code[c].active
    /\ reg[r].uses = code[c].uses + 1
    /\ reg[r].uses <= code[c].max

\* The strengthening: what the locks promise.
Bound == \A r \in Requests : reg[r].pc # "idle" =>
            reg[r].code \in Codes /\ reg[r].email \in Addresses
Held == \A r \in Requests : reg[r].pc \in Locked => HoldsUsableCode(r)
Exclusive == \A r, s \in Requests :
    reg[r].pc \in Locked /\ reg[s].pc \in Locked /\ reg[r].code = reg[s].code
      => r = s
NotYetUser == \A r \in Requests : reg[r].pc = "inserted" => cameWith[reg[r].email] = None
Alone == \A r, s \in Requests :
    reg[r].pc = "inserted" /\ reg[s].pc = "inserted" /\ reg[r].email = reg[s].email
      => r = s

LockInv == Bound /\ Held /\ Exclusive /\ NotYetUser /\ Alone

\* No use is kept for a registration that did not happen.
UsesCountUsers ==
    \A c \in Codes : code[c] # None => code[c].uses = Cardinality(UsersOf(c))

RegistrationInv == RegistrationTypeOK /\ LockInv /\ UsesWithinMax /\ UsesCountUsers

-----------------------------------------------------------------------------
LEMMA RegistrationInitInv == RegistrationInit => RegistrationInv
  <1> SUFFICES ASSUME RegistrationInit PROVE RegistrationInv
    OBVIOUS
  <1> USE DEF RegistrationInit, NoRegistration
  <1>1. RegistrationTypeOK
    BY DEF RegistrationTypeOK
  <1>2. \A r \in Requests : reg[r].pc = "idle"
    OBVIOUS
  <1> HIDE DEF RegistrationInit, NoRegistration
  <1>3. LockInv
    BY <1>2 DEF LockInv, Bound, Held, Exclusive, NotYetUser, Alone, Locked
  <1>4. QED
    BY <1>1, <1>3 DEF RegistrationInit, RegistrationInv, UsesWithinMax, UsesCountUsers

\* The steps that only move one registration on keep the tables, so what is
\* left to show of them is LockInv.
LEMMA TablesKept ==
  ASSUME RegistrationInv, RegistrationTypeOK', LockInv', UNCHANGED <<code, cameWith>>
  PROVE  RegistrationInv'
  BY DEF RegistrationInv, UsesWithinMax, UsesCountUsers, UsersOf

\* A step that leaves one registration without locks keeps the lock invariant
\* when it keeps what the others hold.
LEMMA OthersKept ==
  ASSUME LockInv, NEW r \in Requests,
         reg'[r].pc \notin Locked,
         reg'[r].pc # "idle" => reg'[r].code \in Codes /\ reg'[r].email \in Addresses,
         \A s \in Requests \ {r} :
            /\ reg'[s] = reg[s]
            /\ reg[s].pc \in Locked => HoldsUsableCode(s)'
            /\ reg[s].pc = "inserted" => cameWith'[reg[s].email] = None
  PROVE  LockInv'
  <1>1. \A s \in Requests : reg'[s].pc \in Locked => s # r
    OBVIOUS
  <1>2. \A s \in Requests : reg'[s].pc = "inserted" => s # r
    BY DEF Locked
  <1> USE DEF LockInv
  <1>3. Bound'
    BY DEF Bound
  <1>4. Held'
    BY <1>1 DEF Held
  <1>5. Exclusive'
    BY <1>1 DEF Exclusive
  <1>6. NotYetUser'
    BY <1>2 DEF NotYetUser
  <1>7. Alone'
    BY <1>2 DEF Alone
  <1>8. QED
    BY <1>3, <1>4, <1>5, <1>6, <1>7

LEMMA RollbackInv ==
  ASSUME RegistrationInv, NEW r \in Requests, Rollback(r)
  PROVE  RegistrationInv'
  <1> USE DEF RegistrationInv, Rollback, NoRegistration
  <1>1. RegistrationTypeOK'
    BY DEF RegistrationTypeOK
  <1>2. /\ \A s \in Requests \ {r} : reg'[s] = reg[s]
        /\ reg'[r].pc = "idle"
        /\ UNCHANGED <<code, cameWith>>
    BY DEF RegistrationTypeOK
  <1> HIDE DEF Rollback, NoRegistration
  <1>3. LockInv'
    <2>1. \A s \in Requests \ {r} :
             /\ reg[s].pc \in Locked => HoldsUsableCode(s)'
             /\ reg[s].pc = "inserted" => cameWith'[reg[s].email] = None
      BY <1>2 DEF LockInv, Held, NotYetUser, HoldsUsableCode
    <2>2. reg'[r].pc \notin Locked
      BY <1>2 DEF Locked
    <2>3. QED
      BY <1>2, <2>1, <2>2, OthersKept
  <1>4. QED
    BY <1>1, <1>2, <1>3, TablesKept

LEMMA RegisterInv ==
  ASSUME RegistrationInv, NEW r \in Requests, NEW c \in Codes, NEW e \in Addresses,
         BeginRegistration(r, c, e)
  PROVE  RegistrationInv'
  <1> USE DEF RegistrationInv, BeginRegistration
  <1>1. RegistrationTypeOK'
    BY DEF RegistrationTypeOK
  <1>2. \A s \in Requests \ {r} : reg'[s] = reg[s]
    BY DEF RegistrationTypeOK
  <1>3. /\ reg'[r].pc = "started" /\ reg'[r].code = c /\ reg'[r].email = e
        /\ UNCHANGED <<code, cameWith>>
    BY DEF RegistrationTypeOK
  <1> HIDE DEF BeginRegistration
  <1>4. LockInv'
    <2>1. \A s \in Requests \ {r} :
             /\ reg[s].pc \in Locked => HoldsUsableCode(s)'
             /\ reg[s].pc = "inserted" => cameWith'[reg[s].email] = None
      BY <1>2, <1>3 DEF LockInv, Held, NotYetUser, HoldsUsableCode
    <2>2. reg'[r].pc \notin Locked
      BY <1>3 DEF Locked
    <2>3. QED
      BY <1>2, <1>3, <2>1, <2>2, OthersKept
  <1>5. QED
    BY <1>1, <1>3, <1>4, TablesKept

LEMMA UseCodeInv ==
  ASSUME RegistrationInv, NEW r \in Requests, UseCode(r)
  PROVE  RegistrationInv'
  <1> USE DEF RegistrationInv, UseCode
  <1> DEFINE c == reg[r].code
  <1>1. c \in Codes /\ reg[r].email \in Addresses /\ code[c] \in Code
    BY DEF RegistrationTypeOK, LockInv, Bound, Held, Exclusive, NotYetUser,
         Alone, Usable
  <1>2. RegistrationTypeOK'
    <2>1. code[c].uses + 1 \in Nat
      BY <1>1 DEF Code
    <2>2. QED
      BY <2>1 DEF RegistrationTypeOK
  <1>3. \A s \in Requests \ {r} : reg'[s] = reg[s] /\ ~Locks(s, c)
    BY DEF RegistrationTypeOK, Unlocked
  <1>4. /\ reg'[r].pc = "counted" /\ reg'[r].code = c
        /\ reg'[r].email = reg[r].email /\ reg'[r].uses = code[c].uses + 1
    BY DEF RegistrationTypeOK
  <1>5. HoldsUsableCode(r)'
    BY <1>1, <1>4 DEF HoldsUsableCode, Usable, Code
  <1>6. \A s \in Requests \ {r} : reg[s].pc \in Locked => reg[s].code # c
    BY <1>3 DEF Locks, Locked
  <1>7. UNCHANGED <<code, cameWith>>
    OBVIOUS
  <1> HIDE DEF UseCode, c
  <1>8. LockInv'
    <2>1. Bound' /\ NotYetUser' /\ Alone'
      BY <1>1, <1>3, <1>4, <1>7 DEF LockInv, Bound, NotYetUser, Alone, c
    <2>2. Held'
      BY <1>3, <1>5, <1>7 DEF LockInv, Held, HoldsUsableCode
    <2>3. Exclusive'
      BY <1>3, <1>4, <1>6 DEF LockInv, Exclusive
    <2>4. QED
      BY <2>1, <2>2, <2>3 DEF LockInv
  <1>9. QED
    BY <1>2, <1>7, <1>8, TablesKept

\* EmailFree and InsertUser change nothing but the program counter.
LEMMA MoveOnInv ==
  ASSUME RegistrationInv, NEW r \in Requests, EmailFree(r) \/ InsertUser(r)
  PROVE  RegistrationInv'
  <1> USE DEF RegistrationInv, EmailFree, InsertUser
  <1>1. RegistrationTypeOK'
    BY DEF RegistrationTypeOK
  <1>2. \A s \in Requests \ {r} : reg'[s] = reg[s]
    BY DEF RegistrationTypeOK
  <1>3. /\ reg[r].pc \in Locked /\ reg'[r].pc \in Locked
        /\ reg'[r].code = reg[r].code /\ reg'[r].email = reg[r].email
        /\ reg'[r].uses = reg[r].uses
    BY DEF RegistrationTypeOK, Locked
  <1>4. reg'[r].pc = "inserted" => /\ cameWith[reg[r].email] = None
                                   /\ ~Uncommitted(reg[r].email)
    BY DEF RegistrationTypeOK
  <1>5. \A s \in Requests : HoldsUsableCode(s) => HoldsUsableCode(s)'
    BY <1>2, <1>3 DEF HoldsUsableCode
  <1>6. LockInv'
    BY <1>2, <1>3, <1>4, <1>5 DEF LockInv, Bound, Held, Exclusive, NotYetUser, Alone, Locked, Uncommitted
  <1>7. QED
    BY <1>1, <1>6, TablesKept

LEMMA CommitInv ==
  ASSUME RegistrationInv, NEW r \in Requests, Commit(r)
  PROVE  RegistrationInv'
  <1> USE DEF RegistrationInv
  <1> DEFINE c == reg[r].code
             e == reg[r].email
  <1>1. /\ c \in Codes /\ e \in Addresses /\ code[c] \in Code
        /\ code[c].uses \in Nat /\ reg[r].uses \in Nat
        /\ cameWith[e] = None /\ HoldsUsableCode(r)
    BY DEF Commit, RegistrationTypeOK, LockInv, Bound, Held, Exclusive, NotYetUser,
         Alone, Locked, HoldsUsableCode, Code
  <1>2. /\ code' = [code EXCEPT ![c] = [code[c] EXCEPT !.uses = reg[r].uses]]
        /\ cameWith' = [cameWith EXCEPT ![e] = c]
        /\ reg' = [reg EXCEPT ![r] = NoRegistration]
    BY DEF Commit
  <1>3. [code[c] EXCEPT !.uses = reg[r].uses] \in Code
    BY <1>1 DEF Code
  <1>4. RegistrationTypeOK'
    BY <1>1, <1>2, <1>3 DEF RegistrationTypeOK, NoRegistration
  <1>5. /\ \A s \in Requests \ {r} : reg'[s] = reg[s]
        /\ reg'[r].pc = "idle"
    BY <1>2 DEF RegistrationTypeOK, NoRegistration
  <1>6. \A d \in Codes \ {c} : code'[d] = code[d]
    BY <1>2 DEF RegistrationTypeOK
  <1>7. /\ code'[c] # None /\ code'[c].uses = code[c].uses + 1
        /\ code'[c].max = code[c].max
    BY <1>1, <1>2, <1>3, RegistrationAssumption
       DEF RegistrationTypeOK, HoldsUsableCode, Code
  <1>8. LockInv'
    <2>1. \A s \in Requests \ {r} : reg[s].pc \in Locked =>
             reg[s].code # c /\ HoldsUsableCode(s)'
      BY <1>5, <1>6 DEF LockInv, Bound, Held, Exclusive, NotYetUser, Alone, Locked, HoldsUsableCode, Commit
    <2>2. \A s \in Requests \ {r} : reg[s].pc = "inserted" =>
             reg[s].email # e /\ cameWith'[reg[s].email] = None
      BY <1>1, <1>2 DEF LockInv, Bound, Held, Exclusive, NotYetUser, Alone, Commit, RegistrationTypeOK
    <2>3. reg'[r].pc \notin Locked
      BY <1>5 DEF Locked
    <2> HIDE DEF c, e
    <2>4. QED
      BY <1>5, <2>1, <2>2, <2>3, OthersKept
  <1>9. UsesWithinMax'
    BY <1>1, <1>6, <1>7 DEF UsesWithinMax, HoldsUsableCode
  <1>10. UsesCountUsers'
    <2> SUFFICES ASSUME NEW d \in Codes, code'[d] # None
                 PROVE  code'[d].uses = Cardinality(UsersOf(d)')
      BY DEF UsesCountUsers
    <2>1. IsFiniteSet(UsersOf(d))
      BY RegistrationAssumption, FS_Subset DEF UsersOf
    <2>2. CASE d = c
      <3>1. UsersOf(d)' = UsersOf(d) \cup {e}
        <4>1. \A x \in Addresses : cameWith'[x] = IF x = e THEN c ELSE cameWith[x]
          BY <1>1, <1>2 DEF RegistrationTypeOK
        <4> HIDE DEF c, e
        <4>2. QED
          BY <1>1, <2>2, <4>1 DEF UsersOf
      <3>2. e \notin UsersOf(d)
        BY <1>1, RegistrationAssumption DEF UsersOf
      <3>3. Cardinality(UsersOf(d)') = Cardinality(UsersOf(d)) + 1
        BY <2>1, <3>1, <3>2, FS_AddElement
      <3>4. code[d].uses = Cardinality(UsersOf(d))
        BY <1>1, <2>2 DEF UsesCountUsers, HoldsUsableCode
      <3>5. code'[d].uses = code[d].uses + 1
        BY <1>7, <2>2
      <3>6. QED
        BY <3>3, <3>4, <3>5
    <2>3. CASE d # c
      <3>1. UsersOf(d)' = UsersOf(d)
        BY <1>1, <1>2, <2>3, RegistrationAssumption DEF UsersOf, RegistrationTypeOK
      <3>2. QED
        BY <1>6, <2>3, <3>1 DEF UsesCountUsers
    <2>4. QED
      BY <2>2, <2>3
  <1>11. QED
    BY <1>4, <1>8, <1>9, <1>10

\* The admin's requests: a row somebody has locked stays as it is, but for
\* its expiry.
LEMMA AdminInv ==
  ASSUME RegistrationInv, NEW c \in Codes, AdminStep(c)
  PROVE  RegistrationInv'
  <1> USE DEF RegistrationInv
  <1>1. UNCHANGED <<cameWith, reg>> /\ \A d \in Codes \ {c} : code'[d] = code[d]
    BY DEF AdminStep, CreateCode, DeactivateCode, DeleteCode, Expire, RegistrationTypeOK
  <1>2. UsersOf(c)' = UsersOf(c) /\ \A d \in Codes : UsersOf(d)' = UsersOf(d)
    BY <1>1 DEF UsersOf
  <1>3. ASSUME NEW max \in 1..MaxMaxUses, CreateCode(c, max)
        PROVE  RegistrationInv'
    <2>1. /\ code' = [code EXCEPT ![c] = [max |-> max, uses |-> 0,
                                          active |-> TRUE, expired |-> FALSE]]
          /\ UsersOf(c) = {}
      BY <1>3 DEF CreateCode, UsersOf
    <2>2. RegistrationTypeOK'
      BY <1>1, <2>1 DEF RegistrationTypeOK, Code
    <2>3. \A s \in Requests : reg[s].pc \in Locked => reg[s].code # c
      BY <1>3 DEF CreateCode
    <2>4. LockInv'
      BY <1>1, <2>3 DEF LockInv, Bound, Held, Exclusive, NotYetUser, Alone, Locked, HoldsUsableCode
    <2>5. code'[c].uses = 0 /\ code'[c].max = max
      BY <2>1 DEF RegistrationTypeOK
    <2>6. UsesWithinMax'
      BY <1>1, <2>5, RegistrationAssumption DEF UsesWithinMax
    <2>7. UsesCountUsers'
      BY <1>1, <1>2, <2>1, <2>5, FS_EmptySet DEF UsesCountUsers
    <2>8. QED
      BY <2>2, <2>4, <2>6, <2>7
  <1>4. CASE DeleteCode(c)
    <2>1. code' = [code EXCEPT ![c] = None]
      BY <1>4 DEF DeleteCode
    <2>2. RegistrationTypeOK'
      BY <1>1, <2>1 DEF RegistrationTypeOK
    <2>3. \A s \in Requests : reg[s].pc \in Locked => reg[s].code # c
      BY <1>4 DEF DeleteCode, Unlocked, Locks, Locked
    <2>4. LockInv'
      BY <1>1, <2>3 DEF LockInv, Bound, Held, Exclusive, NotYetUser, Alone, Locked, HoldsUsableCode
    <2>5. code'[c] = None
      BY <2>1 DEF RegistrationTypeOK
    <2>6. QED
      BY <1>1, <1>2, <2>2, <2>4, <2>5 DEF UsesWithinMax, UsesCountUsers
  <1>5. CASE DeactivateCode(c) \/ Expire(c)
    <2>1. code[c] \in Code
      BY <1>5 DEF DeactivateCode, Expire, RegistrationTypeOK
    <2>2. /\ [code[c] EXCEPT !.active = FALSE] \in Code
          /\ [code[c] EXCEPT !.expired = TRUE] \in Code
      BY <2>1 DEF Code
    <2>3. RegistrationTypeOK'
      BY <1>1, <1>5, <2>2 DEF RegistrationTypeOK, DeactivateCode, Expire
    <2>4. /\ code'[c] # None
          /\ code'[c].uses = code[c].uses /\ code'[c].max = code[c].max
      <3>1. \/ code'[c] = [code[c] EXCEPT !.active = FALSE]
            \/ code'[c] = [code[c] EXCEPT !.expired = TRUE]
        BY <1>5 DEF RegistrationTypeOK, DeactivateCode, Expire
      <3>2. QED
        BY <2>1, <2>2, <3>1, RegistrationAssumption DEF Code
    <2>5. \/ \A s \in Requests : reg[s].pc \in Locked => reg[s].code # c
          \/ code'[c].active = code[c].active
      BY <1>5, <2>1
         DEF RegistrationTypeOK, Code, DeactivateCode, Expire, Unlocked, Locks, Locked
    <2>6. \A s \in Requests : reg[s].pc \in Locked => HoldsUsableCode(s)'
      BY <1>1, <2>4, <2>5 DEF LockInv, Bound, Held, Exclusive, NotYetUser, Alone, Locked, HoldsUsableCode
    <2>7. LockInv'
      BY <1>1, <2>6 DEF LockInv, Bound, Held, Exclusive, NotYetUser, Alone, Locked
    <2>8. code[c] # None
      BY <1>5 DEF DeactivateCode, Expire
    <2>9. QED
      BY <1>1, <1>2, <2>3, <2>4, <2>7, <2>8 DEF UsesWithinMax, UsesCountUsers
  <1>6. QED
    BY <1>3, <1>4, <1>5 DEF AdminStep

LEMMA RegistrationNextInv == RegistrationInv /\ [RegistrationNext]_registrationVars => RegistrationInv'
  <1> SUFFICES ASSUME RegistrationInv, [RegistrationNext]_registrationVars PROVE RegistrationInv'
    OBVIOUS
  <1>1. ASSUME NEW r \in Requests, RequestStep(r) PROVE RegistrationInv'
    BY <1>1, RegisterInv, UseCodeInv, RollbackInv, MoveOnInv, CommitInv
       DEF RequestStep, CodeRefused, EmailTaken, InsertFails, Crash
  <1>2. CASE UNCHANGED registrationVars
    BY <1>2 DEF registrationVars, RegistrationInv, RegistrationTypeOK, LockInv, Bound, Held, Exclusive, NotYetUser,
         Alone, Locked, HoldsUsableCode,
                UsesWithinMax, UsesCountUsers, UsersOf
  <1>3. QED
    BY <1>1, <1>2, AdminInv DEF RegistrationNext

-----------------------------------------------------------------------------
\* The strengthening holds initially and every step keeps it.
THEOREM RegistrationKept == RegistrationSpec => []RegistrationInv
  BY RegistrationInitInv, RegistrationNextInv, PTL DEF RegistrationSpec

\* Codes, users and registrations in progress have their types, for any codes, addresses
\* and number of requests.
THEOREM RegistrationTypes == RegistrationSpec => []RegistrationTypeOK
  <1>1. RegistrationInv => RegistrationTypeOK
    BY DEF RegistrationInv
  <1>2. QED
    BY <1>1, RegistrationKept, PTL

\* A code counts every user it admitted and admits at most max_uses of them, however
\* registrations, crashes and the admin's requests interleave.
THEOREM CodeAdmitsAtMostMax == RegistrationSpec => []UsersWithinMax
  <1>1. ASSUME RegistrationInv, NEW c \in Codes, code[c] # None
        PROVE  Cardinality(UsersOf(c)) <= code[c].uses
    <2>1. code[c].uses = Cardinality(UsersOf(c)) /\ code[c].uses \in Nat
      BY <1>1 DEF RegistrationInv, RegistrationTypeOK, UsesCountUsers, Code
    <2>2. QED
      BY <2>1
  <1>2. RegistrationInv => UsersWithinMax
    BY <1>1 DEF RegistrationInv, UsersWithinMax, UsersCounted
  <1>3. QED
    BY <1>2, RegistrationKept, PTL

\* A code counts nobody else: the use of a registration that is refused after it has
\* counted, or cut off, is rolled back with it.  The comment in register, that if the
\* email check fails "the code usage is still incremented", does not hold of any run.
THEOREM RefusedUsesRolledBack == RegistrationSpec => []UsesCountUsers
  <1>1. RegistrationInv => UsesCountUsers
    BY DEF RegistrationInv
  <1>2. QED
    BY <1>1, RegistrationKept, PTL

\* No registration commits under a code that was deactivated or deleted.
THEOREM CommitUnderLiveCode == RegistrationSpec => CommitsUnderLiveCode
  <1>1. RegistrationInv => \A r \in Requests : Commit(r) =>
                  code[reg[r].code] # None /\ code[reg[r].code].active
    BY DEF RegistrationInv, LockInv, Bound, Held, Exclusive, NotYetUser,
         Alone, Locked, HoldsUsableCode, Commit
  <1>2. RegistrationInv /\ [RegistrationNext]_registrationVars =>
          [\A r \in Requests : Commit(r) =>
             code[reg[r].code] # None /\ code[reg[r].code].active]_registrationVars
    BY <1>1
  <1>3. QED
    BY <1>2, RegistrationKept, PTL DEF RegistrationSpec, CommitsUnderLiveCode
=============================================================================
