------------------------------- MODULE Access -------------------------------
(***************************************************************************)
(* How people get in (services/backend/app/api/auth.py, webauthn.py,       *)
(* oauth/github.py and api_keys.py): passwords, passkeys with their        *)
(* challenges, GitHub accounts with their states, sessions and API keys.   *)
(*                                                                         *)
(* A request reads what is committed when it begins, and its writes are    *)
(* seen when it commits; requests overlap.  Only a change of a password,   *)
(* which deletes the sessions it finds and commits after the answer, reads *)
(* again: its deletion is a step of its own.  Challenges are in the memory   *)
(* of the process: taking one is never rolled back, and a restart loses    *)
(* them all.  A request that raises leaves the tables as they were, the    *)
(* attempt it recorded in the rate limiter with them: every attempt is     *)
(* recorded right before a raise, so that no check of the limiter ever     *)
(* refuses, and the limiter is left out.  Signatures and hashes are true.  *)
(***************************************************************************)
EXTENDS Handlers, Naturals, FiniteSets

CONSTANTS Users, Emails,
          Accounts,    \* accounts at GitHub
          States,      \* what GitHub is asked to give back, one per login
          Challenges, Passkeys, Keys,
          MaxKeys,     \* MAX_API_KEYS_PER_USER
          MaxChanges,  \* bound: changes of passwords in a behaviour
          MaxRows      \* bound: links, passkeys and keys at a time

ASSUME AccessAssumption ==
    /\ None \notin Users \cup Emails \cup Accounts \cup States \cup Challenges
                   \cup Passkeys \cup Keys
    /\ States \cap Challenges = {}
    /\ {MaxKeys, MaxRows} \subseteq Nat \ {0} /\ MaxChanges \in Nat
    /\ IsFiniteSet(Requests) /\ Requests # {} /\ IsFiniteSet(Keys)

VARIABLES mail,       \* users.email; None where there is no such user
          password,   \* users.password_hash, as the number of the change it came with
          session,    \* sessions, without the number of equal ones, and their end
          link,       \* user_oauth_providers: the user of an account at GitHub
          passkey,    \* webauthn_credentials: the user of a passkey
          key,        \* api_keys: the user of a key, revoked or not
          state,      \* shared_state: the states GitHub has not given back
          challenge,  \* _challenge_store: the user a challenge was made for
          req,        \* the requests in progress
          used        \* history: what a state or challenge was good for

tables == <<mail, password, session, link, passkey, key, state>>
vars == <<tables, challenge, req, used>>

Idle == [op |-> "idle", user |-> None, item |-> None, what |-> None, seen |-> {},
         old |-> 0]

\* A session of the password it came with, old, or one that a change of the password has
\* deleted but not committed, or one that a change, made meanwhile, has missed.
Session == [user : Users, old : 0..MaxChanges, end : {"none", "marked", "missed"}]

\* Anything a challenge may be made for: a user, or anybody.
Challenge == [user : Users \cup {None}]

TypeOK ==
    /\ mail \in [Users -> Emails \cup {None}]
    /\ password \in [Users -> 0..MaxChanges]
    /\ session \subseteq Session
    /\ link \in [Accounts -> Users \cup {None}]
    /\ passkey \in [Passkeys -> Users \cup {None}]
    /\ key \in [Keys -> Users \cup {None}]
    /\ state \in [States -> {"gone", "stored"}]
    /\ challenge \in [Challenges -> Challenge \cup {None}]
    /\ req \in [Requests ->
          [op : {"idle", "password", "passkey", "github", "link", "create",
                 "newpassword", "changed", "newpasskey", "newkey"},
           user : Users \cup {None}, item : States \cup Challenges \cup {None},
           what : Accounts \cup Passkeys \cup (Accounts \X Emails) \cup {None},
           seen : SUBSET Keys, old : 0..MaxChanges]]
    /\ used \in [States \cup Challenges -> Nat]

-----------------------------------------------------------------------------
Init ==
    /\ mail = [u \in Users |-> None]
    /\ password = [u \in Users |-> 0]
    /\ session = {}
    /\ link = [a \in Accounts |-> None]
    /\ passkey = [p \in Passkeys |-> None]
    /\ key = [k \in Keys |-> None]
    /\ state = [s \in States |-> "gone"]
    /\ challenge = [c \in Challenges |-> None]
    /\ req = [r \in Requests |-> Idle]
    /\ used = [x \in States \cup Challenges |-> 0]

LoggedIn(u) == \E s \in session : s.user = u

KeysOf(u) == {k \in Keys : key[k] = u}

Begin(r, op, u, item, what) ==
    /\ req[r] = Idle
    /\ req' = [req EXCEPT ![r] =
                  [op |-> op, user |-> u, item |-> item, what |-> what,
                   seen |-> IF op = "newkey" THEN KeysOf(u) ELSE {},
                   old |-> IF op \in {"password", "passkey"} THEN password[u] ELSE 0]]

\* Registration is a module of its own; here it only adds a user.
Register(u, e) ==
    /\ mail[u] = None /\ \A v \in Users : mail[v] # e
    /\ \A r \in Requests : req[r].user # u
    /\ mail' = [mail EXCEPT ![u] = e]
    /\ UNCHANGED <<password, session, link, passkey, key, state, challenge, req, used>>

\* A login with the right password; what the user types is of this moment.
BeginLogin(r, u) ==
    /\ mail[u] # None /\ Begin(r, "password", u, None, None)
    /\ UNCHANGED <<tables, challenge, used>>

\* A request with a session: the session is looked up once, at its start.
BeginOwn(r, u, op) ==
    /\ LoggedIn(u) /\ Begin(r, op, u, None, None)
    /\ UNCHANGED <<tables, challenge, used>>

-----------------------------------------------------------------------------
\* One that neither a table nor a request holds stands for one never drawn before.
Unheld(x) ==
    /\ \A r \in Requests : req[r].item # x
    /\ used' = [used EXCEPT ![x] = 0]

Fresh(c) == challenge[c] = None /\ Unheld(c)

\* A mistake: a bare name for the row of a challenge.
RegistrationOptionsBare(c, u) ==
    /\ LoggedIn(u) /\ Fresh(c)
    /\ challenge' = [challenge EXCEPT ![c] = u]
    /\ UNCHANGED <<tables, req>>

\* Passkeys.  The options of a registration, or of a login, come with a challenge;
\* a login is asked for with the address of a user, or without.
RegistrationOptions(c, u) ==
    /\ LoggedIn(u) /\ Fresh(c)
    /\ challenge' = [challenge EXCEPT ![c] = [user |-> u]]
    /\ UNCHANGED <<tables, req>>

AuthenticationOptions(c, u) ==
    /\ u # None => mail[u] # None
    /\ Fresh(c)
    /\ challenge' = [challenge EXCEPT ![c] = [user |-> u]]
    /\ UNCHANGED <<tables, req>>

\* Looked up and removed in one step, before anything is verified.
GetChallenge(c) ==
    /\ challenge[c] # None
    /\ challenge' = [challenge EXCEPT ![c] = None]

\* A challenge is lost: its time is over, or the request that takes it is refused.
LoseChallenge(c) == GetChallenge(c) /\ UNCHANGED <<tables, req, used>>

BeginVerifyRegistration(r, u, c, p) ==
    /\ LoggedIn(u) /\ GetChallenge(c) /\ challenge[c].user = u /\ passkey[p] = None
    /\ Begin(r, "newpasskey", u, c, p)
    /\ UNCHANGED <<tables, used>>

\* The user is the one of the passkey; the one of the challenge is not looked at.
BeginVerifyAuthentication(r, c, p) ==
    /\ GetChallenge(c) /\ passkey[p] # None
    /\ Begin(r, "passkey", passkey[p], c, p)
    /\ UNCHANGED <<tables, used>>

-----------------------------------------------------------------------------
\* GitHub.  The state is a row of its own transaction.
StoreState(s) ==
    /\ state[s] = "gone" /\ Unheld(s)
    /\ state' = [state EXCEPT ![s] = "stored"]
    /\ UNCHANGED <<mail, password, session, link, passkey, key, challenge, req>>

\* A mistake: nobody waits for the row.
ConsumeUnlocked(r, s) == state[s] = "stored"

\* DELETE ... RETURNING: the row is locked, and one that waits for it finds it
\* gone, or there again if the other was rolled back.
Consume(r, s) ==
    /\ state[s] = "stored"
    /\ \A q \in Requests : req[q].item # s

BeginCallback(r, s) ==
    /\ Consume(r, s)
    /\ Begin(r, "github", None, s, None)
    /\ UNCHANGED <<tables, challenge, used>>

\* The account at GitHub and its address are known.  Of an account that is linked
\* the user is not loaded with the link, and asking for it raises.
Lookup(r, a, e) ==
    LET found == {u \in Users : mail[u] = e} IN
    /\ req[r].op = "github"
    /\ IF link[a] # None THEN req' = [req EXCEPT ![r] = Idle]
       ELSE \E u \in IF found # {} THEN found
                     ELSE {v \in Users : mail[v] = None /\ \A q \in Requests : req[q].user # v} :
              req' = [req EXCEPT ![r].user = u, ![r].what = IF found # {} THEN a ELSE <<a, e>>,
                                 ![r].op = IF found # {} THEN "link" ELSE "create",
                                 ![r].old = password[u]]
    /\ UNCHANGED <<tables, challenge, used>>

-----------------------------------------------------------------------------
\* The commits.  One that meets a unique index, or a row that is gone, fails and is
\* rolled back; so is a request that raises for another reason, at any time.
Finish(r, op) == req[r].op = op /\ req' = [req EXCEPT ![r] = Idle]

\* A change of the user's password has done its deletion; it holds the row of the user
\* until it commits.
Changing(u) == \E r \in Requests : req[r].op = "changed" /\ req[r].user = u

\* The sessions when changes of the passwords of these users are rolled back.
Restored(users) ==
    {IF s.user \in users
     THEN [s EXCEPT !.end = IF s.old = password[s.user] THEN "none" ELSE "missed"]
     ELSE s : s \in session}

Raise(r) ==
    /\ req[r] # Idle /\ req' = [req EXCEPT ![r] = Idle]
    /\ session' = Restored(IF req[r].op = "changed" THEN {req[r].user} ELSE {})
    /\ UNCHANGED <<mail, password, link, passkey, key, state, challenge, used>>

\* missed: the password has changed since the login began, or is about to, without
\* having seen this session.
NewSession(r) ==
    LET u == req[r].user
        missed == Changing(u) \/ req[r].old # password[u]
    IN session' = session \cup {[user |-> u, old |-> req[r].old,
                                 end |-> IF missed THEN "missed" ELSE "none"]}

Spend(r) == used' = [used EXCEPT ![req[r].item] = used[req[r].item] + 1]

Login(r) ==
    /\ Finish(r, "password") /\ NewSession(r)
    /\ UNCHANGED <<mail, password, link, passkey, key, state, challenge, used>>

\* The count of the passkey's uses is written with the session.
LoginByPasskey(r) ==
    /\ Finish(r, "passkey") /\ passkey[req[r].what] = req[r].user
    /\ NewSession(r) /\ Spend(r)
    /\ UNCHANGED <<mail, password, link, passkey, key, state, challenge>>

\* GitHub gave no token or no address, or the state's time is over: an answer, not
\* an exception, so that the state is gone.
FailCallback(r) ==
    /\ Finish(r, "github")
    /\ state' = [state EXCEPT ![req[r].item] = "gone"]
    /\ UNCHANGED <<mail, password, session, link, passkey, key, challenge, used>>

Room == Cardinality({x \in Accounts : link[x] # None})
          + Cardinality({x \in Passkeys : passkey[x] # None})
          + Cardinality({x \in Keys : key[x] # None}) < MaxRows

Linked(r, a) ==
    /\ Room /\ link[a] = None /\ \A b \in Accounts : link[b] # req[r].user
    /\ link' = [link EXCEPT ![a] = req[r].user]
    /\ state' = [state EXCEPT ![req[r].item] = "gone"]
    /\ NewSession(r) /\ Spend(r)
    /\ UNCHANGED <<password, passkey, key, challenge>>

LinkUser(r) == Finish(r, "link") /\ Linked(r, req[r].what) /\ UNCHANGED mail

CreateUser(r) ==
    /\ Finish(r, "create") /\ Linked(r, req[r].what[1])
    /\ \A u \in Users : mail[u] # req[r].what[2]
    /\ mail' = [mail EXCEPT ![req[r].user] = req[r].what[2]]

\* A mistake: the sessions go on.
MarkedNone(u) == session

Marked(u) == {IF s.user = u THEN [s EXCEPT !.end = "marked"] ELSE s : s \in session}

\* The current password was verified when the request began.  The row of the user is
\* written first, so that a second change waits here for the first to commit; then the
\* sessions that are there are deleted, for all to see only with the commit.
EndSessions(r) ==
    /\ req[r].op = "newpassword" /\ ~Changing(req[r].user)
    /\ req' = [req EXCEPT ![r].op = "changed"]
    /\ session' = Marked(req[r].user)
    /\ UNCHANGED <<mail, password, link, passkey, key, state, challenge, used>>

UpdatePassword(r) ==
    LET u == req[r].user IN
    /\ Finish(r, "changed")
    /\ \E n \in 1..MaxChanges :
         /\ \A v \in Users : password[v] < n
         /\ password' = [password EXCEPT ![u] = n]
    /\ session' = {s \in session : s.user # u \/ s.end # "marked"}
    /\ UNCHANGED <<mail, link, passkey, key, state, challenge, used>>

CreatePasskey(r) ==
    /\ Finish(r, "newpasskey") /\ Room /\ passkey[req[r].what] = None /\ Spend(r)
    /\ passkey' = [passkey EXCEPT ![req[r].what] = req[r].user]
    /\ UNCHANGED <<mail, password, session, link, key, state, challenge>>

\* A mistake: one key more than the limit.
UnderLimitLoose(r) == Cardinality(req[r].seen \cap KeysOf(req[r].user)) <= MaxKeys

\* The rows the request saw are locked and counted once the lock is there; those
\* that were added since are not among them.
UnderLimit(r) == Cardinality(req[r].seen \cap KeysOf(req[r].user)) < MaxKeys

CreateKey(r, k) ==
    /\ Finish(r, "newkey") /\ UnderLimit(r) /\ Room /\ key[k] = None
    /\ key' = [key EXCEPT ![k] = req[r].user]
    /\ UNCHANGED <<mail, password, session, link, passkey, state, challenge, used>>

\* A request that only writes rows of its user, whatever they were when it began, is
\* one step.
Own(u, changed) ==
    LoggedIn(u) /\ UNCHANGED <<password, passkey, state, challenge, req, used, changed>>

\* It waits for rows that another request is deleting.
Logout(u) ==
    /\ Own(u, <<mail, link, key>>)
    /\ \A s \in session : s.user = u => s.end # "marked"
    /\ session' = {s \in session : s.user # u}

UpdateEmail(u, e) ==
    /\ Own(u, <<session, link, key>>) /\ ~Changing(u)
    /\ \A v \in Users \ {u} : mail[v] # e
    /\ mail' = [mail EXCEPT ![u] = e]

Disconnect(u) ==
    /\ Own(u, <<mail, session, key>>)
    /\ link' = [a \in Accounts |-> IF link[a] = u THEN None ELSE link[a]]

DeleteKey(k) ==
    /\ key[k] # None /\ Own(key[k], <<mail, session, link>>)
    /\ key' = [key EXCEPT ![k] = None]

DeletePasskey(p) ==
    /\ passkey[p] # None /\ LoggedIn(passkey[p])
    /\ passkey' = [passkey EXCEPT ![p] = None]
    /\ UNCHANGED <<mail, password, session, link, key, state, challenge, req, used>>

Restart ==
    /\ challenge' = [c \in Challenges |-> None]
    /\ req' = [r \in Requests |-> Idle]
    /\ session' = Restored(Users)
    /\ UNCHANGED <<mail, password, link, passkey, key, state, used>>

Next ==
    \/ \E u \in Users, e \in Emails : Register(u, e)
    \/ \E r \in Requests :
         \/ \E u \in Users : BeginLogin(r, u)
         \/ \E u \in Users, op \in {"newpassword", "newkey"} : BeginOwn(r, u, op)
         \/ \E u \in Users, c \in Challenges, p \in Passkeys :
              BeginVerifyRegistration(r, u, c, p)
         \/ \E c \in Challenges, p \in Passkeys : BeginVerifyAuthentication(r, c, p)
         \/ \E s \in States : BeginCallback(r, s)
         \/ \E a \in Accounts, e \in Emails : Lookup(r, a, e)
         \/ Raise(r) \/ Login(r) \/ LoginByPasskey(r) \/ FailCallback(r)
         \/ LinkUser(r) \/ CreateUser(r)
         \/ EndSessions(r) \/ UpdatePassword(r) \/ CreatePasskey(r)
         \/ \E k \in Keys : CreateKey(r, k)
    \/ \E c \in Challenges, u \in Users : RegistrationOptions(c, u)
    \/ \E c \in Challenges, u \in Users \cup {None} : AuthenticationOptions(c, u)
    \/ \E c \in Challenges : LoseChallenge(c)
    \/ \E s \in States : StoreState(s)
    \/ \E u \in Users : \/ Logout(u)
                        \/ Disconnect(u)
                        \/ \E e \in Emails : UpdateEmail(u, e)
    \/ \E k \in Keys : DeleteKey(k)
    \/ \E p \in Passkeys : DeletePasskey(p)
    \/ Restart

Spec == Init /\ [][Next]_vars

-----------------------------------------------------------------------------
(* Properties *)

\* A state that GitHub gave back, and a challenge, are good for one login or one
\* registration, although a callback that fails puts its state back, callbacks wait
\* for each other, and passkeys come and go.
UsedOnce == \A x \in States \cup Challenges : used[x] <= 1

\* A change of the password ends every session, whichever way the user logged in, but
\* those of logins it overlaps: of one that is in progress while it commits, or that
\* commits, with the old password, after the change has deleted the sessions and before
\* the change itself commits.  "Invalidate all user sessions", in update_password, is not
\* kept for these.
ChangeEndsSessions == \A s \in session : s.end = "none" => s.old = password[s.user]

\* The lock on the keys that exist does not make the limit exact, but each
\* creation that overlaps others exceeds it by one at most.
KeysBounded == \A u \in Users : Cardinality(KeysOf(u)) < MaxKeys + Cardinality(Requests)
=============================================================================
