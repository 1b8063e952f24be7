----------------------------- MODULE AuthServer -----------------------------
(***************************************************************************)
(* The MCP authorization server (services/mcp-auth and the token storage   *)
(* of packages/mcp-auth-framework).  It sends the user to the backend for  *)
(* consent, keeps the states of these logins and its own codes in memory,  *)
(* and its pairs of an access and a refresh token in PostgreSQL or, without *)
(* it, in memory.                                                          *)
(*                                                                         *)
(* One event loop: a handler runs alone until it awaits the database or    *)
(* the backend.  A crash loses what is in memory; the requests in progress *)
(* end without an answer.  With the storage in memory an exchange awaits   *)
(* nothing and is one step.                                                *)
(*                                                                         *)
(* The backend's own tokens, which are stored but never asked for, the     *)
(* authentication of clients, PKCE and the limits on the rate of requests  *)
(* can only refuse a request, and are left out.  So is introspection: it   *)
(* reads.  Access tokens are never revoked, only left to expire.           *)
(***************************************************************************)
EXTENDS Naturals, Sequences, FiniteSets

CONSTANTS Clients,
          States,      \* the state parameters of authorization requests
          Resources,   \* RFC 8707 resources a login can be bound to
          Scopes,      \* what the user can allow
          Requests,
          MaxLogins,   \* bound: logins in a behaviour
          MaxPairs,    \* bound: pairs of tokens in a behaviour
          MaxExpired,  \* bound: refresh tokens that pass their time in a behaviour
          MaxCrashes,  \* bound: crashes in a behaviour
          None

ASSUME AuthServerAssumption == /\ {MaxLogins, MaxPairs} \subseteq Nat \ {0}
                               /\ {MaxExpired, MaxCrashes} \subseteq Nat
                               /\ None \notin Clients \cup Resources \cup States \cup Nat

VARIABLES registered,  \* the clients the backend knows
          db,          \* whether tokens are stored in the database
          mapping,     \* state_mapping: the login that each state began
          code,        \* auth_codes: the logins whose code is there
          login,       \* history: the logins, which stand for their codes
          offered,     \* the codes that a client has been sent and that are in time
          pair,        \* the pairs of tokens, with where their refresh token is
          expired,     \* the pairs whose refresh token is past its time
          req,         \* the requests in progress
          crashes,
          alone        \* whether requests never overlap

memory == <<mapping, code>>
tables == <<login, offered, pair>>
vars == <<registered, db, memory, tables, expired, req, crashes, alone>>

Store == IF db THEN "db" ELSE "memory"

\* pc is the await the request is in; from, the pair that a refresh spends; pair,
\* the pair it has made.
Idle == [pc |-> "idle", op |-> None, state |-> None, login |-> 0, from |-> 0, pair |-> 0,
         client |-> None, resource |-> None, scopes |-> {}]

Flow == [client : Clients, resource : Resources \cup {None}]

Login == [client : Clients, resource : Resources \cup {None}, scopes : SUBSET Scopes]

\* told: whether the client has been sent the pair.  refresh: "cut" is gone as well, by a
\* deletion whose reply did not come.
Pair == [login : 1..MaxLogins, from : 0..MaxPairs, client : Clients,
         resource : Resources \cup {None}, scopes : SUBSET Scopes,
         refresh : {"db", "memory", "gone", "cut", "lost", None}, told : BOOLEAN]

TypeOK ==
    /\ registered \subseteq Clients
    /\ db \in BOOLEAN
    /\ \A s \in States : mapping[s] \in Flow \cup {None}
    /\ code \subseteq DOMAIN login /\ offered \subseteq DOMAIN login
    /\ \A l \in DOMAIN login : login[l] \in Login
    /\ \A p \in DOMAIN pair : pair[p] \in Pair /\ pair[p].from < p
    /\ expired \subseteq DOMAIN pair
    /\ \A r \in Requests : /\ req[r].pc \in {"idle", "exchange", "validate", "poll", "resource",
                                             "access", "refresh", "count", "delete", "answer"}
                           /\ req[r].pair \in {0} \cup DOMAIN pair
                           /\ req[r].login \in {0} \cup DOMAIN login
    /\ crashes \in 0..MaxCrashes

-----------------------------------------------------------------------------
Init ==
    /\ registered = {} /\ code = {} /\ offered = {} /\ expired = {}
    /\ db \in BOOLEAN
    /\ mapping = [s \in States |-> None]
    /\ login = <<>> /\ pair = <<>>
    /\ req = [r \in Requests |-> Idle]
    /\ crashes = 0
    /\ alone \in BOOLEAN

Free == alone => \A r \in Requests : req[r] = Idle

\* The request awaits its next step, or ends: Idle.
Goto(r, q) == req' = [req EXCEPT ![r] = q]

Await(r, pc) == Goto(r, [req[r] EXCEPT !.pc = pc])

Begin(r, q) == req[r] = Idle /\ Free /\ Goto(r, q)

\* A dynamic registration makes the client in the backend, under the id the client
\* gets, so that it is found again after a restart, when the caches are empty.
Register(c) ==
    /\ Free /\ registered' = registered \cup {c}
    /\ UNCHANGED <<db, memory, tables, expired, req, crashes, alone>>

\* get_client: the two caches hold only what the backend knows, and what they have
\* lost is loaded from there.
Known(c) == c \in registered

\* A second authorization request with a state takes it over.
Authorize(s, c, resource) ==
    /\ Free /\ Known(c)
    /\ mapping' = [mapping EXCEPT ![s] = [client |-> c, resource |-> resource]]
    /\ UNCHANGED <<registered, db, code, tables, expired, req, crashes, alone>>

-----------------------------------------------------------------------------
\* The user comes back from the backend.
BeginCallback(r, s) ==
    /\ mapping[s] # None
    /\ Begin(r, [Idle EXCEPT !.pc = "exchange", !.op = "callback", !.state = s,
                             !.client = mapping[s].client, !.resource = mapping[s].resource])
    /\ UNCHANGED <<registered, db, memory, tables, expired, crashes, alone>>

Room == Len(login) < MaxLogins

NewLogin(q, scopes) ==
    /\ Room
    /\ login' = Append(login, [client |-> q.client, resource |-> q.resource, scopes |-> scopes])

\* A mistake: the code goes to the login before.
ExchangedEarly(r) ==
    /\ req[r].pc = "exchange"
    /\ NewLogin(req[r], Scopes)
    /\ code' = code \cup {Len(login)}
    /\ Goto(r, [req[r] EXCEPT !.pc = "validate", !.login = Len(login')])
    /\ UNCHANGED <<registered, db, mapping, offered, pair, expired, crashes, alone>>

\* The backend has exchanged its code: the server makes its own, and asks the
\* backend about the token.
Exchanged(r) ==
    /\ req[r].pc = "exchange"
    /\ NewLogin(req[r], Scopes)
    /\ code' = code \cup {Len(login')}
    /\ Goto(r, [req[r] EXCEPT !.pc = "validate", !.login = Len(login')])
    /\ UNCHANGED <<registered, db, mapping, offered, pair, expired, crashes, alone>>

\* A callback for a state that another has removed meanwhile fails, and its code
\* stays behind, known to nobody.
Validated(r) ==
    /\ req[r].pc = "validate"
    /\ mapping' = [mapping EXCEPT ![req[r].state] = None]
    /\ offered' = IF mapping[req[r].state] = None THEN offered
                    ELSE offered \cup {req[r].login}
    /\ Goto(r, Idle)
    /\ UNCHANGED <<registered, db, code, login, pair, expired, crashes, alone>>

-----------------------------------------------------------------------------
\* A mistake: the resource is not kept.
NewPairUnbound(q, refresh, told) ==
    [login |-> q.login, from |-> q.from, client |-> q.client, resource |-> None,
     scopes |-> q.scopes, refresh |-> refresh, told |-> told]

\* The making of a pair for a request: the pairs after the access token is stored,
\* and after the refresh token is.  In memory both are one step.
NewPair(q, refresh, told) ==
    [login |-> q.login, from |-> q.from, client |-> q.client, resource |-> q.resource,
     scopes |-> q.scopes, refresh |-> refresh, told |-> told]

PairsFit == Len(pair) < MaxPairs

\* A mistake: nothing is removed.
RemovedKept(pairs, from) == pairs

\* Rotation: the refresh token that was spent is removed after the new is stored.
Removed(pairs, from) ==
    [p \in DOMAIN pairs |-> [pairs[p] EXCEPT !.refresh = IF p = from THEN "gone"
                                                         ELSE pairs[p].refresh]]

\* A request that has been accepted stores its pair, in the database step by step.
\* Then it waits in pc, or in memory it is over.
Issue(r, q, pc) ==
    /\ PairsFit
    /\ Goto(r, IF db THEN [q EXCEPT !.pc = pc] ELSE Idle)
    /\ pair' = IF db THEN pair ELSE Append(Removed(pair, q.from), NewPair(q, "memory", TRUE))

\* The client sends the code it was given.
BeginCode(r, l) ==
    /\ l \in code \cap offered
    /\ req[r] = Idle /\ Free
    /\ Issue(r, [Idle EXCEPT !.op = "code", !.login = l, !.client = login[l].client,
                             !.resource = login[l].resource, !.scopes = login[l].scopes],
             "access")
    /\ code' = IF db THEN code ELSE code \ {l}
    /\ UNCHANGED <<registered, db, mapping, login, offered, expired, crashes, alone>>

\* load_refresh_token: of this storage, of this client, and not past its time.
Loaded(p) == pair[p].refresh = Store /\ p \notin expired

\* The client sends a refresh token and the scopes it wants, some of those it has.
BeginRefresh(r, p, scopes) ==
    /\ pair[p].told /\ Known(pair[p].client) /\ Loaded(p)
    /\ scopes \subseteq pair[p].scopes
    /\ req[r] = Idle /\ Free
    /\ Issue(r, [Idle EXCEPT !.op = "refresh", !.login = pair[p].login, !.from = p,
                             !.client = pair[p].client, !.resource = pair[p].resource,
                             !.scopes = scopes],
             "resource")
    /\ UNCHANGED <<registered, db, memory, login, offered, expired, crashes, alone>>

\* In the database the resource is loaded in a second query, which may find the
\* row gone, or past its time.
LoadResource(r) ==
    /\ req[r].pc = "resource"
    /\ Goto(r, [req[r] EXCEPT !.pc = "access",
                              !.resource = IF Loaded(req[r].from) THEN pair[req[r].from].resource
                                           ELSE None])
    /\ UNCHANGED <<registered, db, memory, tables, expired, crashes, alone>>

\* A device asks whether its user has decided; the backend decides whether the
\* client is one.
BeginPoll(r, c) ==
    /\ Begin(r, [Idle EXCEPT !.pc = "poll", !.op = "device", !.client = c])
    /\ UNCHANGED <<registered, db, memory, tables, expired, crashes, alone>>

Polled(r, scopes) ==
    /\ req[r].pc = "poll"
    /\ NewLogin(req[r], scopes)
    /\ Issue(r, [req[r] EXCEPT !.login = Len(login'), !.scopes = scopes], "access")
    /\ UNCHANGED <<registered, db, memory, offered, expired, crashes, alone>>

\* A mistake: the deletion first, then the new token.
StoreAccessRemoving(r) ==
    /\ req[r].pc = "access" /\ PairsFit
    /\ pair' = Append(Removed(pair, req[r].from), NewPair(req[r], None, FALSE))
    /\ Goto(r, [req[r] EXCEPT !.pc = "refresh", !.pair = Len(pair')])
    /\ UNCHANGED <<registered, db, memory, login, offered, expired, crashes, alone>>

StoreAccess(r) ==
    /\ req[r].pc = "access" /\ PairsFit
    /\ pair' = Append(pair, NewPair(req[r], None, FALSE))
    /\ Goto(r, [req[r] EXCEPT !.pc = "refresh", !.pair = Len(pair')])
    /\ UNCHANGED <<registered, db, memory, login, offered, expired, crashes, alone>>

AfterRefresh(op) ==
    CASE op = "code" -> "count" [] op = "refresh" -> "delete" [] op = "device" -> "answer"

StoreRefresh(r) ==
    /\ req[r].pc = "refresh"
    /\ pair' = [pair EXCEPT ![req[r].pair].refresh = "db"]
    /\ Await(r, AfterRefresh(req[r].op))
    /\ UNCHANGED <<registered, db, memory, login, offered, expired, crashes, alone>>

DeleteOld(r) ==
    /\ req[r].pc = "delete"
    /\ pair' = Removed(pair, req[r].from)
    /\ Await(r, "answer")
    /\ UNCHANGED <<registered, db, memory, login, offered, expired, crashes, alone>>

Told(r) == [pair EXCEPT ![req[r].pair].told = TRUE]

\* A mistake: a code that is gone is no error.
RemoveCodeQuietly(r) ==
    /\ req[r].pc = "count"
    /\ code' = code \ {req[r].login}
    /\ pair' = Told(r)
    /\ Goto(r, Idle)
    /\ UNCHANGED <<registered, db, mapping, login, offered, expired, crashes, alone>>

\* The code is removed last; for a request that finds it gone that is an error, and
\* the client does not learn the pair that was stored for it.
RemoveCode(r) ==
    /\ req[r].pc = "count"
    /\ code' = code \ {req[r].login}
    /\ pair' = IF req[r].login \in code THEN Told(r) ELSE pair
    /\ Goto(r, Idle)
    /\ UNCHANGED <<registered, db, mapping, login, offered, expired, crashes, alone>>

Answer(r) ==
    /\ req[r].pc = "answer"
    /\ pair' = Told(r)
    /\ Goto(r, Idle)
    /\ UNCHANGED <<registered, db, memory, login, offered, expired, crashes, alone>>

-----------------------------------------------------------------------------
\* A refresh whose deletion was done, but not confirmed.
Cut(r) == IF req[r].pc = "answer" /\ req[r].from # 0
          THEN [pair EXCEPT ![req[r].from].refresh = "cut"] ELSE pair

\* The backend refuses or cannot be reached, or a query of the database fails: the
\* handler ends in an error, and what it has done so far stays.  A query may have had
\* its effect all the same, when its time is over or the connection is lost before the
\* reply: the failure is then one of the next step, the answer included.
Fail(r) ==
    /\ req[r].pc # "idle"
    /\ pair' = Cut(r)
    /\ Goto(r, Idle)
    /\ UNCHANGED <<registered, db, memory, login, offered, expired, crashes, alone>>

ExpireCode(l) ==
    /\ l \in code \cap offered
    /\ offered' = offered \ {l}
    /\ UNCHANGED <<registered, db, memory, login, pair, expired, req, crashes, alone>>

Expire(p) ==
    /\ pair[p].refresh = Store /\ p \notin expired /\ Cardinality(expired) < MaxExpired
    /\ expired' = expired \cup {p}
    /\ UNCHANGED <<registered, db, memory, tables, req, crashes, alone>>

\* A refresh token past its time is removed by the request that brings it.
ForgetExpired(p) ==
    /\ Free /\ p \in expired /\ pair[p].refresh = Store
    /\ pair' = Removed(pair, p)
    /\ UNCHANGED <<registered, db, memory, login, offered, expired, req, crashes, alone>>

\* The server starts again: with the database, which it then clears of what is past
\* its time, or without it when it cannot be reached.
AfterCrash(p, usesDb) ==
    [pair[p] EXCEPT !.refresh = IF pair[p].refresh = "memory" THEN "lost"
                                ELSE IF usesDb /\ p \in expired THEN "gone"
                                ELSE pair[p].refresh]

Crash(usesDb) ==
    /\ crashes < MaxCrashes
    /\ crashes' = crashes + 1
    /\ db' = usesDb
    /\ req' = [r \in Requests |-> Idle]
    /\ mapping' = [s \in States |-> None]
    /\ code' = {}
    /\ pair' = [p \in DOMAIN pair |-> AfterCrash(p, usesDb)]
    /\ UNCHANGED <<registered, login, offered, expired, alone>>

Next ==
    \/ \E c \in Clients : Register(c)
    \/ \E s \in States, c \in Clients, resource \in Resources \cup {None} :
         Authorize(s, c, resource)
    \/ \E r \in Requests :
         \/ \E s \in States : BeginCallback(r, s)
         \/ Exchanged(r)
         \/ Validated(r)
         \/ \E l \in DOMAIN login : BeginCode(r, l)
         \/ \E p \in DOMAIN pair, scopes \in SUBSET Scopes \ {{}} : BeginRefresh(r, p, scopes)
         \/ LoadResource(r)
         \/ \E c \in Clients : BeginPoll(r, c)
         \/ \E scopes \in SUBSET Scopes \ {{}} : Polled(r, scopes)
         \/ StoreAccess(r)
         \/ StoreRefresh(r)
         \/ DeleteOld(r)
         \/ RemoveCode(r)
         \/ Answer(r)
         \/ Fail(r)
    \/ \E l \in DOMAIN login : ExpireCode(l)
    \/ \E p \in DOMAIN pair : Expire(p)
    \/ \E p \in DOMAIN pair : ForgetExpired(p)
    \/ \E usesDb \in BOOLEAN : Crash(usesDb)

Spec == Init /\ [][Next]_vars

-----------------------------------------------------------------------------
(* Properties *)

PairsOf(l) == {p \in DOMAIN pair : pair[p].login = l}

\* However exchanges of a code overlap, fail or are cut off by a crash, at most one
\* is answered: exchange_authorization_code removes the code after the awaits, and
\* the loser's KeyError keeps its pair from the client.
CodeAnsweredOnce ==
    \A l \in DOMAIN login : Cardinality({p \in PairsOf(l) : pair[p].from = 0 /\ pair[p].told}) <= 1

\* Once a client has a pair from the database, a refresh token of its login stays
\* there, whatever overlaps, fails or crashes, until one is past its time: rotation
\* stores the new before it removes the old.
LoginKept ==
    \A l \in DOMAIN login :
        LET ps == PairsOf(l) IN
        (\E p \in ps : pair[p].told) /\ ps \cap expired = {}
          /\ (\A p \in ps : pair[p].refresh \notin {"memory", "lost"})
        => \E p \in ps : pair[p].refresh = "db"

\* A client that sends one request after the other can refresh with the newest pair
\* it was sent and with no other, also after a request of it has failed.  Only a
\* crash takes the token from it, or the time, or a failure of the database at the
\* very deletion of the old token: done, but not confirmed.
Newest(l) == {p \in PairsOf(l) : pair[p].told /\ \A q \in PairsOf(l) : pair[q].told => q <= p}

InStore(p) == pair[p].refresh \in {"db", "memory"}

NewestRefreshes ==
    alone => \A l \in DOMAIN login :
        /\ \A p \in PairsOf(l) : pair[p].told /\ InStore(p) => p \in Newest(l)
        /\ \A p \in Newest(l) :
             InStore(p) \/ p \in expired \/ crashes > 0 \/ pair[p].refresh = "cut"
             \/ \E r \in Requests : req[r].pc = "answer" /\ req[r].from = p

\* The terms the user agreed to are kept along the chain: scopes only shrink, the
\* client stays, and so does the resource where requests do not overlap and the
\* token that was spent was in time.
TermsKept ==
    \A p \in DOMAIN pair :
        LET old == IF pair[p].from = 0 THEN login[pair[p].login] ELSE pair[pair[p].from] IN
        /\ pair[p].scopes \subseteq old.scopes /\ pair[p].client = old.client
        /\ alone /\ pair[p].from \notin expired => pair[p].resource = old.resource
=============================================================================
