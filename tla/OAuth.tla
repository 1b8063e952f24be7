------------------------------- MODULE OAuth -------------------------------
(***************************************************************************)
(* The OAuth 2.0 provider of the backend (services/backend/app/api/oauth   *)
(* and service_accounts.py): what the user allowed, the rows that stand    *)
(* for it, and the tokens issued for them.                                 *)
(*                                                                         *)
(* A request reads what is committed, decides, and its writes are seen     *)
(* when it commits.  Nothing it read is locked, and a DELETE of a row that *)
(* is gone is no error.  Either a request begins only when the one before  *)
(* it has committed (alone), or requests overlap; the answer of some       *)
(* endpoints leaves before the commit, so that a client that waits for it  *)
(* is not always alone.                                                    *)
(*                                                                         *)
(* A request that is refused changes nothing and is left out, as are       *)
(* secrets, redirect URIs, PKCE and scopes, which can only refuse one.     *)
(***************************************************************************)
EXTENDS Naturals, Sequences, FiniteSets

CONSTANTS Clients,
          Service,    \* the client that is linked to a service account
          Account,    \* the user of that service account
          System,     \* a client that belongs to nobody
          Users,      \* the people who allow and refuse
          Codes,      \* authorization codes
          Devices,    \* device codes
          Requests,
          MaxTokens,  \* bound: tokens in a behaviour
          MaxGrants,  \* bound: grants in a behaviour
          MaxExpired, \* bound: codes and tokens that pass their time in a behaviour
          None

Grants == Codes \cup Devices

Grant == [client : Clients, user : Users \cup {None},
          status : {"pending", "approved", "denied"}]

ASSUME OAuthAssumption == /\ {Service, System} \subseteq Clients /\ Service # System
                          /\ Account \notin Users
                          /\ None \notin Clients \cup Users \cup Grants \cup {Account}
                          /\ Codes \cap Devices = {} /\ None \notin Grant
                          /\ Grants \cap Nat = {} /\ None \notin Nat
                          /\ {MaxTokens, MaxGrants} \subseteq Nat \ {0}
                          /\ MaxExpired \in Nat

VARIABLES client,   \* oauth_clients: "none" yet, "active", "inactive" or "gone"
          account,  \* users.is_active of the service account
          grant,    \* authorization_codes and device_authorization_codes
          token,    \* access_tokens; row is FALSE once it is deleted
          expired,  \* codes, device codes and refresh tokens past their time
          req,      \* the requests in progress
          allowed,  \* history: who allowed which grant to which client
          made,     \* history: the grants that have been committed
          missed,   \* history: the deletions that found no row
          alone     \* whether requests never overlap

rows == <<grant, token>>
history == <<allowed, made, missed>>
vars == <<client, account, rows, expired, req, history, alone>>

Idle == [op |-> "idle", from |-> None, grant |-> None, client |-> None, user |-> None]

Token == [grant : Grants \cup {None}, client : Clients,
          user : Users \cup {Account, None}, revoked : BOOLEAN, row : BOOLEAN]

Request == [op : {"idle", "consent", "start", "allow", "deny", "issue", "revoke"},
            from : Grants \cup Nat \cup {None}, grant : Grants \cup {None},
            client : Clients \cup {None}, user : Users \cup {Account, None}]

TypeOK ==
    /\ client \in [Clients -> {"none", "active", "inactive", "gone"}]
    /\ account \in BOOLEAN
    /\ grant \in [Grants -> Grant \cup {None}]
    /\ token \in Seq(Token)
    /\ expired \subseteq Grants \cup DOMAIN token
    /\ req \in [Requests -> Request]
    /\ allowed \subseteq Grants \X Clients \X Users
    /\ made \subseteq Grants
    /\ missed \in [Grants -> Nat]
    /\ alone \in BOOLEAN

-----------------------------------------------------------------------------
Init ==
    /\ client = [c \in Clients |-> "none"]
    /\ account = TRUE
    /\ grant = [g \in Grants |-> None]
    /\ token = <<>>
    /\ expired = {} /\ allowed = {} /\ made = {}
    /\ req = [r \in Requests |-> Idle]
    /\ missed = [g \in Grants |-> 0]
    /\ alone \in BOOLEAN

Free == alone => \A r \in Requests : req[r] = Idle

Begin(r, q) ==
    /\ req[r] = Idle /\ Free
    /\ req' = [req EXCEPT ![r] = q]
    /\ UNCHANGED <<client, account, rows, expired, history, alone>>

\* What a request of the token endpoint will issue; the bound is on those
\* issued and those about to be.
Room == Len(token) + Cardinality({r \in Requests : req[r].op = "issue"}) < MaxTokens

BeginIssue(r, from, g, c, u) ==
    /\ Room
    /\ Begin(r, [op |-> "issue", from |-> from, grant |-> g, client |-> c, user |-> u])

\* A user answers the consent page, or a device asks for a code.  The grant is a
\* random one that no request has made or is about to make.  The client of a service
\* account may do neither: it has no redirect URI and one kind of grant.
Fresh(g) ==
    /\ g \notin made /\ \A r \in Requests : req[r].grant # g
    /\ Cardinality(made \cup ({req[r].grant : r \in Requests} \ {None})) < MaxGrants

BeginConsent(r, g, c, u) ==
    /\ g \in Codes /\ Fresh(g) /\ c # Service /\ client[c] = "active"
    /\ Begin(r, [op |-> "consent", from |-> None, grant |-> g, client |-> c, user |-> u])

BeginDevice(r, d, c) ==
    /\ d \in Devices /\ Fresh(d) /\ c # Service /\ client[c] = "active"
    /\ Begin(r, [op |-> "start", from |-> None, grant |-> d, client |-> c, user |-> None])

BeginDecision(r, d, u, op) ==
    /\ grant[d] # None /\ grant[d].status = "pending" /\ d \notin expired
    /\ Begin(r, [op |-> op, from |-> d, grant |-> d, client |-> None, user |-> u])

\* The four kinds of request that issue tokens.
BeginExchange(r, g) ==
    /\ g \in Codes /\ grant[g] # None /\ g \notin expired
    /\ client[grant[g].client] = "active"
    /\ BeginIssue(r, g, g, grant[g].client, grant[g].user)

\* A mistake: a revoked token is refreshed.
RefreshableRevoked(t) == token[t].row /\ token[t].grant # None /\ t \notin expired

Refreshable(t) == token[t].row /\ token[t].grant # None /\ ~token[t].revoked /\ t \notin expired

BeginRefresh(r, t) ==
    /\ Refreshable(t) /\ client[token[t].client] = "active"
    /\ BeginIssue(r, t, token[t].grant, token[t].client, token[t].user)

\* A mistake: a poll does not wait for the decision.
BeginPollUndecided(r, d) ==
    /\ d \in Devices /\ grant[d] # None /\ d \notin expired
    /\ client[grant[d].client] = "active"
    /\ BeginIssue(r, d, d, grant[d].client, grant[d].user)

\* A poll that finds the code pending or denied ends in an error; the deletion of
\* a denied one, and the time of the poll, are rolled back with it.
BeginPoll(r, d) ==
    /\ d \in Devices /\ grant[d] # None /\ grant[d].status = "approved" /\ d \notin expired
    /\ client[grant[d].client] = "active"
    /\ BeginIssue(r, d, d, grant[d].client, grant[d].user)

BeginCredentials(r, c) ==
    /\ c \in {Service, System} /\ client[c] = "active" /\ (c = Service => account)
    /\ BeginIssue(r, None, None, c, IF c = Service THEN Account ELSE None)

BeginRevoke(r, t) ==
    /\ token[t].row /\ client[token[t].client] = "active"
    /\ Begin(r, [op |-> "revoke", from |-> t, grant |-> token[t].grant,
                 client |-> token[t].client, user |-> None])

-----------------------------------------------------------------------------
Finish(r, op) == req[r].op = op /\ req' = [req EXCEPT ![r] = Idle]

\* The row of a code, or of a device's code, is committed.
Made(r, status) ==
    /\ grant' = [grant EXCEPT ![req[r].grant] =
                    [client |-> req[r].client, user |-> req[r].user, status |-> status]]
    /\ made' = made \cup {req[r].grant}
    /\ UNCHANGED <<client, account, token, expired, missed, alone>>

Consent(r) ==
    /\ Finish(r, "consent") /\ Made(r, "approved")
    /\ allowed' = allowed \cup {<<req[r].grant, req[r].client, req[r].user>>}

\* A mistake: the row has no status.
StartNoStatus(r) == Finish(r, "start") /\ Made(r, None) /\ UNCHANGED allowed

Start(r) == Finish(r, "start") /\ Made(r, "pending") /\ UNCHANGED allowed

\* The decision is written to the row whatever it holds by now; the update of a
\* row that is gone fails.  A refusal writes no user.
Decide(r, op, row) ==
    LET d == req[r].from IN
    /\ Finish(r, op)
    /\ grant' = [grant EXCEPT ![d] = IF grant[d] = None THEN None ELSE row]
    /\ UNCHANGED <<client, account, token, expired, made, missed, alone>>

Allow(r) ==
    LET d == req[r].from IN
    /\ Decide(r, "allow", [grant[d] EXCEPT !.user = req[r].user, !.status = "approved"])
    /\ allowed' = IF grant[d] = None THEN allowed
                  ELSE allowed \cup {<<d, grant[d].client, req[r].user>>}

Deny(r) ==
    /\ Decide(r, "deny", [grant[req[r].from] EXCEPT !.status = "denied"])
    /\ UNCHANGED allowed

Present(x) == IF x \in Grants THEN grant[x] # None ELSE token[x].row

\* A mistake: what is spent stays.
SpentKept(x, g, c, u) ==
    Append(token, [grant |-> g, client |-> c, user |-> u, revoked |-> FALSE, row |-> TRUE])

\* The tokens after the commit of a request that spends x, which may be a grant
\* or a token, and issues a token to a client and a user.
Spent(x, g, c, u) ==
    Append([t \in DOMAIN token |-> [token[t] EXCEPT !.row = token[t].row /\ t # x]],
           [grant |-> g, client |-> c, user |-> u, revoked |-> FALSE, row |-> TRUE])

Issue(r) ==
    LET q == req[r] IN
    /\ Finish(r, "issue")
    /\ token' = Spent(q.from, q.grant, q.client, q.user)
    /\ grant' = [g \in Grants |-> IF g = q.from THEN None ELSE grant[g]]
    /\ missed' = [g \in Grants |-> IF g = q.grant /\ ~Present(q.from) THEN missed[g] + 1
                                   ELSE missed[g]]
    /\ UNCHANGED <<client, account, expired, allowed, made, alone>>

\* The update of a row that is gone fails, and nothing is revoked.
Revoke(r) ==
    LET t == req[r].from IN
    /\ Finish(r, "revoke")
    /\ token' = [token EXCEPT ![t].revoked = token[t].revoked \/ token[t].row]
    /\ UNCHANGED <<client, account, grant, expired, history, alone>>

-----------------------------------------------------------------------------
\* Clients and the service account: one row, or two, written by one request.
WriteClient(c, from, status) ==
    /\ Free /\ client[c] \in from
    /\ client' = [client EXCEPT ![c] = status]
    /\ UNCHANGED <<rows, expired, req, history, alone>>

Stored == {"active", "inactive"}

CreateClient(c) == WriteClient(c, {"none"}, "active") /\ UNCHANGED account

\* Only its user updates or deletes a client, and a system client has none.
UpdateClient(c, status) ==
    c \notin {Service, System} /\ WriteClient(c, Stored, status) /\ UNCHANGED account

DeleteClient(c) ==
    c \notin {Service, System} /\ WriteClient(c, Stored, "gone") /\ UNCHANGED account

\* The user of a service account and its client are written together.
UpdateAccount(active) ==
    /\ account' = active
    /\ WriteClient(Service, Stored, IF active THEN "active" ELSE "inactive")

\* The time of a code, or of a refresh token, is over; tokens for credentials have none.
Expire(x) ==
    /\ x \notin expired /\ Present(x) /\ Cardinality(expired) < MaxExpired
    /\ x \notin Grants => token[x].grant # None
    /\ expired' = expired \cup {x}
    /\ UNCHANGED <<client, account, rows, req, history, alone>>

Next ==
    \/ \E r \in Requests :
         \/ \E g \in Codes : BeginExchange(r, g)
         \/ \E d \in Devices : BeginPoll(r, d)
         \/ \E t \in DOMAIN token : BeginRefresh(r, t)
         \/ \E t \in DOMAIN token : BeginRevoke(r, t)
         \/ \E c \in Clients : BeginCredentials(r, c)
         \/ \E d \in Devices, c \in Clients : BeginDevice(r, d, c)
         \/ \E g \in Codes, c \in Clients, u \in Users : BeginConsent(r, g, c, u)
         \/ \E d \in Devices, u \in Users, op \in {"allow", "deny"} :
              BeginDecision(r, d, u, op)
         \/ Consent(r)
         \/ Start(r)
         \/ Allow(r)
         \/ Deny(r)
         \/ Issue(r)
         \/ Revoke(r)
    \/ \E c \in Clients, status \in {"active", "inactive"} : UpdateClient(c, status)
    \/ \E c \in Clients : CreateClient(c)
    \/ \E c \in Clients : DeleteClient(c)
    \/ \E active \in BOOLEAN : UpdateAccount(active)
    \/ \E x \in Grants \cup DOMAIN token : Expire(x)

Spec == Init /\ [][Next]_vars

-----------------------------------------------------------------------------
(* Properties *)

\* Whoever a token acts for has allowed it to the client that holds it; only the
\* client of the service account gets a token without anybody's consent, and the
\* token acts for the account.  This holds however decisions, exchanges and
\* refreshes overlap: token.py copies the user from a row that is long gone.
TokensFromConsent ==
    \A t \in DOMAIN token :
        IF token[t].grant = None
        THEN token[t] \in [grant : {None}, client : {Service}, user : {Account},
                           revoked : BOOLEAN, row : BOOLEAN]
                    \cup [grant : {None}, client : {System}, user : {None},
                          revoked : BOOLEAN, row : BOOLEAN]
        ELSE <<token[t].grant, token[t].client, token[t].user>> \in allowed

\* What the user allowed once is one row for ever: the code, or the token that it
\* was exchanged or refreshed for.  Overlapping requests that spend one row each
\* issue a token, and each but one of them deletes nothing: a code that two exchange at
\* once is not the "single use" that token.py has it for.
RowsOf(g) == {t \in DOMAIN token : token[t].grant = g /\ token[t].row}

OneRowPerGrant ==
    \A g \in made :
        /\ Cardinality(RowsOf(g)) + (IF grant[g] = None THEN 0 ELSE 1) = 1 + missed[g]
        /\ alone => missed[g] = 0

\* A revocation ends what the user allowed, not only one token of it: where
\* requests do not overlap, no later refresh brings a token of the grant back.
RevokedForGood ==
    alone => \A t \in DOMAIN token : token[t].revoked =>
                \A s \in RowsOf(token[t].grant) : token[s].revoked \/ token[t].grant = None
=============================================================================
