---------------------------- MODULE OAuthProofs ----------------------------
(***************************************************************************)
(* Theorems about OAuth for any clients, users, codes and devices, and any *)
(* number of requests and tokens.                                          *)
(***************************************************************************)
EXTENDS OAuth, FiniteSetTheorems, TLAPS

\* What a request in progress carries from its first step to its commit.
Credentials(c, u) == (c = Service /\ u = Account) \/ (c = System /\ u = None)

IssueAsks(q) ==
    /\ q.client \in Clients
    /\ \/ /\ q.from = None /\ q.grant = None
          /\ Credentials(q.client, q.user)
       \/ /\ q.grant \in made
          /\ <<q.grant, q.client, q.user>> \in allowed
          /\ \/ q.from = q.grant
             \/ q.from \in DOMAIN token /\ token[q.from].grant = q.grant

AsksFor(q) ==
    /\ q.op \in {"consent", "start"} => q.client \in Clients /\ q.grant \in Grants
    /\ q.op = "consent" => q.user \in Users
    /\ q.op = "start" => q.grant \in Devices /\ q.user = None
    /\ q.op \in {"allow", "deny"} => q.from \in Devices \cap made /\ q.user \in Users
    /\ q.op = "revoke" => q.from \in DOMAIN token
    /\ q.op = "issue" => IssueAsks(q)

Asks == \A r \in Requests : AsksFor(req[r])

\* A grant is made once, and before that nothing is there of it.
MadeOnce ==
    /\ \A g \in Grants \ made : grant[g] = None /\ missed[g] = 0
    /\ \A t \in DOMAIN token : token[t].grant \in made \cup {None}
    /\ \A r \in Requests : req[r].op \in {"consent", "start"} => req[r].grant \notin made
    /\ \A r, s \in Requests :
         /\ req[r].op \in {"consent", "start"} /\ req[s].op \in {"consent", "start"}
         /\ req[r].grant = req[s].grant
         => r = s

\* A row that can be exchanged says who has allowed it.
Approved ==
    /\ \A g \in Grants : grant[g] # None /\ grant[g].status = "approved" =>
         <<g, grant[g].client, grant[g].user>> \in allowed
    /\ \A g \in Codes : grant[g] # None => grant[g].status = "approved"

\* Requests that do not overlap: one at a time, about a row that is there.
Single ==
    alone =>
      /\ \A r, s \in Requests : req[r] # Idle /\ req[s] # Idle => r = s
      /\ \A r \in Requests : req[r].op = "issue" /\ req[r].from # None => Present(req[r].from)
      /\ \A g \in Grants : missed[g] = 0

\* One row per grant, said without counting.
OneRowAlone ==
    alone => \A g \in Grants :
      /\ \A s, t \in RowsOf(g) : s = t
      /\ grant[g] # None => RowsOf(g) = {}

\* A revoked token keeps its row, and no request is about to make another.
RevokedKept ==
    alone =>
      /\ \A t \in DOMAIN token : token[t].revoked => token[t].row
      /\ \A r \in Requests : req[r].op = "issue" /\ req[r].grant # None =>
           \A t \in DOMAIN token : token[t].grant = req[r].grant => ~token[t].revoked

Inv == /\ TypeOK /\ Asks /\ MadeOnce /\ Approved /\ Single
       /\ OneRowAlone /\ RevokedKept
       /\ TokensFromConsent /\ RevokedForGood /\ OneRowPerGrant

-----------------------------------------------------------------------------
LEMMA InitInv == Init => Inv
  <1> SUFFICES ASSUME Init PROVE Inv
    OBVIOUS
  <1> USE DEF Init
  <1>1. token \in Seq(Token) /\ DOMAIN token = {}
    OBVIOUS
  <1>2. Idle \in Request
    BY DEF Idle, Request
  <1>3. TypeOK
    BY <1>1, <1>2, OAuthAssumption DEF TypeOK
  <1>4. \A r \in Requests : req[r] = Idle /\ req[r].op = "idle"
    BY DEF Idle
  <1>5. Asks /\ MadeOnce /\ Approved
    BY <1>1, <1>4 DEF Asks, AsksFor, MadeOnce, Approved, Grants
  <1>6. Single /\ OneRowAlone /\ RevokedKept
    BY <1>1, <1>4 DEF Single, OneRowAlone, RevokedKept, RowsOf
  <1>7. TokensFromConsent /\ RevokedForGood /\ OneRowPerGrant
    BY <1>1 DEF TokensFromConsent, RevokedForGood, OneRowPerGrant
  <1>8. QED
    BY <1>3, <1>5, <1>6, <1>7 DEF Inv

\* A step that leaves the rows and the histories alone keeps what is said of these.
LEMMA RowsKept ==
  ASSUME Inv, UNCHANGED <<rows, history, alone>>
  PROVE  /\ Approved' /\ OneRowAlone' /\ TokensFromConsent' /\ RevokedForGood'
         /\ OneRowPerGrant'
  BY DEF Inv, rows, history, Approved, OneRowAlone, TokensFromConsent, RevokedForGood,
         OneRowPerGrant, RowsOf

\* Nothing of the invariant is about clients, the account or the time but their types.
LEMMA QuietInv ==
  ASSUME Inv, UNCHANGED <<rows, history, alone, req>>,
         client' \in [Clients -> {"none", "active", "inactive", "gone"}],
         account' \in BOOLEAN,
         expired' \subseteq Grants \cup DOMAIN token
  PROVE  Inv'
  <1>1. TypeOK'
    BY DEF Inv, TypeOK, rows, history
  <1>2. Asks' /\ MadeOnce' /\ Single' /\ RevokedKept'
    BY DEF Inv, rows, history, Asks, AsksFor, IssueAsks, Credentials, MadeOnce, Single,
           RevokedKept, Present
  <1>3. QED
    BY <1>1, <1>2, RowsKept DEF Inv

-----------------------------------------------------------------------------
(* How requests begin.                                                     *)

\* A request may begin with q when q is of its type, asks for what is there, makes a
\* grant that nobody makes, and, where requests are alone, spends a row that is
\* there and not one of a revoked grant.
MayBegin(q) ==
    /\ q \in Request /\ q.op # "idle" /\ AsksFor(q)
    /\ q.op \in {"consent", "start"} =>
         q.grant \notin made /\ \A s \in Requests : req[s].grant # q.grant
    /\ q.op = "issue" /\ q.from # None => Present(q.from)
    /\ alone /\ q.op = "issue" /\ q.grant # None =>
         \A t \in DOMAIN token : token[t].grant = q.grant => ~token[t].revoked

LEMMA BeginInv ==
  ASSUME Inv, NEW r \in Requests, NEW q, Begin(r, q), MayBegin(q)
  PROVE  Inv'
  <1> USE DEF Begin
  <1>1. /\ \A s \in Requests : req'[s] = IF s = r THEN q ELSE req[s]
        /\ req' \in [Requests -> Request]
    BY DEF Inv, TypeOK, MayBegin
  <1>2. UNCHANGED <<client, account, grant, token, expired, allowed, made, missed, alone>>
    BY DEF rows, history
  <1> HIDE DEF Begin
  <1>3. TypeOK'
    BY <1>1, <1>2 DEF Inv, TypeOK
  <1>4. Asks'
    BY <1>1, <1>2 DEF Inv, Asks, AsksFor, IssueAsks, Credentials, MayBegin
  <1>5. MadeOnce'
    BY <1>1, <1>2 DEF Inv, MadeOnce, MayBegin
  <1>6. Single'
    <2>1. alone => \A s \in Requests : req[s] = Idle
      BY DEF Begin, Free
    <2>2. Idle.op = "idle"
      BY DEF Idle
    <2>3. QED
      BY <1>1, <1>2, <2>1, <2>2 DEF Inv, Single, MayBegin, Present
  <1>7. RevokedKept'
    BY <1>1, <1>2 DEF Inv, RevokedKept, MayBegin
  <1>8. QED
    BY <1>2, <1>3, <1>4, <1>5, <1>6, <1>7, RowsKept DEF Inv, rows, history

\* Where requests are alone, a row that may be spent is not one of a revoked grant.
LEMMA NotRevoked ==
  ASSUME Inv, alone, NEW g \in Grants,
         \/ grant[g] # None
         \/ \E t \in RowsOf(g) : ~token[t].revoked
  PROVE  \A t \in DOMAIN token : token[t].grant = g => ~token[t].revoked
  BY DEF Inv, OneRowAlone, RevokedKept, RowsOf

LEMMA BeginConsentInv ==
  ASSUME Inv, NEW r \in Requests, NEW g \in Codes, NEW c \in Clients, NEW u \in Users,
         BeginConsent(r, g, c, u)
  PROVE  Inv'
  <1> DEFINE q == [op |-> "consent", from |-> None, grant |-> g, client |-> c, user |-> u]
  <1>1. q \in Request
    BY DEF Request, Grants
  <1>2. MayBegin(q)
    BY <1>1 DEF MayBegin, AsksFor, BeginConsent, Fresh, Grants
  <1>3. QED
    BY <1>2, BeginInv DEF BeginConsent

LEMMA BeginDeviceInv ==
  ASSUME Inv, NEW r \in Requests, NEW d \in Devices, NEW c \in Clients,
         BeginDevice(r, d, c)
  PROVE  Inv'
  <1> DEFINE q == [op |-> "start", from |-> None, grant |-> d, client |-> c, user |-> None]
  <1>1. q \in Request
    BY DEF Request, Grants
  <1>2. MayBegin(q)
    BY <1>1 DEF MayBegin, AsksFor, BeginDevice, Fresh, Grants
  <1>3. QED
    BY <1>2, BeginInv DEF BeginDevice

LEMMA BeginDecisionInv ==
  ASSUME Inv, NEW r \in Requests, NEW d \in Devices, NEW u \in Users,
         NEW op \in {"allow", "deny"}, BeginDecision(r, d, u, op)
  PROVE  Inv'
  <1> DEFINE q == [op |-> op, from |-> d, grant |-> d, client |-> None, user |-> u]
  <1>1. q \in Request
    BY DEF Request, Grants
  <1>2. d \in made
    BY DEF Inv, MadeOnce, BeginDecision, Grants
  <1>3. MayBegin(q)
    BY <1>1, <1>2 DEF MayBegin, AsksFor
  <1>4. QED
    BY <1>3, BeginInv DEF BeginDecision

\* The four kinds of request that issue tokens ask for what MayBegin wants of them.
LEMMA BeginIssueInv ==
  ASSUME Inv, NEW r \in Requests, NEW from, NEW g, NEW c \in Clients, NEW u,
         BeginIssue(r, from, g, c, u),
         from \in Grants \cup Nat \cup {None}, g \in Grants \cup {None},
         u \in Users \cup {Account, None},
         IssueAsks([op |-> "issue", from |-> from, grant |-> g, client |-> c, user |-> u]),
         from # None => Present(from),
         alone /\ g # None => \A t \in DOMAIN token : token[t].grant = g => ~token[t].revoked
  PROVE  Inv'
  <1> DEFINE q == [op |-> "issue", from |-> from, grant |-> g, client |-> c, user |-> u]
  <1>1. q \in Request
    BY DEF Request
  <1>2. MayBegin(q)
    BY <1>1 DEF MayBegin, AsksFor
  <1>3. QED
    BY <1>2, BeginInv DEF BeginIssue

LEMMA BeginFromGrantInv ==
  ASSUME Inv, NEW r \in Requests, NEW g \in Grants,
         grant[g] # None, grant[g].status = "approved",
         BeginIssue(r, g, g, grant[g].client, grant[g].user)
  PROVE  Inv'
  <1>1. grant[g] \in Grant
    BY DEF Inv, TypeOK
  <1>2. g \in made /\ <<g, grant[g].client, grant[g].user>> \in allowed
    BY DEF Inv, MadeOnce, Approved
  <1>3. Present(g)
    BY DEF Present
  <1>4. grant[g].client \in Clients /\ grant[g].user \in Users \cup {Account, None}
    BY <1>1 DEF Grant
  <1>5. IssueAsks([op |-> "issue", from |-> g, grant |-> g, client |-> grant[g].client,
                   user |-> grant[g].user])
    BY <1>2, <1>4 DEF IssueAsks
  <1>6. QED
    BY <1>3, <1>4, <1>5, NotRevoked, BeginIssueInv

LEMMA BeginRefreshInv ==
  ASSUME Inv, NEW r \in Requests, NEW t \in DOMAIN token, BeginRefresh(r, t)
  PROVE  Inv'
  <1>1. token[t] \in Token /\ t \in Nat
    BY DEF Inv, TypeOK
  <1>2. /\ token[t].client \in Clients /\ token[t].user \in Users \cup {Account, None}
        /\ token[t].grant \in Grants \cup {None}
    BY <1>1 DEF Token
  <1>3. token[t].grant \in made /\ token[t].grant \in Grants
    BY <1>2 DEF Inv, MadeOnce, BeginRefresh, Refreshable
  <1>4. <<token[t].grant, token[t].client, token[t].user>> \in allowed
    BY DEF Inv, TokensFromConsent, BeginRefresh, Refreshable
  <1>5. IssueAsks([op |-> "issue", from |-> t, grant |-> token[t].grant,
                   client |-> token[t].client, user |-> token[t].user])
    BY <1>2, <1>3, <1>4 DEF IssueAsks
  <1>6. Present(t)
    BY <1>1, OAuthAssumption DEF Present, BeginRefresh, Refreshable
  <1>7. alone => \A s \in DOMAIN token : token[s].grant = token[t].grant => ~token[s].revoked
    BY <1>3, NotRevoked DEF RowsOf, BeginRefresh, Refreshable
  <1>8. QED
    BY <1>1, <1>2, <1>5, <1>6, <1>7, BeginIssueInv DEF BeginRefresh

LEMMA BeginCredentialsInv ==
  ASSUME Inv, NEW r \in Requests, NEW c \in Clients, BeginCredentials(r, c)
  PROVE  Inv'
  <1> DEFINE u == IF c = Service THEN Account ELSE None
  <1>1. IssueAsks([op |-> "issue", from |-> None, grant |-> None, client |-> c, user |-> u])
    BY DEF IssueAsks, Credentials, BeginCredentials
  <1>2. QED
    BY <1>1, BeginIssueInv DEF BeginCredentials

LEMMA BeginRevokeInv ==
  ASSUME Inv, NEW r \in Requests, NEW t \in DOMAIN token, BeginRevoke(r, t)
  PROVE  Inv'
  <1> DEFINE q == [op |-> "revoke", from |-> t, grant |-> token[t].grant,
                   client |-> token[t].client, user |-> None]
  <1>1. token[t] \in Token /\ t \in Nat
    BY DEF Inv, TypeOK
  <1>2. q \in Request
    BY <1>1 DEF Request, Token
  <1>3. MayBegin(q)
    BY <1>2 DEF MayBegin, AsksFor
  <1>4. QED
    BY <1>3, BeginInv DEF BeginRevoke

-----------------------------------------------------------------------------
(* How requests commit.                                                    *)

\* The rows of a grant's tokens are finitely many.
LEMMA RowsFinite ==
  ASSUME TypeOK, NEW g
  PROVE  IsFiniteSet(RowsOf(g)) /\ Cardinality(RowsOf(g)) \in Nat
  <1>1. DOMAIN token = 1..Len(token) /\ Len(token) \in Nat
    BY DEF TypeOK
  <1>2. IsFiniteSet(DOMAIN token)
    BY <1>1, FS_Interval
  <1>3. RowsOf(g) \subseteq DOMAIN token
    BY DEF RowsOf
  <1>4. QED
    BY <1>2, <1>3, FS_Subset, FS_CardinalityType

LEMMA FinishReq ==
  ASSUME Inv, NEW r \in Requests, NEW op, Finish(r, op)
  PROVE  /\ \A s \in Requests : req'[s] = IF s = r THEN Idle ELSE req[s]
         /\ req' \in [Requests -> Request]
         /\ Idle.op = "idle" /\ req[r].op = op
  <1>1. Idle \in Request
    BY DEF Idle, Request
  <1>2. QED
    BY <1>1 DEF Inv, TypeOK, Finish, Idle

\* The row of a grant is new, so that there is no token of it and nobody else makes it.
LEMMA MadeInv ==
  ASSUME Inv, NEW r \in Requests, NEW op \in {"consent", "start"}, Finish(r, op),
         NEW status \in {"pending", "approved"}, Made(r, status),
         allowed' \subseteq Grants \X Clients \X Users, allowed \subseteq allowed',
         status = "approved" => <<req[r].grant, req[r].client, req[r].user>> \in allowed',
         status = "pending" => req[r].grant \notin Codes
  PROVE  Inv'
  <1> DEFINE g == req[r].grant
  <1>1. /\ \A s \in Requests : req'[s] = IF s = r THEN Idle ELSE req[s]
        /\ req' \in [Requests -> Request]
        /\ Idle.op = "idle" /\ req[r].op = op
    BY FinishReq
  <1>2. g \in Grants \ made /\ req[r].client \in Clients /\ req[r].user \in Users \cup {None}
    BY <1>1 DEF Inv, Asks, AsksFor, MadeOnce
  <1>3. /\ \A h \in Grants : grant'[h] = IF h = g THEN [client |-> req[r].client,
                                user |-> req[r].user, status |-> status] ELSE grant[h]
        /\ grant' \in [Grants -> Grant \cup {None}]
        /\ grant'[g] # None
    <2>1. [client |-> req[r].client, user |-> req[r].user, status |-> status] \in Grant
      BY <1>2 DEF Grant
    <2>2. [client |-> req[r].client, user |-> req[r].user, status |-> status] # None
      BY <2>1, OAuthAssumption
    <2>3. QED
      BY <1>2, <2>1, <2>2 DEF Made, Inv, TypeOK
  <1>4. /\ made' = made \cup {g}
        /\ UNCHANGED <<client, account, token, expired, missed, alone>>
    BY DEF Made
  <1>5. TypeOK'
    BY <1>1, <1>2, <1>3, <1>4 DEF Inv, TypeOK
  <1>6. Asks'
    BY <1>1, <1>4 DEF Inv, Asks, AsksFor, IssueAsks, Credentials
  <1>7. MadeOnce'
    BY <1>1, <1>2, <1>3, <1>4 DEF Inv, MadeOnce
  <1>8. Approved'
    <2>1. SUFFICES ASSUME NEW h \in Grants, grant'[h] # None
                   PROVE  /\ grant'[h].status = "approved" =>
                               <<h, grant'[h].client, grant'[h].user>> \in allowed'
                          /\ h \in Codes => grant'[h].status = "approved"
      BY DEF Approved, Grants
    <2>2. CASE h = g
      BY <1>2, <1>3, <2>2
    <2>3. CASE h # g
      BY <1>3, <2>1, <2>3 DEF Inv, Approved
    <2>4. QED
      BY <2>2, <2>3
  <1>9. RowsOf(g) = {} /\ \A h \in Grants : RowsOf(h)' = RowsOf(h)
    BY <1>2, <1>4, OAuthAssumption DEF Inv, MadeOnce, RowsOf
  <1>10. Single'
    BY <1>1, <1>3, <1>4 DEF Inv, Single, Present
  <1>11. OneRowAlone'
    BY <1>3, <1>4, <1>9 DEF Inv, OneRowAlone
  <1>12. RevokedKept'
    BY <1>1, <1>4 DEF Inv, RevokedKept
  <1>13. TokensFromConsent'
    BY <1>4 DEF Inv, TokensFromConsent
  <1>14. RevokedForGood'
    BY <1>4 DEF Inv, RevokedForGood, RowsOf
  <1>15. OneRowPerGrant'
    <2>1. missed[g] = 0 /\ Cardinality(RowsOf(g)) = 0
      BY <1>2, <1>9, FS_EmptySet DEF Inv, MadeOnce
    <2>2. made \subseteq Grants
      BY DEF Inv, TypeOK
    <2>3. SUFFICES ASSUME NEW h \in made'
                   PROVE  /\ Cardinality(RowsOf(h)') + (IF grant'[h] = None THEN 0 ELSE 1)
                               = 1 + missed'[h]
                          /\ alone => missed'[h] = 0
      BY <1>4 DEF OneRowPerGrant
    <2>4. CASE h = g
      <3>1. RowsOf(h)' = RowsOf(g)
        BY <1>2, <1>9, <2>4
      <3>2. QED
        BY <1>2, <1>3, <1>4, <2>1, <2>4, <3>1
    <2>5. CASE h # g
      BY <1>2, <1>3, <1>4, <1>9, <2>2, <2>5 DEF Inv, OneRowPerGrant
    <2>6. QED
      BY <2>4, <2>5
  <1>16. QED
    BY <1>5, <1>6, <1>7, <1>8, <1>10, <1>11, <1>12, <1>13, <1>14, <1>15 DEF Inv

LEMMA ConsentInv ==
  ASSUME Inv, NEW r \in Requests, Consent(r)
  PROVE  Inv'
  <1>1. req[r].op = "consent"
    BY DEF Consent, Finish
  <1>2. req[r].grant \in Grants /\ req[r].client \in Clients /\ req[r].user \in Users
    BY <1>1 DEF Inv, Asks, AsksFor
  <1>3. allowed' \subseteq Grants \X Clients \X Users
    BY <1>2 DEF Inv, TypeOK, Consent
  <1>4. QED
    BY <1>3, MadeInv DEF Consent

LEMMA StartInv ==
  ASSUME Inv, NEW r \in Requests, Start(r)
  PROVE  Inv'
  <1>1. req[r].op = "start"
    BY DEF Start, Finish
  <1>2. req[r].grant \notin Codes
    BY <1>1, OAuthAssumption DEF Inv, Asks, AsksFor
  <1>3. QED
    BY <1>2, MadeInv DEF Start, Inv, TypeOK

\* A decision keeps the row, or its absence; an approval says who approved.
LEMMA DecideInv ==
  ASSUME Inv, NEW r \in Requests, NEW op \in {"allow", "deny"}, NEW row, Decide(r, op, row),
         allowed' \subseteq Grants \X Clients \X Users, allowed \subseteq allowed',
         grant[req[r].from] # None =>
            /\ row \in Grant
            /\ row.status = "approved" => <<req[r].from, row.client, row.user>> \in allowed'
  PROVE  Inv'
  <1> DEFINE d == req[r].from
  <1>1. /\ \A s \in Requests : req'[s] = IF s = r THEN Idle ELSE req[s]
        /\ req' \in [Requests -> Request]
        /\ Idle.op = "idle" /\ req[r].op = op
    BY FinishReq DEF Decide
  <1>2. d \in Devices /\ d \in Grants /\ d \notin Codes
    BY <1>1, OAuthAssumption DEF Inv, Asks, AsksFor, Grants
  <1>3. UNCHANGED <<client, account, token, expired, made, missed, alone>>
    BY DEF Decide
  <1>4. /\ grant' \in [Grants -> Grant \cup {None}]
        /\ \A g \in Grants \ {d} : grant'[g] = grant[g]
        /\ grant[d] = None => grant'[d] = None
        /\ grant[d] # None => grant'[d] = row /\ grant'[d] # None
    BY <1>2, OAuthAssumption DEF Decide, Inv, TypeOK
  <1>5. TypeOK'
    BY <1>1, <1>3, <1>4 DEF Inv, TypeOK
  <1>6. Asks'
    BY <1>1, <1>3 DEF Inv, Asks, AsksFor, IssueAsks, Credentials
  <1>7. MadeOnce'
    BY <1>1, <1>3, <1>4 DEF Inv, MadeOnce
  <1>8. Approved'
    <2>1. SUFFICES ASSUME NEW g \in Grants, grant'[g] # None
                   PROVE  /\ grant'[g].status = "approved" =>
                               <<g, grant'[g].client, grant'[g].user>> \in allowed'
                          /\ g \in Codes => grant'[g].status = "approved"
      BY DEF Approved, Grants
    <2>2. CASE g = d
      BY <1>2, <1>4, <2>1, <2>2
    <2>3. CASE g # d
      BY <1>4, <2>1, <2>3 DEF Inv, Approved
    <2>4. QED
      BY <2>2, <2>3
  <1>9. \A g \in Grants : RowsOf(g)' = RowsOf(g) /\ (grant'[g] = None <=> grant[g] = None)
    BY <1>3, <1>4 DEF RowsOf
  <1>10. Single'
    BY <1>1, <1>3, <1>9 DEF Inv, Single, Present
  <1>11. OneRowAlone'
    BY <1>3, <1>9 DEF Inv, OneRowAlone
  <1>12. RevokedKept'
    BY <1>1, <1>3 DEF Inv, RevokedKept
  <1>13. TokensFromConsent'
    BY <1>3 DEF Inv, TokensFromConsent
  <1>14. RevokedForGood'
    BY <1>3 DEF Inv, RevokedForGood, RowsOf
  <1>15. OneRowPerGrant'
    <2>1. \A g \in made : g \in Grants
      BY DEF Inv, TypeOK
    <2>2. QED
      BY <1>3, <1>9, <2>1 DEF Inv, OneRowPerGrant
  <1>16. QED
    BY <1>5, <1>6, <1>7, <1>8, <1>10, <1>11, <1>12, <1>13, <1>14, <1>15 DEF Inv

LEMMA AllowInv ==
  ASSUME Inv, NEW r \in Requests, Allow(r)
  PROVE  Inv'
  <1> DEFINE d == req[r].from
             row == [grant[d] EXCEPT !.user = req[r].user, !.status = "approved"]
  <1>1. req[r].op = "allow"
    BY DEF Allow, Decide, Finish
  <1>2. d \in Grants /\ req[r].user \in Users
    BY <1>1 DEF Inv, Asks, AsksFor, Grants
  <1>3. grant[d] # None => grant[d] \in Grant
    BY <1>2 DEF Inv, TypeOK
  <1>4. grant[d] # None => /\ row \in Grant
                           /\ row.client = grant[d].client /\ row.user = req[r].user
                           /\ grant[d].client \in Clients
    BY <1>2, <1>3 DEF Grant
  <1>5. allowed' = IF grant[d] = None THEN allowed
                   ELSE allowed \cup {<<d, grant[d].client, req[r].user>>}
    BY DEF Allow
  <1>6. allowed' \subseteq Grants \X Clients \X Users /\ allowed \subseteq allowed'
    BY <1>2, <1>4, <1>5 DEF Inv, TypeOK
  <1>7. Decide(r, "allow", row)
    BY DEF Allow
  <1>8. grant[d] # None => <<d, row.client, row.user>> \in allowed'
    BY <1>4, <1>5
  <1> HIDE DEF row
  <1>9. QED
    BY <1>4, <1>6, <1>7, <1>8, DecideInv

LEMMA DenyInv ==
  ASSUME Inv, NEW r \in Requests, Deny(r)
  PROVE  Inv'
  <1> DEFINE d == req[r].from
             row == [grant[d] EXCEPT !.status = "denied"]
  <1>1. req[r].op = "deny"
    BY DEF Deny, Decide, Finish
  <1>2. d \in Grants
    BY <1>1 DEF Inv, Asks, AsksFor, Grants
  <1>3. grant[d] # None => row \in Grant /\ row.status # "approved"
    BY <1>2 DEF Inv, TypeOK, Grant
  <1>4. allowed' = allowed /\ allowed \subseteq Grants \X Clients \X Users
    BY DEF Deny, Inv, TypeOK
  <1>5. Decide(r, "deny", row)
    BY DEF Deny
  <1>6. QED
    BY <1>3, <1>4, <1>5, DecideInv

LEMMA RevokeInv ==
  ASSUME Inv, NEW r \in Requests, Revoke(r)
  PROVE  Inv'
  <1> DEFINE t == req[r].from
  <1>1. /\ \A s \in Requests : req'[s] = IF s = r THEN Idle ELSE req[s]
        /\ req' \in [Requests -> Request]
        /\ Idle.op = "idle" /\ req[r].op = "revoke"
    BY FinishReq DEF Revoke
  <1>2. t \in DOMAIN token
    BY <1>1 DEF Inv, Asks, AsksFor
  <1>3. UNCHANGED <<client, account, grant, expired, allowed, made, missed, alone>>
    BY DEF Revoke, history
  <1>4. /\ token' \in Seq(Token) /\ DOMAIN token' = DOMAIN token
        /\ \A s \in DOMAIN token :
             /\ token'[s].grant = token[s].grant /\ token'[s].client = token[s].client
             /\ token'[s].user = token[s].user /\ token'[s].row = token[s].row
             /\ token'[s].revoked = IF s = t THEN token[t].revoked \/ token[t].row
                                    ELSE token[s].revoked
    <2>1. token[t] \in Token /\ token' = [token EXCEPT ![t].revoked = token[t].revoked \/ token[t].row]
      BY <1>2 DEF Revoke, Inv, TypeOK
    <2>2. [token[t] EXCEPT !.revoked = token[t].revoked \/ token[t].row] \in Token
      BY <2>1 DEF Token
    <2>3. token' = [token EXCEPT ![t] = [token[t] EXCEPT !.revoked = token[t].revoked \/ token[t].row]]
      BY <2>1
    <2>4. token' \in Seq(Token) /\ DOMAIN token' = DOMAIN token
      BY <1>2, <2>2, <2>3 DEF Inv, TypeOK
    <2>5. \A s \in DOMAIN token : s # t => token'[s] = token[s]
      BY <2>3
    <2>6. token'[t] = [token[t] EXCEPT !.revoked = token[t].revoked \/ token[t].row]
      BY <1>2, <2>3
    <2>7. /\ token'[t].grant = token[t].grant /\ token'[t].client = token[t].client
          /\ token'[t].user = token[t].user /\ token'[t].row = token[t].row
          /\ token'[t].revoked = (token[t].revoked \/ token[t].row)
      BY <2>1, <2>6 DEF Token
    <2>8. QED
      BY <2>4, <2>5, <2>7
  <1>5. TypeOK'
    BY <1>1, <1>3, <1>4 DEF Inv, TypeOK
  <1>6. Asks'
    BY <1>1, <1>3, <1>4 DEF Inv, Asks, AsksFor, IssueAsks, Credentials
  <1>7. MadeOnce' /\ Approved'
    BY <1>1, <1>3, <1>4 DEF Inv, MadeOnce, Approved
  <1>8. \A g : RowsOf(g)' = RowsOf(g)
    BY <1>4 DEF RowsOf
  <1>9. Single'
    BY <1>1, <1>3, <1>4 DEF Inv, Single, Present, Asks, AsksFor, IssueAsks
  <1>10. OneRowAlone'
    BY <1>3, <1>8 DEF Inv, OneRowAlone
  <1>11. RevokedKept'
    <2>1. SUFFICES ASSUME alone
                   PROVE  /\ \A s \in DOMAIN token' : token'[s].revoked => token'[s].row
                          /\ \A s \in Requests : req'[s].op # "issue"
      BY <1>3 DEF RevokedKept
    <2>2. \A s \in DOMAIN token' : token'[s].revoked => token'[s].row
      BY <1>2, <1>4, <2>1 DEF Inv, RevokedKept
    <2>3. \A s \in Requests : s # r => req[s] = Idle
      BY <1>1, <2>1 DEF Inv, Single
    <2>4. QED
      BY <1>1, <2>2, <2>3
  <1>12. TokensFromConsent'
    <2>1. SUFFICES ASSUME NEW s \in DOMAIN token
                   PROVE  IF token'[s].grant = None
                          THEN token'[s] \in
                                 [grant : {None}, client : {Service}, user : {Account},
                                  revoked : BOOLEAN, row : BOOLEAN]
                                   \cup [grant : {None}, client : {System}, user : {None},
                                         revoked : BOOLEAN, row : BOOLEAN]
                          ELSE <<token'[s].grant, token'[s].client, token'[s].user>> \in allowed'
      BY <1>4 DEF TokensFromConsent
    <2>2. token'[s] \in Token
      BY <1>4
    <2>3. CASE token[s].grant = None
      <3>1. Credentials(token[s].client, token[s].user)
        BY <2>3 DEF Inv, TokensFromConsent, Credentials
      <3>2. QED
        BY <1>4, <2>2, <2>3, <3>1 DEF Token, Credentials
    <2>4. CASE token[s].grant # None
      BY <1>3, <1>4, <2>4 DEF Inv, TokensFromConsent
    <2>5. QED
      BY <2>3, <2>4
  <1>13. RevokedForGood'
    <2>1. SUFFICES ASSUME alone, NEW x \in DOMAIN token, token'[x].revoked,
                          NEW s \in RowsOf(token[x].grant), token[x].grant # None
                   PROVE  token'[s].revoked
      BY <1>3, <1>4, <1>8 DEF RevokedForGood
    <2>2. s \in DOMAIN token /\ token[s].grant = token[x].grant /\ token[s].row
      BY DEF RowsOf
    <2>3. CASE token[x].revoked
      BY <1>4, <2>1, <2>2, <2>3 DEF Inv, RevokedForGood
    <2>4. CASE ~token[x].revoked
      <3>1. x = t /\ token[x].row
        BY <1>4, <2>1, <2>4
      <3>2. x \in RowsOf(token[x].grant)
        BY <3>1 DEF RowsOf
      <3>3. token[x].grant \in Grants
        BY <2>1 DEF Inv, TypeOK, MadeOnce
      <3>4. s = x
        BY <2>1, <3>2, <3>3 DEF Inv, OneRowAlone
      <3>5. QED
        BY <2>1, <3>4
    <2>5. QED
      BY <2>3, <2>4
  <1>14. OneRowPerGrant'
    BY <1>3, <1>8 DEF Inv, OneRowPerGrant
  <1>15. QED
    BY <1>5, <1>6, <1>7, <1>9, <1>10, <1>11, <1>12, <1>13, <1>14 DEF Inv

\* The tokens after the commit of a request that issues one.
LEMMA SpentTokens ==
  ASSUME TypeOK, NEW x, NEW new \in Token,
         token' = Append([t \in DOMAIN token |->
                             [token[t] EXCEPT !.row = token[t].row /\ t # x]], new)
  PROVE  /\ token' \in Seq(Token)
         /\ DOMAIN token' = DOMAIN token \cup {Len(token) + 1}
         /\ Len(token) + 1 \in Nat \ DOMAIN token /\ DOMAIN token \subseteq Nat
         /\ token'[Len(token) + 1] = new
         /\ \A t \in DOMAIN token :
              /\ token'[t].grant = token[t].grant /\ token'[t].client = token[t].client
              /\ token'[t].user = token[t].user /\ token'[t].revoked = token[t].revoked
              /\ token'[t].row = (token[t].row /\ t # x)
  <1> DEFINE old == [t \in DOMAIN token |-> [token[t] EXCEPT !.row = token[t].row /\ t # x]]
  <1>1. token \in Seq(Token) /\ Len(token) \in Nat /\ DOMAIN token = 1..Len(token)
    BY DEF TypeOK
  <1>2. \A t \in DOMAIN token : token[t] \in Token
    BY <1>1
  <1>3. \A t \in DOMAIN token : old[t] \in Token
    BY <1>2 DEF Token
  <1>4. /\ old \in Seq(Token) /\ Len(old) = Len(token)
        /\ \A t \in DOMAIN token : old[t] = [token[t] EXCEPT !.row = token[t].row /\ t # x]
    BY <1>1, <1>3
  <1>5. \A t \in DOMAIN token :
              /\ old[t].grant = token[t].grant /\ old[t].client = token[t].client
              /\ old[t].user = token[t].user /\ old[t].revoked = token[t].revoked
              /\ old[t].row = (token[t].row /\ t # x)
    BY <1>2, <1>4 DEF Token
  <1> HIDE DEF old
  <1>6. token' = Append(old, new)
    BY DEF old
  <1>7. /\ token' \in Seq(Token) /\ DOMAIN token' = 1..(Len(token) + 1)
        /\ token'[Len(token) + 1] = new
        /\ \A t \in DOMAIN token : token'[t] = old[t]
    BY <1>1, <1>4, <1>6
  <1>8. DOMAIN token' = DOMAIN token \cup {Len(token) + 1} /\ Len(token) + 1 \notin DOMAIN token
    BY <1>1, <1>7
  <1>9. \A t \in DOMAIN token :
              /\ token'[t].grant = token[t].grant /\ token'[t].client = token[t].client
              /\ token'[t].user = token[t].user /\ token'[t].revoked = token[t].revoked
              /\ token'[t].row = (token[t].row /\ t # x)
    BY <1>5, <1>7
  <1>10. QED
    BY <1>1, <1>7, <1>8, <1>9

LEMMA IssueInv ==
  ASSUME Inv, NEW r \in Requests, Issue(r)
  PROVE  Inv'
  <1> DEFINE q == req[r]
             x == q.from
             g == q.grant
             n == Len(token) + 1
             new == [grant |-> g, client |-> q.client, user |-> q.user,
                     revoked |-> FALSE, row |-> TRUE]
  <1>1. /\ \A s \in Requests : req'[s] = IF s = r THEN Idle ELSE req[s]
        /\ req' \in [Requests -> Request]
        /\ Idle.op = "idle" /\ q.op = "issue"
    BY FinishReq DEF Issue
  <1>2. UNCHANGED <<client, account, expired, allowed, made, alone>>
    BY DEF Issue
  <1>3. IssueAsks(q) /\ q \in Request
    BY <1>1 DEF Inv, Asks, AsksFor, TypeOK
  <1>4. new \in Token
    BY <1>3 DEF Token, Request, IssueAsks
  <1>5. /\ token' \in Seq(Token) /\ DOMAIN token' = DOMAIN token \cup {n}
        /\ n \in Nat \ DOMAIN token /\ DOMAIN token \subseteq Nat /\ token'[n] = new
        /\ \A t \in DOMAIN token :
              /\ token'[t].grant = token[t].grant /\ token'[t].client = token[t].client
              /\ token'[t].user = token[t].user /\ token'[t].revoked = token[t].revoked
              /\ token'[t].row = (token[t].row /\ t # x)
    <2>1. TypeOK
      BY DEF Inv
    <2>2. token' = Append([t \in DOMAIN token |->
                             [token[t] EXCEPT !.row = token[t].row /\ t # x]], new)
      BY DEF Issue, Spent
    <2> HIDE DEF x, new
    <2>3. QED
      BY <1>4, <2>1, <2>2, SpentTokens
  <1>6. /\ grant' = [h \in Grants |-> IF h = x THEN None ELSE grant[h]]
        /\ missed' = [h \in Grants |-> IF h = g /\ ~Present(x) THEN missed[h] + 1
                                       ELSE missed[h]]
    BY DEF Issue
  <1>7. \/ x = None /\ g = None /\ Credentials(q.client, q.user)
        \/ /\ g \in made /\ g \in Grants /\ <<g, q.client, q.user>> \in allowed
           /\ \/ x = g /\ x \notin DOMAIN token /\ (Present(x) <=> grant[g] # None)
              \/ /\ x \in DOMAIN token /\ x \notin Grants /\ token[x].grant = g
                 /\ Present(x) <=> token[x].row
    <2>1. made \subseteq Grants
      BY DEF Inv, TypeOK
    <2>2. QED
      BY <1>3, <1>5, <2>1, OAuthAssumption DEF IssueAsks, Present
  <1>8. new.grant = g /\ new.client = q.client /\ new.user = q.user
        /\ new.revoked = FALSE /\ new.row = TRUE
    OBVIOUS
  <1>9. g = None => x \notin DOMAIN token /\ x \notin Grants
    BY <1>5, <1>7, OAuthAssumption
  <1> HIDE DEF q, x, g, n, new
  <1>10. TypeOK'
    <2>1. grant' \in [Grants -> Grant \cup {None}] /\ missed' \in [Grants -> Nat]
      BY <1>6 DEF Inv, TypeOK
    <2>2. QED
      BY <1>1, <1>2, <1>5, <2>1 DEF Inv, TypeOK
  <1>11. Asks'
    BY <1>1, <1>2, <1>5 DEF Inv, Asks, AsksFor, IssueAsks, Credentials
  <1>12. MadeOnce'
    <2>1. \A h \in Grants \ made : grant'[h] = None /\ missed'[h] = 0
      BY <1>6, <1>7, <1>9 DEF Inv, MadeOnce
    <2>2. \A t \in DOMAIN token' : token'[t].grant \in made \cup {None}
      BY <1>5, <1>7, <1>8 DEF Inv, MadeOnce
    <2>3. QED
      BY <1>1, <1>2, <2>1, <2>2 DEF Inv, MadeOnce
  <1>13. Approved'
    BY <1>2, <1>6 DEF Inv, Approved, Grants
  <1>14. TokensFromConsent'
    <2>1. SUFFICES ASSUME NEW t \in DOMAIN token'
                   PROVE  IF token'[t].grant = None
                          THEN token'[t] \in
                                 [grant : {None}, client : {Service}, user : {Account},
                                  revoked : BOOLEAN, row : BOOLEAN]
                                   \cup [grant : {None}, client : {System}, user : {None},
                                         revoked : BOOLEAN, row : BOOLEAN]
                          ELSE <<token'[t].grant, token'[t].client, token'[t].user>> \in allowed'
      BY DEF TokensFromConsent
    <2>2. token'[t] \in Token
      <3>1. token' \in Seq(Token)
        BY <1>5
      <3>2. QED
        BY <2>1, <3>1
    <2>3. token'[t].grant = None => Credentials(token'[t].client, token'[t].user)
      <3>1. CASE t = n
        BY <1>5, <1>7, <1>8, <3>1, OAuthAssumption
      <3>2. CASE t \in DOMAIN token
        BY <1>5, <3>2 DEF Inv, TokensFromConsent, Credentials
      <3>3. QED
        BY <1>5, <3>1, <3>2
    <2>4. token'[t].grant # None =>
            <<token'[t].grant, token'[t].client, token'[t].user>> \in allowed'
      BY <1>2, <1>5, <1>7, <1>8 DEF Inv, TokensFromConsent
    <2>5. QED
      BY <2>2, <2>3, <2>4 DEF Token, Credentials
  <1>15. \A h \in Grants :
           RowsOf(h)' = IF h = g THEN (RowsOf(h) \ {x}) \cup {n} ELSE RowsOf(h)
    <2>1. SUFFICES ASSUME NEW h \in Grants, NEW t
                   PROVE  t \in RowsOf(h)' <=> \/ t \in RowsOf(h) /\ (h = g => t # x)
                                               \/ t = n /\ h = g
      BY <1>5 DEF RowsOf
    <2>2. t \in RowsOf(h)' <=> t \in DOMAIN token' /\ token'[t].grant = h /\ token'[t].row
      BY DEF RowsOf
    <2>3. CASE t = n
      BY <1>5, <1>8, <2>2, <2>3 DEF RowsOf
    <2>4. CASE t \in DOMAIN token
      <3>1. t = x => token[t].grant = g
        BY <1>7, <1>9, <2>4
      <3>2. QED
        BY <1>5, <2>2, <2>4, <3>1 DEF RowsOf
    <2>5. QED
      BY <1>5, <2>2, <2>3, <2>4 DEF RowsOf
  <1>16. alone => /\ \A s \in Requests : req'[s] = Idle
                  /\ g # None => Present(x)
                  /\ g # None => \A t \in DOMAIN token : token[t].grant = g => ~token[t].revoked
    <2>1. alone => \A s \in Requests : req[s] # Idle => s = r
      BY <1>1 DEF Inv, Single, q
    <2>2. g # None => x # None
      BY <1>5, <1>7, OAuthAssumption
    <2>3. alone => (x # None => Present(x))
      BY <1>1 DEF Inv, Single, q, x
    <2>4. alone => (g # None => \A t \in DOMAIN token : token[t].grant = g => ~token[t].revoked)
      BY <1>1 DEF Inv, RevokedKept, q, g
    <2>5. QED
      BY <1>1, <2>1, <2>2, <2>3, <2>4
  <1>17. alone => \A h \in Grants : missed'[h] = 0
    BY <1>6, <1>7, <1>16, OAuthAssumption DEF Inv, Single
  <1>18. Single'
    BY <1>1, <1>2, <1>16, <1>17 DEF Single
  <1>19. OneRowAlone'
    <2>1. SUFFICES ASSUME alone, NEW h \in Grants
                   PROVE  /\ \A s, t \in RowsOf(h)' : s = t
                          /\ grant'[h] # None => RowsOf(h)' = {}
      BY <1>2 DEF OneRowAlone
    <2>2. CASE h # g
      BY <1>6, <1>15, <2>1, <2>2 DEF Inv, OneRowAlone
    <2>3. CASE h = g
      <3>1. g # None /\ Present(x)
        BY <1>16, <2>1, <2>3, OAuthAssumption
      <3>2. CASE x = g
        BY <1>6, <1>7, <1>15, <2>1, <2>3, <3>1, <3>2 DEF Inv, OneRowAlone
      <3>3. CASE x \in DOMAIN token /\ x \in RowsOf(g)
        BY <1>6, <1>15, <2>1, <2>3, <3>3 DEF Inv, OneRowAlone
      <3>4. QED
        BY <1>7, <3>1, <3>2, <3>3 DEF RowsOf
    <2>4. QED
      BY <2>2, <2>3
  <1>20. RevokedKept'
    <2>1. SUFFICES ASSUME alone, NEW t \in DOMAIN token', token'[t].revoked
                   PROVE  token'[t].row
      BY <1>1, <1>2, <1>16 DEF RevokedKept
    <2>2. t \in DOMAIN token /\ token[t].revoked /\ token[t].row
      BY <1>5, <1>8, <2>1 DEF Inv, RevokedKept
    <2>3. t # x
      BY <1>7, <1>9, <1>16, <2>1, <2>2
    <2>4. QED
      BY <1>5, <2>2, <2>3
  <1>21. RevokedForGood'
    <2>1. SUFFICES ASSUME alone, NEW t \in DOMAIN token', token'[t].revoked,
                          token'[t].grant # None, NEW s \in RowsOf(token[t].grant)'
                   PROVE  token'[s].revoked
      BY <1>2 DEF RevokedForGood
    <2>2. t \in DOMAIN token /\ token[t].revoked /\ token[t].grant = token'[t].grant
      BY <1>5, <1>8, <2>1
    <2>3. token[t].grant # g /\ token[t].grant \in Grants
      BY <1>16, <2>1, <2>2 DEF Inv, TypeOK, MadeOnce
    <2>4. s \in DOMAIN token' /\ token'[s].grant = token[t].grant /\ token'[s].row
      BY <2>1, <2>2 DEF RowsOf
    <2>5. s \in RowsOf(token[t].grant)
      BY <1>5, <1>8, <2>3, <2>4 DEF RowsOf
    <2>6. QED
      BY <1>5, <2>1, <2>2, <2>5 DEF Inv, RevokedForGood, RowsOf
  <1>22. OneRowPerGrant'
    <2>1. SUFFICES ASSUME NEW h \in made
                   PROVE  Cardinality(RowsOf(h)') + (IF grant'[h] = None THEN 0 ELSE 1)
                            = 1 + missed'[h]
      BY <1>2, <1>17 DEF OneRowPerGrant, Inv, TypeOK
    <2>2. h \in Grants /\ missed[h] \in Nat
          /\ Cardinality(RowsOf(h)) + (IF grant[h] = None THEN 0 ELSE 1) = 1 + missed[h]
      BY DEF Inv, TypeOK, OneRowPerGrant
    <2>3. IsFiniteSet(RowsOf(h)) /\ Cardinality(RowsOf(h)) \in Nat
      BY RowsFinite DEF Inv
    <2>4. CASE h # g
      <3>1. RowsOf(h)' = RowsOf(h)
        BY <1>15, <2>2, <2>4
      <3>2. QED
        BY <1>6, <1>7, <1>9, <2>2, <2>4, <3>1
    <2>5. CASE h = g /\ x \notin RowsOf(g)
      <3>1. RowsOf(h)' = RowsOf(h) \cup {n} /\ n \notin RowsOf(h)
        BY <1>5, <1>15, <2>2, <2>5 DEF RowsOf
      <3>2. Cardinality(RowsOf(h) \cup {n}) = Cardinality(RowsOf(h)) + 1
        BY <2>3, <3>1, FS_AddElement
      <3>3. Cardinality(RowsOf(h)') = Cardinality(RowsOf(h)) + 1
        BY <3>1, <3>2
      <3>4. CASE x = g
        BY <1>6, <1>7, <2>2, <2>3, <2>5, <3>3, <3>4, OAuthAssumption
      <3>5. CASE x # g
        <4>1. ~Present(x) /\ x \notin Grants
          BY <1>7, <2>2, <2>5, <3>5, OAuthAssumption DEF RowsOf
        <4>2. QED
          BY <1>6, <2>2, <2>3, <2>5, <3>3, <4>1
      <3>6. QED
        BY <3>4, <3>5
    <2>6. CASE h = g /\ x \in RowsOf(g)
      <3>1. /\ RowsOf(h)' = (RowsOf(h) \ {x}) \cup {n} /\ n \notin RowsOf(h) \ {x}
            /\ x \in RowsOf(h)
        BY <1>5, <1>15, <2>2, <2>6 DEF RowsOf
      <3>2. /\ IsFiniteSet(RowsOf(h) \ {x})
            /\ Cardinality(RowsOf(h) \ {x}) = Cardinality(RowsOf(h)) - 1
        BY <2>3, <3>1, FS_RemoveElement
      <3>3. Cardinality((RowsOf(h) \ {x}) \cup {n}) = Cardinality(RowsOf(h) \ {x}) + 1
        BY <3>1, <3>2, FS_AddElement
      <3>4. Cardinality(RowsOf(h)') = Cardinality(RowsOf(h))
        BY <2>3, <3>1, <3>2, <3>3
      <3>5. Present(x) /\ x \notin Grants
        BY <1>5, <1>7, <2>2, <2>6, OAuthAssumption DEF RowsOf
      <3>6. QED
        BY <1>6, <2>2, <3>4, <3>5
    <2>7. QED
      BY <2>4, <2>5, <2>6
  <1>23. QED
    BY <1>10, <1>11, <1>12, <1>13, <1>14, <1>18, <1>19, <1>20, <1>21, <1>22 DEF Inv

-----------------------------------------------------------------------------
(* Clients, the account, the time; then every step.                        *)

LEMMA WriteClientInv ==
  ASSUME Inv, NEW c, NEW from,
         NEW status \in {"active", "inactive", "gone"}, WriteClient(c, from, status),
         account' \in BOOLEAN
  PROVE  Inv'
  <1>1. client' \in [Clients -> {"none", "active", "inactive", "gone"}]
    BY DEF Inv, TypeOK, WriteClient
  <1>2. UNCHANGED <<rows, expired, req, history, alone>>
    BY DEF WriteClient
  <1>3. expired' \subseteq Grants \cup DOMAIN token
    BY <1>2 DEF Inv, TypeOK
  <1>4. QED
    BY <1>1, <1>2, <1>3, QuietInv

LEMMA ExpireInv ==
  ASSUME Inv, NEW x \in Grants \cup DOMAIN token, Expire(x)
  PROVE  Inv'
  <1>1. /\ UNCHANGED <<client, account, rows, req, history, alone>>
        /\ expired' = expired \cup {x}
    BY DEF Expire
  <1>2. /\ client' \in [Clients -> {"none", "active", "inactive", "gone"}]
        /\ account' \in BOOLEAN /\ expired' \subseteq Grants \cup DOMAIN token
    BY <1>1 DEF Inv, TypeOK
  <1>3. QED
    BY <1>1, <1>2, QuietInv

LEMMA NextInv == Inv /\ [Next]_vars => Inv'
  <1> SUFFICES ASSUME Inv, [Next]_vars PROVE Inv'
    OBVIOUS
  <1>1. CASE UNCHANGED vars
    <2>1. /\ client' \in [Clients -> {"none", "active", "inactive", "gone"}]
          /\ account' \in BOOLEAN /\ expired' \subseteq Grants \cup DOMAIN token
      BY <1>1 DEF vars, Inv, TypeOK
    <2>2. QED
      BY <1>1, <2>1, QuietInv DEF vars
  <1>2. ASSUME NEW r \in Requests, NEW g \in Codes, BeginExchange(r, g)
        PROVE  Inv'
    <2>1. g \in Grants /\ grant[g].status = "approved"
      BY <1>2 DEF Inv, Approved, BeginExchange, Grants
    <2>2. QED
      BY <1>2, <2>1, BeginFromGrantInv DEF BeginExchange
  <1>3. ASSUME NEW r \in Requests, NEW d \in Devices, BeginPoll(r, d)
        PROVE  Inv'
    BY <1>3, BeginFromGrantInv DEF BeginPoll, Grants
  <1>4. ASSUME NEW c \in Clients, NEW status \in {"active", "inactive"},
               UpdateClient(c, status)
        PROVE  Inv'
    BY <1>4, WriteClientInv DEF UpdateClient, Inv, TypeOK
  <1>5. ASSUME NEW c \in Clients, CreateClient(c) \/ DeleteClient(c)
        PROVE  Inv'
    BY <1>5, WriteClientInv DEF CreateClient, DeleteClient, Inv, TypeOK
  <1>6. ASSUME NEW active \in BOOLEAN, UpdateAccount(active)
        PROVE  Inv'
    BY <1>6, WriteClientInv DEF UpdateAccount
  <1>7. QED
    BY <1>1, <1>2, <1>3, <1>4, <1>5, <1>6, BeginRefreshInv, BeginRevokeInv,
       BeginCredentialsInv, BeginDeviceInv, BeginConsentInv, BeginDecisionInv,
       ConsentInv, StartInv, AllowInv, DenyInv, IssueInv, RevokeInv, ExpireInv DEF Next

\* The strengthening holds initially and every step keeps it.
THEOREM OAuthInv == Spec => []Inv
  <1>1. QED
    BY InitInv, NextInv, PTL DEF Spec

-----------------------------------------------------------------------------
(* What the runs check, for every value of the constants.                  *)

\* Rows, tokens and requests have their types.
THEOREM OAuthTypes == Spec => []TypeOK
  <1>1. Inv => TypeOK
    BY DEF Inv
  <1>2. QED
    BY <1>1, OAuthInv, PTL

\* A token acts for somebody who has allowed it to the client that holds it, or, for a
\* client's own credentials, for the account of the service or for nobody: however
\* decisions, exchanges, refreshes and revocations overlap.
THEOREM ConsentBehindEveryToken == Spec => []TokensFromConsent
  <1>1. Inv => TokensFromConsent
    BY DEF Inv
  <1>2. QED
    BY <1>1, OAuthInv, PTL

\* What was allowed once is one row, the code's or a token's; every further one is a
\* deletion that found nothing, and there is none where requests do not overlap.
THEOREM GrantsKeepOneRow == Spec => []OneRowPerGrant
  <1>1. Inv => OneRowPerGrant
    BY DEF Inv
  <1>2. QED
    BY <1>1, OAuthInv, PTL

\* Where requests do not overlap, a revocation is final: no later refresh brings a token
\* of the same consent back.
THEOREM RevocationIsFinal == Spec => []RevokedForGood
  <1>1. Inv => RevokedForGood
    BY DEF Inv
  <1>2. QED
    BY <1>1, OAuthInv, PTL
=============================================================================
