-------------------------- MODULE AuthServerProofs --------------------------
(***************************************************************************)
(* Theorems about AuthServer for any clients, states and scopes, and any   *)
(* number of requests, logins, pairs of tokens and crashes.                *)
(***************************************************************************)
EXTENDS AuthServer, FiniteSetTheorems, TLAPS

Request == [pc : {"idle", "exchange", "validate", "poll", "resource", "access", "refresh",
                  "count", "delete", "answer"},
            op : {None, "callback", "code", "refresh", "device"},
            state : States \cup {None}, login : {0} \cup DOMAIN login,
            from : {0} \cup DOMAIN pair, pair : {0} \cup DOMAIN pair,
            client : Clients \cup {None}, resource : Resources \cup {None},
            scopes : SUBSET Scopes]

Types ==
    /\ TypeOK
    /\ mapping \in [States -> Flow \cup {None}]
    /\ login \in Seq(Login) /\ Len(login) <= MaxLogins
    /\ pair \in Seq(Pair) /\ Len(pair) <= MaxPairs
    /\ \A p \in DOMAIN pair : pair[p].login \in DOMAIN login
    /\ req \in [Requests -> Request]
    /\ alone \in BOOLEAN

\* Before a request of the browser or of a device has a login.
Begun(r) ==
    LET q == req[r] IN
    /\ q.pc = "exchange" => q.client \in Clients /\ q.state \in States
    /\ q.pc = "validate" => q.login \in DOMAIN login /\ q.state \in States
    /\ q.pc = "poll" => /\ q.client \in Clients /\ q.op = "device"
                        /\ q.from = 0 /\ q.resource = None

\* From its acceptance on, a request acts for a login, with the terms of the login or
\* of the pair it spends; only the storage in the database makes it wait.
Accepted == {"resource", "access", "refresh", "count", "delete", "answer"}

Serves(r) ==
    LET q == req[r] IN
    q.pc \in Accepted =>
      /\ db /\ q.login \in DOMAIN login
      /\ \/ /\ q.op = "refresh" /\ q.from \in DOMAIN pair
            /\ pair[q.from].told /\ pair[q.from].login = q.login
            /\ q.client = pair[q.from].client /\ q.scopes \subseteq pair[q.from].scopes
            /\ q.pc = "resource" => q.resource = pair[q.from].resource
            /\ q.pc # "count"
         \/ /\ q.op \in {"code", "device"} /\ q.from = 0
            /\ q.client = login[q.login].client /\ q.scopes \subseteq login[q.login].scopes
            /\ q.resource = login[q.login].resource
            /\ q.pc \notin {"resource", "delete"}
            /\ q.pc = "count" => q.op = "code"
            /\ q.pc = "answer" => q.op = "device"

\* Once stored, the pair of a request is its own until the client is told of it.
Stored == {"refresh", "count", "delete", "answer"}

Holds(r) ==
    LET q == req[r] IN
    q.pc \in Stored =>
      /\ q.pair \in DOMAIN pair /\ ~pair[q.pair].told
      /\ pair[q.pair].login = q.login /\ pair[q.pair].from = q.from
      /\ q.pc # "refresh" => pair[q.pair].refresh = "db" \/ q.pair \in expired

OwnPairs ==
    \A r, s \in Requests :
      req[r].pc \in Stored /\ req[s].pc \in Stored /\ req[r].pair = req[s].pair => r = s

\* A code that is there has given its client nothing, nor has a device's login that a
\* request is at work for; one root of each login is told.
Untold(l) == \A p \in DOMAIN pair : pair[p].login = l => ~pair[p].told

ForDevice(r) == req[r].pc \in Accepted /\ req[r].op = "device"

ToldOnce ==
    /\ \A l \in code : Untold(l)
    /\ \A r \in Requests : ForDevice(r) => req[r].login \notin code /\ Untold(req[r].login)
    /\ \A r, s \in Requests :
         ForDevice(r) /\ ForDevice(s) /\ req[r].login = req[s].login => r = s
    /\ \A p, q \in DOMAIN pair :
         /\ pair[p].from = 0 /\ pair[p].told /\ pair[q].from = 0 /\ pair[q].told
         /\ pair[p].login = pair[q].login
         => p = q

\* Requests that do not overlap: one at a time, and a refresh spends the newest pair.
InTurn ==
    alone =>
      /\ \A r, s \in Requests : req[r] # Idle /\ req[s] # Idle => r = s
      /\ \A r \in Requests : req[r].pc \in Accepted /\ req[r].op = "refresh" =>
           /\ req[r].from \in Newest(req[r].login)
           /\ pair[req[r].from].refresh = IF req[r].pc = "answer" THEN "gone" ELSE "db"
           /\ req[r].pc = "access" /\ req[r].from \notin expired =>
                req[r].resource = pair[req[r].from].resource

Inv == /\ Types /\ \A r \in Requests : Begun(r) /\ Serves(r) /\ Holds(r)
       /\ OwnPairs /\ ToldOnce /\ InTurn
       /\ LoginKept /\ NewestRefreshes /\ TermsKept

-----------------------------------------------------------------------------
(* The sequences of pairs and logins.                                      *)

LEMMA RemovedPairs ==
  ASSUME NEW from, pair \in Seq(Pair)
  PROVE  /\ Removed(pair, from) \in Seq(Pair)
         /\ Len(Removed(pair, from)) = Len(pair)
         /\ DOMAIN Removed(pair, from) = DOMAIN pair
         /\ \A p \in DOMAIN pair :
              /\ Removed(pair, from)[p].login = pair[p].login
              /\ Removed(pair, from)[p].from = pair[p].from
              /\ Removed(pair, from)[p].client = pair[p].client
              /\ Removed(pair, from)[p].resource = pair[p].resource
              /\ Removed(pair, from)[p].scopes = pair[p].scopes
              /\ Removed(pair, from)[p].told = pair[p].told
              /\ Removed(pair, from)[p].refresh = IF p = from THEN "gone" ELSE pair[p].refresh
  <1> DEFINE new(p) == [pair[p] EXCEPT !.refresh = IF p = from THEN "gone" ELSE pair[p].refresh]
  <1>1. DOMAIN pair = 1..Len(pair) /\ Len(pair) \in Nat /\ \A p \in DOMAIN pair : pair[p] \in Pair
    OBVIOUS
  <1>2. \A p \in DOMAIN pair :
          /\ new(p) \in Pair
          /\ new(p).login = pair[p].login /\ new(p).from = pair[p].from
          /\ new(p).client = pair[p].client /\ new(p).resource = pair[p].resource
          /\ new(p).scopes = pair[p].scopes /\ new(p).told = pair[p].told
          /\ new(p).refresh = IF p = from THEN "gone" ELSE pair[p].refresh
    BY <1>1 DEF Pair
  <1> HIDE DEF new
  <1>3. Removed(pair, from) = [p \in DOMAIN pair |-> new(p)]
    BY DEF Removed, new
  <1>4. /\ Removed(pair, from) \in Seq(Pair) /\ Len(Removed(pair, from)) = Len(pair)
        /\ DOMAIN Removed(pair, from) = DOMAIN pair
        /\ \A p \in DOMAIN pair : Removed(pair, from)[p] = new(p)
    BY <1>1, <1>2, <1>3
  <1>5. QED
    BY <1>2, <1>4

LEMMA Appended ==
  ASSUME NEW S, NEW s \in Seq(S), NEW x \in S
  PROVE  /\ Append(s, x) \in Seq(S) /\ Len(Append(s, x)) = Len(s) + 1
         /\ DOMAIN Append(s, x) = DOMAIN s \cup {Len(s) + 1}
         /\ Len(s) + 1 \in Nat \ DOMAIN s /\ Append(s, x)[Len(s) + 1] = x
         /\ DOMAIN s = 1..Len(s) /\ Len(s) \in Nat
         /\ \A i \in DOMAIN s : Append(s, x)[i] = s[i]
  <1>1. DOMAIN s = 1..Len(s) /\ Len(s) \in Nat
    OBVIOUS
  <1>2. /\ Append(s, x) \in Seq(S) /\ Len(Append(s, x)) = Len(s) + 1
        /\ DOMAIN Append(s, x) = 1..(Len(s) + 1)
        /\ Append(s, x)[Len(s) + 1] = x /\ \A i \in DOMAIN s : Append(s, x)[i] = s[i]
    BY <1>1
  <1>3. DOMAIN Append(s, x) = DOMAIN s \cup {Len(s) + 1} /\ Len(s) + 1 \notin DOMAIN s
    BY <1>1, <1>2
  <1>4. QED
    BY <1>1, <1>2, <1>3

\* What logins and pairs say of a client is never changed.
Kept ==
    /\ alone' = alone /\ expired \subseteq expired'
    /\ Types'
    /\ DOMAIN login \subseteq DOMAIN login' /\ \A l \in DOMAIN login : login'[l] = login[l]
    /\ DOMAIN pair \subseteq DOMAIN pair'
    /\ \A p \in DOMAIN pair :
         /\ pair'[p].login = pair[p].login /\ pair'[p].from = pair[p].from
         /\ pair'[p].client = pair[p].client /\ pair'[p].resource = pair[p].resource
         /\ pair'[p].scopes = pair[p].scopes
         /\ pair[p].told => pair'[p].told

LEMMA InitInv == Init => Inv
  <1> SUFFICES ASSUME Init PROVE Inv
    OBVIOUS
  <1> USE DEF Init
  <1>1. /\ login \in Seq(Login) /\ DOMAIN login = {} /\ Len(login) = 0
        /\ pair \in Seq(Pair) /\ DOMAIN pair = {} /\ Len(pair) = 0
    OBVIOUS
  <1>2. \A r \in Requests : req[r] = Idle /\ req[r].pc = "idle"
    BY DEF Idle
  <1>3. Idle \in Request
    BY DEF Idle, Request
  <1>4. Types
    <2>1. TypeOK
      BY <1>1, AuthServerAssumption DEF TypeOK, Idle
    <2>2. 0 <= MaxLogins /\ 0 <= MaxPairs
      BY AuthServerAssumption
    <2>3. QED
      BY <1>1, <1>3, <2>1, <2>2 DEF Types
  <1>5. \A r \in Requests : Begun(r) /\ Serves(r) /\ Holds(r)
    BY <1>2 DEF Begun, Serves, Holds, Accepted, Stored
  <1>6. OwnPairs /\ ToldOnce /\ InTurn
    BY <1>1, <1>2 DEF OwnPairs, ToldOnce, InTurn, ForDevice, Accepted, Stored
  <1>7. LoginKept /\ NewestRefreshes /\ TermsKept
    BY <1>1 DEF LoginKept, NewestRefreshes, TermsKept
  <1>8. QED
    BY <1>4, <1>5, <1>6, <1>7 DEF Inv

\* The numbers of the pairs; the pair that was spent is an earlier one.
LEMMA PairNumbers ==
  ASSUME Types
  PROVE  /\ DOMAIN pair = 1..Len(pair) /\ Len(pair) \in Nat
         /\ DOMAIN login = 1..Len(login) /\ Len(login) \in Nat
         /\ \A p \in DOMAIN pair : /\ pair[p] \in Pair /\ pair[p].told \in BOOLEAN
                                   /\ pair[p].from \in {0} \cup DOMAIN pair
                                   /\ pair[p].from < p
  <1>1. /\ DOMAIN pair = 1..Len(pair) /\ Len(pair) \in Nat
        /\ DOMAIN login = 1..Len(login) /\ Len(login) \in Nat
    BY DEF Types
  <1>2. \A p \in DOMAIN pair : pair[p] \in Pair /\ pair[p].from < p
    BY DEF Types, TypeOK
  <1>3. \A p \in DOMAIN pair : pair[p].from \in 0..MaxPairs /\ pair[p].told \in BOOLEAN
    BY <1>2 DEF Pair
  <1>4. \A p \in DOMAIN pair : pair[p].from \in {0} \cup DOMAIN pair
    BY <1>1, <1>2, <1>3, AuthServerAssumption
  <1>5. QED
    BY <1>1, <1>2, <1>3, <1>4

\* A request that a step does not touch keeps what is said of it.
LEMMA OtherRequest ==
  ASSUME Inv, Kept, db' = db, NEW s \in Requests, req'[s] = req[s],
         req[s].pc \in Stored =>
           /\ ~pair'[req[s].pair].told
           /\ pair'[req[s].pair].refresh = pair[req[s].pair].refresh \/ req[s].pair \in expired'
  PROVE  Begun(s)' /\ Serves(s)' /\ Holds(s)'
  <1>1. Begun(s)'
    BY DEF Inv, Kept, Begun
  <1>2. Serves(s)'
    BY DEF Inv, Kept, Serves
  <1>3. Holds(s)'
    BY DEF Inv, Kept, Holds
  <1>4. QED
    BY <1>1, <1>2, <1>3

\* The terms of the pairs are kept when those of new pairs are.
LEMMA TermsStay ==
  ASSUME Inv, Kept,
         \A p \in DOMAIN pair' \ DOMAIN pair :
           LET old == IF pair'[p].from = 0 THEN login'[pair'[p].login] ELSE pair'[pair'[p].from] IN
           /\ pair'[p].scopes \subseteq old.scopes /\ pair'[p].client = old.client
           /\ alone /\ pair'[p].from \notin expired => pair'[p].resource = old.resource
  PROVE  TermsKept'
  <1>1. SUFFICES ASSUME NEW p \in DOMAIN pair'
                 PROVE
           LET old == IF pair'[p].from = 0 THEN login'[pair'[p].login] ELSE pair'[pair'[p].from] IN
           /\ pair'[p].scopes \subseteq old.scopes /\ pair'[p].client = old.client
           /\ alone /\ pair'[p].from \notin expired => pair'[p].resource = old.resource
    BY DEF TermsKept, Kept
  <1>2. CASE p \notin DOMAIN pair
    BY <1>2
  <1>3. CASE p \in DOMAIN pair
    <2>1. pair[p].from \in {0} \cup DOMAIN pair /\ pair[p].login \in DOMAIN login
      BY <1>3, PairNumbers DEF Inv, Types
    <2>2. CASE pair[p].from = 0
      BY <1>3, <2>1, <2>2 DEF Inv, Kept, TermsKept
    <2>3. CASE pair[p].from # 0
      BY <1>3, <2>1, <2>3 DEF Inv, Kept, TermsKept
    <2>4. QED
      BY <2>2, <2>3
  <1>4. QED
    BY <1>2, <1>3

\* A step of one request that leaves the pairs alone: it begins, goes on or fails.  A new
\* login is its own; a refresh that it begins spends the newest pair.
LEMMA GotoInv ==
  ASSUME Inv, Kept, NEW r \in Requests,
         UNCHANGED <<db, pair, expired, crashes>>,
         \A s \in Requests : s # r => req'[s] = req[s],
         Begun(r)', Serves(r)', Holds(r)', req[r].pc # "answer",
         req'[r].pc \notin Stored,
         \A l \in code' \ code : l \in DOMAIN login' \ DOMAIN login,
         ForDevice(r)' => req'[r].login \in DOMAIN login' \ (DOMAIN login \cup code'),
         alone /\ req'[r] # Idle => \A s \in Requests : s # r => req[s] = Idle,
         alone /\ req'[r].pc \in Accepted /\ req'[r].op = "refresh" =>
           /\ req'[r].from \in Newest(req'[r].login)
           /\ pair[req'[r].from].refresh = "db" /\ req'[r].pc # "answer"
           /\ req'[r].pc = "access" /\ req'[r].from \notin expired =>
                req'[r].resource = pair[req'[r].from].resource
  PROVE  Inv'
  <1>1. /\ Types' /\ alone' = alone
        /\ \A s \in Requests : req[s].pc \in Stored => ~pair[req[s].pair].told
    BY DEF Kept, Inv, Holds
  <1>2. \A s \in Requests : Begun(s)' /\ Serves(s)' /\ Holds(s)'
    BY <1>1, OtherRequest
  <1>3. OwnPairs'
    BY DEF Inv, OwnPairs
  <1>4. \A p \in DOMAIN pair : pair[p].login \in DOMAIN login
    BY DEF Inv, Types
  <1>5. \A l : l \notin DOMAIN login => Untold(l)'
    BY <1>4 DEF Untold
  <1>6. ToldOnce'
    <2>1. \A l \in code' : Untold(l)'
      BY <1>5 DEF Inv, ToldOnce, Untold
    <2>2. \A s \in Requests : s # r =>
            /\ ForDevice(s)' <=> ForDevice(s)
            /\ ForDevice(s) => /\ req'[s].login = req[s].login
                               /\ req[s].login \in DOMAIN login /\ req[s].login \notin code
      BY DEF Inv, ToldOnce, ForDevice, Serves
    <2>3. \A s \in Requests : s # r /\ ForDevice(s)' =>
            req'[s].login \notin code' /\ Untold(req[s].login)'
      BY <2>2 DEF Inv, ToldOnce, Untold
    <2>4. ForDevice(r)' => req'[r].login \notin code' /\ Untold(req[r].login)'
      BY <1>5 DEF Untold
    <2>5. \A s, t \in Requests :
            ForDevice(s)' /\ ForDevice(t)' /\ req'[s].login = req'[t].login => s = t
      BY <2>2 DEF Inv, ToldOnce
    <2>6. QED
      BY <2>1, <2>3, <2>4, <2>5 DEF Inv, ToldOnce
  <1>7. InTurn'
    <2>1. SUFFICES ASSUME alone
                   PROVE  /\ \A s, t \in Requests : req'[s] # Idle /\ req'[t] # Idle => s = t
                          /\ \A s \in Requests : req'[s].pc \in Accepted /\ req'[s].op = "refresh" =>
                               /\ req'[s].from \in Newest(req'[s].login)
                               /\ pair[req'[s].from].refresh
                                    = IF req'[s].pc = "answer" THEN "gone" ELSE "db"
                               /\ req'[s].pc = "access" /\ req'[s].from \notin expired =>
                                    req'[s].resource = pair[req'[s].from].resource
      BY <1>1 DEF InTurn, Newest, PairsOf
    <2>2. \A s, t \in Requests : req'[s] # Idle /\ req'[t] # Idle => s = t
      BY <2>1 DEF Inv, InTurn
    <2>3. QED
      BY <2>1, <2>2 DEF Inv, InTurn
  <1>8. LoginKept'
    <2>1. SUFFICES ASSUME NEW l \in DOMAIN login', \E p \in PairsOf(l) : pair[p].told,
                          PairsOf(l) \cap expired = {},
                          \A p \in PairsOf(l) : pair[p].refresh \notin {"memory", "lost"}
                   PROVE  \E p \in PairsOf(l) : pair[p].refresh = "db"
      BY DEF LoginKept, PairsOf
    <2>2. l \in DOMAIN login
      BY <1>4, <2>1 DEF PairsOf
    <2>3. QED
      BY <2>1, <2>2 DEF Inv, LoginKept
  <1>9. NewestRefreshes'
    <2>1. SUFFICES ASSUME alone, NEW l \in DOMAIN login'
                   PROVE  /\ \A p \in PairsOf(l) : pair[p].told /\ InStore(p) => p \in Newest(l)
                          /\ \A p \in Newest(l) :
                               InStore(p) \/ p \in expired \/ crashes > 0
                               \/ pair[p].refresh = "cut"
                               \/ \E s \in Requests : req'[s].pc = "answer" /\ req'[s].from = p
      BY <1>1 DEF NewestRefreshes, PairsOf, Newest, InStore
    <2>2. CASE l \in DOMAIN login
      <3>1. \A s \in Requests : req[s].pc = "answer" => req'[s] = req[s]
        OBVIOUS
      <3>2. QED
        BY <2>1, <2>2, <3>1 DEF Inv, NewestRefreshes
    <2>3. CASE l \notin DOMAIN login
      BY <1>4, <2>3 DEF PairsOf, Newest
    <2>4. QED
      BY <2>2, <2>3
  <1>10. TermsKept'
    BY TermsStay
  <1>11. QED
    BY <1>1, <1>2, <1>3, <1>6, <1>7, <1>8, <1>9, <1>10 DEF Inv

\* Time passes, and clients come.
LEMMA QuietInv ==
  ASSUME Inv, Types', UNCHANGED <<db, code, login, pair, req, crashes, alone>>,
         expired \subseteq expired'
  PROVE  Inv'
  <1>1. Kept
    BY DEF Kept
  <1>2. \A r \in Requests : Begun(r)' /\ Serves(r)' /\ Holds(r)'
    BY DEF Inv, Begun, Serves, Holds
  <1>3. OwnPairs' /\ ToldOnce'
    BY DEF Inv, OwnPairs, ToldOnce, ForDevice, Untold
  <1>4. InTurn'
    BY DEF Inv, InTurn, Newest, PairsOf
  <1>5. LoginKept' /\ NewestRefreshes'
    BY DEF Inv, LoginKept, NewestRefreshes, Newest, PairsOf, InStore
  <1>6. TermsKept'
    BY <1>1, TermsStay
  <1>7. QED
    BY <1>2, <1>3, <1>4, <1>5, <1>6 DEF Inv

\* The types after a step: of the requests, and of the rest.
LEMMA RequestTypes ==
  ASSUME Types, NEW r \in Requests, NEW q, req' = [req EXCEPT ![r] = q], q \in Request',
         DOMAIN login \subseteq DOMAIN login', DOMAIN pair \subseteq DOMAIN pair'
  PROVE  /\ req' \in [Requests -> Request']
         /\ \A s \in Requests : req'[s] = IF s = r THEN q ELSE req[s]
         /\ \A s \in Requests :
              /\ req'[s].pc \in {"idle", "exchange", "validate", "poll", "resource",
                                 "access", "refresh", "count", "delete", "answer"}
              /\ req'[s].pair \in {0} \cup DOMAIN pair'
              /\ req'[s].login \in {0} \cup DOMAIN login'
  <1>1. Request \subseteq Request'
    BY DEF Request
  <1>2. \A s \in Requests : req'[s] = IF s = r THEN q ELSE req[s]
    BY DEF Types
  <1>3. \A s \in Requests : req'[s] \in Request'
    BY <1>1, <1>2 DEF Types
  <1>4. req' \in [Requests -> Request']
    BY <1>3 DEF Types
  <1>5. QED
    BY <1>2, <1>3, <1>4 DEF Request

LEMMA RegisterInv ==
  ASSUME Inv, NEW c \in Clients, Register(c)
  PROVE  Inv'
  <1>1. Types'
    BY DEF Inv, Types, TypeOK, Request, Register, memory, tables
  <1>2. QED
    BY <1>1, QuietInv DEF Register, memory, tables

LEMMA AuthorizeInv ==
  ASSUME Inv, NEW s \in States, NEW c \in Clients, NEW resource \in Resources \cup {None},
         Authorize(s, c, resource)
  PROVE  Inv'
  <1>1. [client |-> c, resource |-> resource] \in Flow
    BY DEF Flow
  <1>2. mapping' \in [States -> Flow \cup {None}]
    BY <1>1 DEF Inv, Types, Authorize
  <1>3. Types'
    BY <1>2 DEF Inv, Types, TypeOK, Request, Authorize, tables
  <1>4. QED
    BY <1>3, QuietInv DEF Authorize, tables

LEMMA ExpireInv ==
  ASSUME Inv,
         \/ \E l \in DOMAIN login : ExpireCode(l)
         \/ \E p \in DOMAIN pair : Expire(p)
  PROVE  Inv'
  <1>1. /\ UNCHANGED <<registered, db, memory, login, pair, req, crashes, alone>>
        /\ offered' \subseteq DOMAIN login
        /\ expired \subseteq expired' /\ expired' \subseteq DOMAIN pair
    BY DEF Inv, Types, TypeOK, ExpireCode, Expire, tables
  <1>2. Types'
    BY <1>1 DEF Inv, Types, TypeOK, Request, memory
  <1>3. QED
    BY <1>1, <1>2, QuietInv DEF memory

-----------------------------------------------------------------------------
(* Requests begin, go on and fail.                                         *)

\* One step of a request that changes neither logins nor pairs, and no code.
LEMMA MoveInv ==
  ASSUME Inv, NEW r \in Requests, NEW q \in Request, Goto(r, q),
         UNCHANGED <<registered, db, code, login, pair, expired, crashes, alone>>,
         mapping' \in [States -> Flow \cup {None}], offered' \subseteq DOMAIN login,
         Begun(r)', Serves(r)', req[r].pc # "answer", q.pc \notin Stored,
         q.pc \in Accepted => q.op # "device",
         alone /\ q # Idle => \A s \in Requests : s # r => req[s] = Idle,
         alone /\ q.pc \in Accepted /\ q.op = "refresh" =>
           /\ q.from \in Newest(q.login)
           /\ pair[q.from].refresh = "db"
           /\ q.pc = "access" /\ q.from \notin expired => q.resource = pair[q.from].resource
  PROVE  Inv'
  <1>1. Request' = Request
    BY DEF Request
  <1>2. /\ req' \in [Requests -> Request]
        /\ \A s \in Requests : req'[s] = IF s = r THEN q ELSE req[s]
        /\ \A s \in Requests :
              /\ req'[s].pc \in {"idle", "exchange", "validate", "poll", "resource",
                                 "access", "refresh", "count", "delete", "answer"}
              /\ req'[s].pair \in {0} \cup DOMAIN pair
              /\ req'[s].login \in {0} \cup DOMAIN login
    BY <1>1, RequestTypes DEF Goto, Inv
  <1>3. Types'
    BY <1>1, <1>2 DEF Inv, Types, TypeOK
  <1>4. Kept
    BY <1>3 DEF Kept
  <1>5. Holds(r)' /\ ~ForDevice(r)'
    BY <1>2 DEF Holds, ForDevice
  <1>6. QED
    BY <1>2, <1>4, <1>5, GotoInv DEF Stored

LEMMA BeginCallbackInv ==
  ASSUME Inv, NEW r \in Requests, NEW s \in States, BeginCallback(r, s)
  PROVE  Inv'
  <1> DEFINE q == [Idle EXCEPT !.pc = "exchange", !.op = "callback", !.state = s,
                               !.client = mapping[s].client, !.resource = mapping[s].resource]
  <1>1. mapping[s] \in Flow
    BY DEF Inv, Types, BeginCallback
  <1>2. q \in Request
    BY <1>1 DEF Idle, Request, Flow
  <1>3. q.pc = "exchange" /\ q.client \in Clients /\ q.state \in States
    BY <1>1 DEF Idle, Flow
  <1> HIDE DEF q
  <1>4. /\ Goto(r, q) /\ req[r] = Idle
        /\ UNCHANGED <<registered, db, mapping, code, login, offered, pair, expired, crashes,
                       alone>>
    BY DEF BeginCallback, Begin, memory, tables, q
  <1>5. alone => \A t \in Requests : req[t] = Idle
    BY DEF BeginCallback, Begin, Free
  <1>6. req'[r] = q /\ req[r].pc = "idle"
    BY <1>4 DEF Goto, Inv, Types, Idle
  <1>7. Begun(r)' /\ Serves(r)'
    BY <1>3, <1>6 DEF Begun, Serves, Accepted
  <1>8. mapping' \in [States -> Flow \cup {None}] /\ offered' \subseteq DOMAIN login
    BY <1>4 DEF Inv, Types, TypeOK
  <1>9. QED
    BY <1>2, <1>3, <1>4, <1>5, <1>6, <1>7, <1>8, MoveInv DEF Accepted, Stored

LEMMA BeginPollInv ==
  ASSUME Inv, NEW r \in Requests, NEW c \in Clients, BeginPoll(r, c)
  PROVE  Inv'
  <1> DEFINE q == [Idle EXCEPT !.pc = "poll", !.op = "device", !.client = c]
  <1>1. q \in Request
    BY DEF Idle, Request
  <1>2. /\ q.pc = "poll" /\ q.client \in Clients /\ q.op = "device"
        /\ q.from = 0 /\ q.resource = None
    BY DEF Idle
  <1> HIDE DEF q
  <1>3. /\ Goto(r, q) /\ req[r] = Idle
        /\ UNCHANGED <<registered, db, mapping, code, login, offered, pair, expired, crashes,
                       alone>>
    BY DEF BeginPoll, Begin, memory, tables, q
  <1>4. alone => \A t \in Requests : req[t] = Idle
    BY DEF BeginPoll, Begin, Free
  <1>5. req'[r] = q /\ req[r].pc = "idle"
    BY <1>3 DEF Goto, Inv, Types, Idle
  <1>6. Begun(r)' /\ Serves(r)'
    BY <1>2, <1>5 DEF Begun, Serves, Accepted
  <1>7. mapping' \in [States -> Flow \cup {None}] /\ offered' \subseteq DOMAIN login
    BY <1>3 DEF Inv, Types, TypeOK
  <1>8. QED
    BY <1>1, <1>2, <1>3, <1>4, <1>5, <1>6, <1>7, MoveInv DEF Accepted, Stored

\* A request that ends without an answer leaves what it has done so far.
LEMMA EndInv ==
  ASSUME Inv, NEW r \in Requests, req[r].pc # "answer", Validated(r) \/ Fail(r)
  PROVE  Inv'
  <1>1. /\ Goto(r, Idle) /\ req[r].pc # "answer"
        /\ UNCHANGED <<registered, db, code, login, pair, expired, crashes, alone>>
    BY DEF Validated, Fail, Cut, memory
  <1>2. mapping' \in [States -> Flow \cup {None}] /\ offered' \subseteq DOMAIN login
    <2>1. CASE Fail(r)
      BY <2>1 DEF Inv, Types, TypeOK, Fail, memory
    <2>2. CASE Validated(r)
      BY <2>2 DEF Inv, Types, TypeOK, Begun, Validated
    <2>3. QED
      BY <2>1, <2>2
  <1>3. Idle \in Request /\ Idle.pc = "idle"
    BY DEF Idle, Request
  <1>4. req'[r] = Idle
    BY <1>1 DEF Goto, Inv, Types
  <1>5. Begun(r)' /\ Serves(r)'
    BY <1>3, <1>4 DEF Begun, Serves, Accepted
  <1>6. QED
    BY <1>1, <1>2, <1>3, <1>5, MoveInv DEF Accepted, Stored

LEMMA LoadResourceInv ==
  ASSUME Inv, NEW r \in Requests, LoadResource(r)
  PROVE  Inv'
  <1> DEFINE from == req[r].from
             q == [req[r] EXCEPT !.pc = "access",
                                 !.resource = IF Loaded(from) THEN pair[from].resource
                                              ELSE None]
  <1>1. req[r] \in Request /\ req[r].pc = "resource" /\ Serves(r)
    BY DEF Inv, Types, LoadResource
  <1>2. /\ db /\ req[r].login \in DOMAIN login /\ req[r].op = "refresh" /\ from \in DOMAIN pair
        /\ pair[from].told /\ pair[from].login = req[r].login
        /\ req[r].client = pair[from].client /\ req[r].scopes \subseteq pair[from].scopes
    BY <1>1 DEF Serves, Accepted
  <1>3. pair[from].resource \in Resources \cup {None}
    BY <1>2 DEF Inv, Types, TypeOK, Pair
  <1>4. q \in Request
    <2>1. (IF Loaded(from) THEN pair[from].resource ELSE None) \in Resources \cup {None}
      BY <1>3
    <2>2. \A x \in Resources \cup {None} :
            [req[r] EXCEPT !.pc = "access", !.resource = x] \in Request
      BY <1>1 DEF Request
    <2>3. QED
      BY <2>1, <2>2
  <1>5. /\ q.pc = "access" /\ q.op = "refresh" /\ q.from = from /\ q.login = req[r].login
        /\ q.client = req[r].client /\ q.scopes = req[r].scopes
        /\ q.resource = IF Loaded(from) THEN pair[from].resource ELSE None
    BY <1>1, <1>2 DEF Request
  <1> HIDE DEF q
  <1>6. /\ Goto(r, q)
        /\ UNCHANGED <<registered, db, mapping, code, login, offered, pair, expired, crashes,
                       alone>>
    BY DEF LoadResource, memory, tables, q
  <1>7. req'[r] = q
    BY <1>6 DEF Goto, Inv, Types
  <1>8. Begun(r)' /\ Serves(r)'
    BY <1>2, <1>5, <1>6, <1>7 DEF Begun, Serves
  <1>9. mapping' \in [States -> Flow \cup {None}] /\ offered' \subseteq DOMAIN login
    BY <1>6 DEF Inv, Types, TypeOK
  <1>10. alone => /\ from \in Newest(req[r].login) /\ pair[from].refresh = "db"
                  /\ \A s \in Requests : s # r => req[s] = Idle
    <2>1. req[r] # Idle
      BY <1>1 DEF Idle
    <2>2. alone => \A s \in Requests : s # r => req[s] = Idle
      BY <2>1 DEF Inv, InTurn
    <2>3. alone => from \in Newest(req[r].login) /\ pair[from].refresh = "db"
      BY <1>1, <1>2 DEF Inv, InTurn, Accepted
    <2>4. QED
      BY <2>2, <2>3
  <1>11. alone /\ from \notin expired => q.resource = pair[from].resource
    BY <1>2, <1>5, <1>10 DEF Loaded, Store
  <1>12. QED
    BY <1>1, <1>4, <1>5, <1>6, <1>8, <1>9, <1>10, <1>11, MoveInv DEF Stored

\* With the database, the client's code or refresh token is accepted.
LEMMA BeginCodeDbInv ==
  ASSUME Inv, NEW r \in Requests, NEW l \in DOMAIN login, BeginCode(r, l), db
  PROVE  Inv'
  <1> DEFINE q0 == [Idle EXCEPT !.op = "code", !.login = l, !.client = login[l].client,
                                !.resource = login[l].resource, !.scopes = login[l].scopes]
             q == [q0 EXCEPT !.pc = "access"]
  <1>1. login[l] \in Login
    BY DEF Inv, Types
  <1>2. q \in Request
    BY <1>1 DEF Idle, Request, Login
  <1>3. /\ q.pc = "access" /\ q.op = "code" /\ q.login = l /\ q.from = 0
        /\ q.client = login[l].client /\ q.resource = login[l].resource
        /\ q.scopes = login[l].scopes
    BY DEF Idle
  <1>4. Issue(r, q0, "access")
    BY DEF BeginCode
  <1>5. Goto(r, q) /\ pair' = pair
    BY <1>4 DEF Issue
  <1> HIDE DEF q, q0
  <1>6. UNCHANGED <<registered, db, mapping, code, login, offered, pair, expired, crashes, alone>>
    BY <1>5 DEF BeginCode
  <1>7. (alone => \A t \in Requests : req[t] = Idle) /\ req[r].pc = "idle"
    BY DEF BeginCode, Free, Idle
  <1>8. req'[r] = q
    BY <1>5 DEF Goto, Inv, Types
  <1>9. Begun(r)' /\ Serves(r)'
    BY <1>3, <1>6, <1>8 DEF Begun, Serves
  <1>10. mapping' \in [States -> Flow \cup {None}] /\ offered' \subseteq DOMAIN login
    BY <1>6 DEF Inv, Types, TypeOK
  <1>11. QED
    BY <1>2, <1>3, <1>5, <1>6, <1>7, <1>9, <1>10, MoveInv DEF Stored

LEMMA BeginRefreshDbInv ==
  ASSUME Inv, NEW r \in Requests, NEW p \in DOMAIN pair, NEW scopes \in SUBSET Scopes,
         BeginRefresh(r, p, scopes), db
  PROVE  Inv'
  <1> DEFINE q0 == [Idle EXCEPT !.op = "refresh", !.login = pair[p].login, !.from = p,
                                !.client = pair[p].client, !.resource = pair[p].resource,
                                !.scopes = scopes]
             q == [q0 EXCEPT !.pc = "resource"]
  <1>1. pair[p] \in Pair /\ pair[p].login \in DOMAIN login
    BY DEF Inv, Types, TypeOK
  <1>2. q \in Request
    BY <1>1 DEF Idle, Request, Pair
  <1>3. /\ q.pc = "resource" /\ q.op = "refresh" /\ q.login = pair[p].login /\ q.from = p
        /\ q.client = pair[p].client /\ q.resource = pair[p].resource
        /\ q.scopes = scopes
    BY DEF Idle
  <1>4. Issue(r, q0, "resource")
    BY DEF BeginRefresh
  <1>5. Goto(r, q) /\ pair' = pair
    BY <1>4 DEF Issue
  <1> HIDE DEF q, q0
  <1>6. UNCHANGED <<registered, db, mapping, code, login, offered, pair, expired, crashes, alone>>
    BY <1>5 DEF BeginRefresh, memory
  <1>7. (alone => \A t \in Requests : req[t] = Idle) /\ req[r].pc = "idle"
    BY DEF BeginRefresh, Free, Idle
  <1>8. req'[r] = q
    BY <1>5 DEF Goto, Inv, Types
  <1>9. pair[p].told /\ scopes \subseteq pair[p].scopes /\ pair[p].refresh = "db"
    BY DEF BeginRefresh, Loaded, Store
  <1>10. Begun(r)' /\ Serves(r)'
    BY <1>1, <1>3, <1>6, <1>8, <1>9 DEF Begun, Serves
  <1>11. mapping' \in [States -> Flow \cup {None}] /\ offered' \subseteq DOMAIN login
    BY <1>6 DEF Inv, Types, TypeOK
  <1>12. alone => p \in Newest(pair[p].login)
    BY <1>1, <1>9 DEF Inv, NewestRefreshes, PairsOf, InStore
  <1>13. QED
    BY <1>2, <1>3, <1>5, <1>6, <1>7, <1>9, <1>10, <1>11, <1>12, MoveInv DEF Stored

-----------------------------------------------------------------------------
(* Logins.                                                                 *)

LEMMA NewLoginAt ==
  ASSUME Inv, NEW r \in Requests, NEW scopes \in SUBSET Scopes, req[r].client \in Clients,
         NewLogin(req[r], scopes)
  PROVE  /\ login' \in Seq(Login) /\ Len(login') <= MaxLogins
         /\ DOMAIN login' = DOMAIN login \cup {Len(login')}
         /\ Len(login') \in Nat \ DOMAIN login
         /\ \A l \in DOMAIN login : login'[l] = login[l]
         /\ login'[Len(login')].client = req[r].client
         /\ login'[Len(login')].resource = req[r].resource
         /\ login'[Len(login')].scopes = scopes
  <1> DEFINE new == [client |-> req[r].client, resource |-> req[r].resource, scopes |-> scopes]
  <1>1. new \in Login
    BY DEF Inv, Types, Request, Login
  <1>2. /\ new.client = req[r].client /\ new.resource = req[r].resource
        /\ new.scopes = scopes
    OBVIOUS
  <1> HIDE DEF new
  <1>3. login' = Append(login, new) /\ Len(login) < MaxLogins
    BY DEF NewLogin, Room, new
  <1>4. login \in Seq(Login) /\ Len(login) \in Nat
    BY DEF Inv, Types
  <1>5. /\ login' \in Seq(Login) /\ Len(login') = Len(login) + 1
        /\ DOMAIN login' = DOMAIN login \cup {Len(login) + 1}
        /\ Len(login) + 1 \in Nat \ DOMAIN login /\ login'[Len(login) + 1] = new
        /\ \A l \in DOMAIN login : login'[l] = login[l]
    BY <1>1, <1>3, <1>4, Appended
  <1>6. Len(login') <= MaxLogins
    BY <1>3, <1>4, <1>5, AuthServerAssumption
  <1>7. QED
    BY <1>2, <1>5, <1>6

LEMMA ExchangedInv ==
  ASSUME Inv, NEW r \in Requests, Exchanged(r)
  PROVE  Inv'
  <1> DEFINE l == Len(login')
             q == [req[r] EXCEPT !.pc = "validate", !.login = l]
  <1>1. req[r] \in Request /\ req[r].pc = "exchange"
    BY DEF Inv, Types, Exchanged
  <1>2. req[r].client \in Clients /\ req[r].state \in States
    BY <1>1 DEF Inv, Begun
  <1>3. /\ login' \in Seq(Login) /\ Len(login') <= MaxLogins
        /\ DOMAIN login' = DOMAIN login \cup {l} /\ l \in Nat \ DOMAIN login
        /\ \A m \in DOMAIN login : login'[m] = login[m]
    BY <1>2, NewLoginAt DEF Exchanged
  <1>4. /\ code' = code \cup {l} /\ Goto(r, q)
        /\ UNCHANGED <<registered, db, mapping, offered, pair, expired, crashes, alone>>
    BY DEF Exchanged
  <1>5. q \in Request' /\ q.pc = "validate" /\ q.login = l /\ q.state = req[r].state
    BY <1>1, <1>3, <1>4 DEF Request
  <1> HIDE DEF q, l
  <1>6. /\ req' \in [Requests -> Request']
        /\ \A s \in Requests : req'[s] = IF s = r THEN q ELSE req[s]
        /\ \A s \in Requests :
              /\ req'[s].pc \in {"idle", "exchange", "validate", "poll", "resource",
                                 "access", "refresh", "count", "delete", "answer"}
              /\ req'[s].pair \in {0} \cup DOMAIN pair'
              /\ req'[s].login \in {0} \cup DOMAIN login'
    BY <1>3, <1>4, <1>5, RequestTypes DEF Goto, Inv
  <1>7. TypeOK'
    <2>1. login' \in Seq(Login)
      BY <1>3
    <2>2. \A m \in DOMAIN login' : login'[m] \in Login
      BY <2>1
    <2>3. QED
      BY <1>3, <1>4, <1>6, <2>2 DEF Inv, Types, TypeOK
  <1>8. Types'
    BY <1>3, <1>4, <1>6, <1>7 DEF Inv, Types
  <1>9. Kept
    BY <1>3, <1>4, <1>8 DEF Kept
  <1>10. Begun(r)' /\ Serves(r)' /\ Holds(r)' /\ ~ForDevice(r)'
    BY <1>2, <1>3, <1>5, <1>6 DEF Begun, Serves, Holds, ForDevice, Accepted, Stored
  <1>11. alone => \A s \in Requests : s # r => req[s] = Idle
    BY <1>1 DEF Inv, InTurn, Idle
  <1>12. QED
    BY <1>1, <1>3, <1>4, <1>5, <1>6, <1>9, <1>10, <1>11, GotoInv DEF Accepted, Stored

LEMMA PolledDbInv ==
  ASSUME Inv, NEW r \in Requests, NEW scopes \in SUBSET Scopes, Polled(r, scopes), db
  PROVE  Inv'
  <1> DEFINE l == Len(login')
             q0 == [req[r] EXCEPT !.login = l, !.scopes = scopes]
             q == [q0 EXCEPT !.pc = "access"]
  <1>1. req[r] \in Request /\ req[r].pc = "poll"
    BY DEF Inv, Types, Polled
  <1>2. /\ req[r].client \in Clients /\ req[r].op = "device"
        /\ req[r].from = 0 /\ req[r].resource = None
    BY <1>1 DEF Inv, Begun
  <1>3. /\ login' \in Seq(Login) /\ Len(login') <= MaxLogins
        /\ DOMAIN login' = DOMAIN login \cup {l} /\ l \in Nat \ DOMAIN login
        /\ \A m \in DOMAIN login : login'[m] = login[m]
        /\ login'[l].client = req[r].client /\ login'[l].resource = req[r].resource
        /\ login'[l].scopes = scopes
    BY <1>2, NewLoginAt DEF Polled
  <1>4. /\ Goto(r, q) /\ pair' = pair /\ code' = code
        /\ UNCHANGED <<registered, db, mapping, offered, expired, crashes, alone>>
    BY DEF Polled, Issue, memory
  <1>5. /\ q \in Request' /\ q.pc = "access" /\ q.login = l /\ q.op = "device" /\ q.from = 0
        /\ q.client = req[r].client /\ q.resource = req[r].resource /\ q.scopes = scopes
    BY <1>1, <1>2, <1>3, <1>4 DEF Request
  <1> HIDE DEF q, q0, l
  <1>6. /\ req' \in [Requests -> Request']
        /\ \A s \in Requests : req'[s] = IF s = r THEN q ELSE req[s]
        /\ \A s \in Requests :
              /\ req'[s].pc \in {"idle", "exchange", "validate", "poll", "resource",
                                 "access", "refresh", "count", "delete", "answer"}
              /\ req'[s].pair \in {0} \cup DOMAIN pair'
              /\ req'[s].login \in {0} \cup DOMAIN login'
    BY <1>3, <1>4, <1>5, RequestTypes DEF Goto, Inv
  <1>7. TypeOK'
    <2>1. login' \in Seq(Login)
      BY <1>3
    <2>2. \A m \in DOMAIN login' : login'[m] \in Login
      BY <2>1
    <2>3. QED
      BY <1>3, <1>4, <1>6, <2>2 DEF Inv, Types, TypeOK
  <1>8. Types'
    BY <1>3, <1>4, <1>6, <1>7 DEF Inv, Types
  <1>9. Kept
    BY <1>3, <1>4, <1>8 DEF Kept
  <1>10. Begun(r)' /\ Serves(r)' /\ Holds(r)'
    BY <1>3, <1>4, <1>5, <1>6 DEF Begun, Serves, Holds, Stored
  <1>11. alone => \A s \in Requests : s # r => req[s] = Idle
    BY <1>1 DEF Inv, InTurn, Idle
  <1>12. req'[r].login \in DOMAIN login' \ (DOMAIN login \cup code')
    BY <1>3, <1>4, <1>5, <1>6 DEF Inv, Types, TypeOK
  <1>13. QED
    BY <1>1, <1>4, <1>5, <1>6, <1>9, <1>10, <1>11, <1>12, GotoInv DEF Accepted, Stored

-----------------------------------------------------------------------------
(* The storage in memory.                                                  *)

LEMMA NewPairAt ==
  ASSUME NEW q, NEW refresh \in {"db", "memory", "gone", "lost", None},
         NEW told \in BOOLEAN,
         q.login \in 1..MaxLogins, q.from \in 0..MaxPairs, q.client \in Clients,
         q.resource \in Resources \cup {None}, q.scopes \in SUBSET Scopes
  PROVE  /\ NewPair(q, refresh, told) \in Pair
         /\ NewPair(q, refresh, told).login = q.login
         /\ NewPair(q, refresh, told).from = q.from
         /\ NewPair(q, refresh, told).client = q.client
         /\ NewPair(q, refresh, told).resource = q.resource
         /\ NewPair(q, refresh, told).scopes = q.scopes
         /\ NewPair(q, refresh, told).refresh = refresh
         /\ NewPair(q, refresh, told).told = told
  BY DEF NewPair, Pair

\* A pair is made for a login that no client knows a pair of, or from one that is known,
\* and its client is told of it at once.
InMemory(r, q) ==
    /\ ~db /\ PairsFit /\ req[r].pc # "answer" /\ req' = [req EXCEPT ![r] = Idle]
    /\ q.login \in DOMAIN login' /\ q.from \in {0} \cup DOMAIN pair
    /\ q.client \in Clients /\ q.resource \in Resources \cup {None}
    /\ q.scopes \in SUBSET Scopes
    /\ pair' = Append(Removed(pair, q.from), NewPair(q, "memory", TRUE))
    /\ UNCHANGED <<registered, db, mapping, offered, expired, crashes, alone>>
    /\ code' \subseteq code \ {q.login}
    /\ login' \in Seq(Login) /\ Len(login') <= MaxLogins
    /\ DOMAIN login \subseteq DOMAIN login' /\ \A l \in DOMAIN login : login'[l] = login[l]

FromLogin(q) ==
    /\ q.from = 0 /\ Untold(q.login)
    /\ q.client = login'[q.login].client /\ q.resource = login'[q.login].resource
    /\ q.scopes \subseteq login'[q.login].scopes

FromPair(q) ==
    /\ q.from \in DOMAIN pair /\ pair[q.from].told /\ InStore(q.from)
    /\ q.login = pair[q.from].login /\ q.client = pair[q.from].client
    /\ q.resource = pair[q.from].resource /\ q.scopes \subseteq pair[q.from].scopes

LEMMA MemoryInv ==
  ASSUME Inv, NEW r \in Requests, NEW q, InMemory(r, q), FromLogin(q) \/ FromPair(q)
  PROVE  Inv'
  <1> DEFINE l == q.login
             n == Len(pair) + 1
             new == NewPair(q, "memory", TRUE)
  <1>1. /\ DOMAIN pair = 1..Len(pair) /\ Len(pair) \in Nat
        /\ pair \in Seq(Pair) /\ n <= MaxPairs
        /\ \A p \in DOMAIN pair : pair[p].from < p /\ pair[p].login \in DOMAIN login
        /\ q.from \in {0} \cup DOMAIN pair
    BY PairNumbers, AuthServerAssumption DEF Inv, InMemory, PairsFit, Types
  <1>2. /\ new \in Pair /\ new.login = l /\ new.from = q.from /\ new.client = q.client
        /\ new.resource = q.resource /\ new.scopes = q.scopes
        /\ new.refresh = "memory" /\ new.told = TRUE
    <2>1. q.login \in 1..MaxLogins /\ q.from \in 0..MaxPairs
      <3>1. DOMAIN login' = 1..Len(login') /\ Len(login') \in Nat
        BY DEF InMemory
      <3>2. QED
        BY <1>1, <3>1, AuthServerAssumption DEF InMemory
    <2>2. QED
      BY <2>1, NewPairAt DEF InMemory
  <1> HIDE DEF new
  <1>3. /\ pair' \in Seq(Pair) /\ Len(pair') = n
        /\ DOMAIN pair' = DOMAIN pair \cup {n} /\ n \in Nat \ DOMAIN pair
        /\ pair'[n] = new
        /\ \A p \in DOMAIN pair : pair'[p] = Removed(pair, q.from)[p]
    <2>1. /\ Removed(pair, q.from) \in Seq(Pair) /\ Len(Removed(pair, q.from)) = Len(pair)
          /\ DOMAIN Removed(pair, q.from) = DOMAIN pair
      BY <1>1, RemovedPairs
    <2>2. pair' = Append(Removed(pair, q.from), new)
      BY DEF new, InMemory
    <2>3. QED
      BY <1>2, <2>1, <2>2, Appended
  <1>4. \A p \in DOMAIN pair :
          /\ pair'[p].login = pair[p].login /\ pair'[p].from = pair[p].from
          /\ pair'[p].client = pair[p].client /\ pair'[p].resource = pair[p].resource
          /\ pair'[p].scopes = pair[p].scopes /\ pair'[p].told = pair[p].told
          /\ pair'[p].refresh = IF p = q.from THEN "gone" ELSE pair[p].refresh
    BY <1>1, <1>3, RemovedPairs
  <1>5. \A p \in DOMAIN pair : p < n
    BY <1>1
  <1> HIDE DEF n
  <1>6. /\ \A s \in Requests : req'[s] = IF s = r THEN Idle ELSE req[s]
        /\ \A s \in Requests : req'[s].pc \notin Accepted /\ req[s].pc \notin Accepted
        /\ Idle.pc = "idle" /\ "answer" \in Accepted /\ Stored \subseteq Accepted
    BY DEF Inv, Types, Serves, Idle, Accepted, Stored, InMemory
  <1>7. Types'
    <2>1. Idle \in Request'
      BY DEF Idle, Request
    <2>2. /\ req' \in [Requests -> Request']
          /\ \A s \in Requests :
              /\ req'[s].pc \in {"idle", "exchange", "validate", "poll", "resource",
                                 "access", "refresh", "count", "delete", "answer"}
              /\ req'[s].pair \in {0} \cup DOMAIN pair'
              /\ req'[s].login \in {0} \cup DOMAIN login'
      BY <1>3, <2>1, RequestTypes DEF Inv, InMemory
    <2>3. \A p \in DOMAIN pair' : /\ pair'[p] \in Pair /\ pair'[p].from < p
                                  /\ pair'[p].login \in DOMAIN login'
      <3>1. \A p \in DOMAIN pair' : pair'[p] \in Pair
        <4>1. pair' \in Seq(Pair)
          BY <1>3
        <4>2. QED
          BY <4>1
      <3>2. q.from < n
        BY <1>1, <1>3, <1>5 DEF InMemory
      <3>3. QED
        <4>1. \A p \in DOMAIN pair : pair'[p].from < p /\ pair'[p].login \in DOMAIN login'
          BY <1>1, <1>4 DEF InMemory
        <4>2. pair'[n].from < n /\ pair'[n].login \in DOMAIN login'
          BY <1>2, <1>3, <3>2 DEF InMemory
        <4>3. QED
          BY <1>3, <3>1, <4>1, <4>2
    <2>4. \A m \in DOMAIN login' : login'[m] \in Login
      <3>1. login' \in Seq(Login)
        BY DEF InMemory
      <3>2. QED
        BY <3>1
    <2>5. TypeOK'
      BY <1>3, <2>2, <2>3, <2>4 DEF Inv, Types, TypeOK, InMemory
    <2>6. QED
      BY <1>1, <1>3, <2>2, <2>3, <2>5 DEF Inv, Types, InMemory
  <1>8. Kept
    BY <1>3, <1>4, <1>7 DEF Kept, InMemory
  <1>9. \A s \in Requests : Begun(s)' /\ Serves(s)' /\ Holds(s)'
    BY <1>6, <1>8 DEF Inv, Kept, Begun, Serves, Holds
  <1>10. OwnPairs'
    BY <1>6 DEF OwnPairs
  <1>11. ToldOnce'
    <2>1. \A m \in code' : Untold(m)'
      <3>1. SUFFICES ASSUME NEW m \in code', NEW p \in DOMAIN pair', pair'[p].login = m
                     PROVE  ~pair'[p].told
        BY DEF Untold
      <3>2. m \in code /\ m # l
        BY <3>1 DEF InMemory
      <3>3. p \in DOMAIN pair
        BY <1>2, <1>3, <3>1, <3>2
      <3>4. QED
        BY <1>4, <3>1, <3>2, <3>3 DEF Inv, ToldOnce, Untold
    <2>2. \A s \in Requests : ~ForDevice(s)'
      BY <1>6 DEF ForDevice
    <2>3. SUFFICES ASSUME NEW p \in DOMAIN pair', NEW o \in DOMAIN pair', p # o,
                          pair'[p].from = 0, pair'[p].told, pair'[o].from = 0, pair'[o].told,
                          pair'[p].login = pair'[o].login
                   PROVE  FALSE
      BY <2>1, <2>2 DEF ToldOnce
    <2>4. CASE p # n /\ o # n
      BY <1>3, <1>4, <2>3, <2>4 DEF Inv, ToldOnce
    <2>5. CASE p = n \/ o = n
      <3>1. q.from = 0 /\ Untold(l)
        BY <1>1, <1>2, <1>3, <2>3, <2>5 DEF FromLogin, FromPair
      <3>2. QED
        BY <1>2, <1>3, <1>4, <2>3, <2>5, <3>1 DEF Untold
    <2>6. QED
      BY <2>4, <2>5
  <1>12. InTurn'
    BY <1>6 DEF Inv, InTurn, InMemory
  <1>13. \A m : m # l => PairsOf(m)' = PairsOf(m)
    BY <1>2, <1>3, <1>4 DEF PairsOf
  <1>14. \A p \in DOMAIN pair : pair[p].login # l => pair'[p].refresh = pair[p].refresh
    BY <1>1, <1>4 DEF FromLogin, FromPair
  <1>15. LoginKept'
    <2>1. SUFFICES ASSUME NEW m \in DOMAIN login', \E p \in PairsOf(m)' : pair'[p].told,
                          PairsOf(m)' \cap expired = {},
                          \A p \in PairsOf(m)' : pair'[p].refresh \notin {"memory", "lost"}
                   PROVE  \E p \in PairsOf(m)' : pair'[p].refresh = "db"
      BY DEF LoginKept, InMemory
    <2>2. m # l
      BY <1>2, <1>3, <2>1 DEF PairsOf
    <2>3. /\ PairsOf(m)' = PairsOf(m) /\ m \in DOMAIN login
          /\ \A p \in PairsOf(m) : /\ pair'[p].refresh = pair[p].refresh
                                   /\ pair'[p].told = pair[p].told
      <3>1. PairsOf(m)' = PairsOf(m)
        BY <1>13, <2>2
      <3>2. \A p \in PairsOf(m) : p \in DOMAIN pair /\ pair[p].login = m
        BY DEF PairsOf
      <3>3. QED
        BY <1>1, <1>4, <1>14, <2>1, <2>2, <3>1, <3>2
    <2>4. QED
      BY <2>1, <2>3 DEF Inv, LoginKept
  <1>16. NewestRefreshes'
    <2>1. SUFFICES ASSUME alone, NEW m \in DOMAIN login'
                   PROVE  /\ \A p \in PairsOf(m)' : pair'[p].told /\ InStore(p)' => p \in Newest(m)'
                          /\ \A p \in Newest(m)' : InStore(p)' \/ p \in expired \/ crashes > 0
                                                   \/ pair'[p].refresh = "cut"
      BY DEF NewestRefreshes, InMemory
    <2>2. CASE m # l
      <3>1. PairsOf(m)' = PairsOf(m)
        BY <1>13, <2>2
      <3>2. \A p \in PairsOf(m) : /\ p \in DOMAIN pair /\ m \in DOMAIN login
                                  /\ pair'[p].told = pair[p].told
                                  /\ pair'[p].refresh = pair[p].refresh
                                  /\ InStore(p)' <=> InStore(p)
        BY <1>1, <1>4, <1>14, <2>2 DEF PairsOf, InStore
      <3>3. Newest(m)' = Newest(m)
        BY <3>1, <3>2 DEF Newest
      <3>4. \A s \in Requests : req[s].pc # "answer"
        BY <1>6
      <3>5. QED
        BY <2>1, <3>1, <3>2, <3>3, <3>4 DEF Inv, NewestRefreshes, Newest
    <2>3. CASE m = l
      <3>1. /\ n \in PairsOf(m)' /\ pair'[n].told /\ pair'[n].refresh = "memory"
        BY <1>2, <1>3, <2>3 DEF PairsOf
      <3>2. \A p \in PairsOf(m)' : p <= n /\ (p # n => p < n)
        BY <1>3, <1>5 DEF PairsOf
      <3>3. n \in Newest(m)'
        BY <3>1, <3>2 DEF Newest
      <3>4. \A p \in Newest(m)' : p = n
        <4>1. SUFFICES ASSUME NEW p \in Newest(m)' PROVE p = n
          OBVIOUS
        <4>2. p \in PairsOf(m)' /\ n <= p
          BY <3>1 DEF Newest
        <4>3. p \in Nat /\ n \in Nat
          BY <1>1, <1>3, <4>2 DEF PairsOf
        <4>4. QED
          BY <3>2, <4>2, <4>3
      <3>5. ASSUME NEW p \in PairsOf(m)', pair'[p].told, InStore(p)', p # n
            PROVE  FALSE
        <4>1. p \in PairsOf(m) /\ p \in DOMAIN pair /\ p # q.from /\ pair[p].told /\ InStore(p)
          BY <1>3, <1>4, <3>5 DEF PairsOf, InStore
        <4>2. q.from \in DOMAIN pair /\ q.from \in PairsOf(l) /\ l \in DOMAIN login
              /\ InStore(q.from) /\ pair[q.from].told
          BY <1>1, <2>3, <4>1 DEF Untold, PairsOf, FromLogin, FromPair
        <4>3. p \in Newest(l) /\ q.from \in Newest(l)
          BY <2>1, <2>3, <4>1, <4>2 DEF Inv, NewestRefreshes
        <4>4. p <= q.from /\ q.from <= p
          BY <4>3 DEF Newest
        <4>5. p \in Nat /\ q.from \in Nat
          BY <1>1, <4>1, <4>2
        <4>6. QED
          BY <4>1, <4>4, <4>5
      <3>6. QED
        BY <3>1, <3>3, <3>4, <3>5 DEF InStore
    <2>4. QED
      BY <2>2, <2>3
  <1>17. TermsKept'
    <2>1. q.from # 0 => pair'[q.from].scopes = pair[q.from].scopes
                          /\ pair'[q.from].client = pair[q.from].client
                          /\ pair'[q.from].resource = pair[q.from].resource
      BY <1>1, <1>4
    <2>2. 0 \notin DOMAIN pair
      BY <1>1
    <2>3. QED
      BY <1>2, <1>3, <1>8, <2>1, <2>2, TermsStay DEF FromLogin, FromPair
  <1>18. QED
    BY <1>7, <1>9, <1>10, <1>11, <1>12, <1>15, <1>16, <1>17 DEF Inv

LEMMA BeginCodeMemoryInv ==
  ASSUME Inv, NEW r \in Requests, NEW l \in DOMAIN login, BeginCode(r, l), ~db
  PROVE  Inv'
  <1> DEFINE q == [Idle EXCEPT !.op = "code", !.login = l, !.client = login[l].client,
                               !.resource = login[l].resource, !.scopes = login[l].scopes]
  <1>1. /\ q.login = l /\ q.from = 0 /\ q.client = login[l].client
        /\ q.resource = login[l].resource /\ q.scopes = login[l].scopes
    BY DEF Idle
  <1>2. Issue(r, q, "access")
    BY DEF BeginCode
  <1> HIDE DEF q
  <1>3. /\ PairsFit /\ req' = [req EXCEPT ![r] = Idle]
        /\ pair' = Append(Removed(pair, q.from), NewPair(q, "memory", TRUE))
    BY <1>2 DEF Issue, Goto
  <1>4. /\ UNCHANGED <<registered, db, mapping, login, offered, expired, crashes, alone>>
        /\ code' = code \ {l} /\ l \in code /\ req[r].pc # "answer"
    BY DEF BeginCode, Idle
  <1>5. login[l] \in Login /\ login \in Seq(Login) /\ Len(login) <= MaxLogins
    BY DEF Inv, Types
  <1>6. InMemory(r, q)
    BY <1>1, <1>3, <1>4, <1>5 DEF InMemory, Login
  <1>7. FromLogin(q)
    BY <1>1, <1>4 DEF FromLogin, Inv, ToldOnce
  <1>8. QED
    BY <1>6, <1>7, MemoryInv

LEMMA BeginRefreshMemoryInv ==
  ASSUME Inv, NEW r \in Requests, NEW p \in DOMAIN pair, NEW scopes \in SUBSET Scopes,
         BeginRefresh(r, p, scopes), ~db
  PROVE  Inv'
  <1> DEFINE q == [Idle EXCEPT !.op = "refresh", !.login = pair[p].login, !.from = p,
                               !.client = pair[p].client, !.resource = pair[p].resource,
                               !.scopes = scopes]
  <1>1. /\ q.login = pair[p].login /\ q.from = p /\ q.client = pair[p].client
        /\ q.resource = pair[p].resource /\ q.scopes = scopes
    BY DEF Idle
  <1>2. Issue(r, q, "resource")
    BY DEF BeginRefresh
  <1> HIDE DEF q
  <1>3. /\ PairsFit /\ req' = [req EXCEPT ![r] = Idle]
        /\ pair' = Append(Removed(pair, q.from), NewPair(q, "memory", TRUE))
    BY <1>2 DEF Issue, Goto
  <1>4. /\ UNCHANGED <<registered, db, mapping, code, login, offered, expired, crashes, alone>>
        /\ req[r].pc # "answer" /\ pair[p].told /\ scopes \subseteq pair[p].scopes
        /\ pair[p].refresh = "memory"
    BY DEF BeginRefresh, Idle, memory, Loaded, Store
  <1>5. /\ pair[p] \in Pair /\ pair[p].login \in DOMAIN login
        /\ login \in Seq(Login) /\ Len(login) <= MaxLogins
    BY DEF Inv, Types, TypeOK
  <1>6. pair[p].login \notin code
    BY <1>4 DEF Inv, ToldOnce, Untold
  <1>7. InMemory(r, q)
    BY <1>1, <1>3, <1>4, <1>5, <1>6 DEF InMemory, Pair
  <1>8. FromPair(q)
    BY <1>1, <1>4 DEF FromPair, InStore
  <1>9. QED
    BY <1>7, <1>8, MemoryInv

LEMMA PolledMemoryInv ==
  ASSUME Inv, NEW r \in Requests, NEW scopes \in SUBSET Scopes, Polled(r, scopes), ~db
  PROVE  Inv'
  <1> DEFINE l == Len(login')
             q == [req[r] EXCEPT !.login = l, !.scopes = scopes]
  <1>1. req[r] \in Request /\ req[r].pc = "poll"
    BY DEF Inv, Types, Polled
  <1>2. /\ req[r].client \in Clients /\ req[r].op = "device"
        /\ req[r].from = 0 /\ req[r].resource = None
    BY <1>1 DEF Inv, Begun
  <1>3. /\ login' \in Seq(Login) /\ Len(login') <= MaxLogins
        /\ DOMAIN login' = DOMAIN login \cup {l} /\ l \in Nat \ DOMAIN login
        /\ \A m \in DOMAIN login : login'[m] = login[m]
        /\ login'[l].client = req[r].client /\ login'[l].resource = req[r].resource
        /\ login'[l].scopes = scopes
    BY <1>2, NewLoginAt DEF Polled
  <1>4. /\ q.login = l /\ q.from = 0 /\ q.client = req[r].client
        /\ q.resource = req[r].resource /\ q.scopes = scopes
    BY <1>1, <1>2 DEF Request
  <1>5. Issue(r, q, "access")
    BY DEF Polled
  <1> HIDE DEF q, l
  <1>6. /\ PairsFit /\ req' = [req EXCEPT ![r] = Idle]
        /\ pair' = Append(Removed(pair, q.from), NewPair(q, "memory", TRUE))
    BY <1>5 DEF Issue, Goto
  <1>7. UNCHANGED <<registered, db, mapping, code, offered, expired, crashes, alone>>
    BY DEF Polled, memory
  <1>8. l \notin code /\ Untold(l)
    BY <1>3 DEF Inv, Types, TypeOK, Untold
  <1>9. InMemory(r, q)
    BY <1>1, <1>2, <1>3, <1>4, <1>6, <1>7, <1>8 DEF InMemory
  <1>10. FromLogin(q)
    BY <1>2, <1>3, <1>4, <1>8 DEF FromLogin
  <1>11. QED
    BY <1>9, <1>10, MemoryInv

-----------------------------------------------------------------------------
(* The storage in the database.                                            *)

LEMMA StoreAccessInv ==
  ASSUME Inv, NEW r \in Requests, StoreAccess(r)
  PROVE  Inv'
  <1> DEFINE n == Len(pair) + 1
             l == req[r].login
             new == NewPair(req[r], None, FALSE)
             q == [req[r] EXCEPT !.pc = "refresh", !.pair = n]
  <1>1. /\ DOMAIN pair = 1..Len(pair) /\ Len(pair) \in Nat /\ pair \in Seq(Pair) /\ n <= MaxPairs
        /\ \A p \in DOMAIN pair : pair[p].from < p /\ pair[p].login \in DOMAIN login
        /\ DOMAIN login = 1..Len(login) /\ Len(login) \in Nat /\ Len(login) <= MaxLogins
    BY PairNumbers, AuthServerAssumption DEF Inv, Types, StoreAccess, PairsFit
  <1>2. /\ req[r] \in Request /\ req[r].pc = "access" /\ Serves(r)
        /\ UNCHANGED <<registered, db, mapping, code, login, offered, expired, crashes, alone>>
    BY DEF Inv, Types, StoreAccess, memory
  <1>3. /\ db /\ l \in DOMAIN login /\ req[r].from \in {0} \cup DOMAIN pair
        /\ req[r].op \in {"code", "device", "refresh"} /\ req[r].client \in Clients
    <2>1. login[l] \in Login \/ l \notin DOMAIN login
      BY DEF Inv, Types, TypeOK
    <2>2. \A p \in DOMAIN pair : pair[p] \in Pair
      BY DEF Inv, Types, TypeOK
    <2>3. QED
      BY <1>2, <2>1, <2>2 DEF Serves, Accepted, Login, Pair
  <1>4. /\ new \in Pair /\ new.login = l /\ new.from = req[r].from
        /\ new.client = req[r].client /\ new.resource = req[r].resource
        /\ new.scopes = req[r].scopes /\ new.told = FALSE
    <2>1. /\ l \in 1..MaxLogins /\ req[r].from \in 0..MaxPairs
          /\ req[r].resource \in Resources \cup {None} /\ req[r].scopes \in SUBSET Scopes
      BY <1>1, <1>2, <1>3, AuthServerAssumption DEF Request
    <2>2. QED
      BY <1>3, <2>1, NewPairAt
  <1> HIDE DEF new
  <1>5. /\ pair' \in Seq(Pair) /\ Len(pair') = n
        /\ DOMAIN pair' = DOMAIN pair \cup {n} /\ n \in Nat \ DOMAIN pair
        /\ pair'[n] = new /\ \A p \in DOMAIN pair : pair'[p] = pair[p]
    <2>1. pair' = Append(pair, new)
      BY DEF StoreAccess, new
    <2>2. QED
      BY <1>1, <1>4, <2>1, Appended
  <1>6. Goto(r, q)
    BY <1>5 DEF StoreAccess
  <1>7. q \in Request'
    BY <1>2, <1>3, <1>5 DEF Request
  <1>8. /\ q.pc = "refresh" /\ q.pair = n /\ q.op = req[r].op /\ q.login = l
        /\ q.from = req[r].from /\ q.client = req[r].client /\ q.scopes = req[r].scopes
        /\ q.resource = req[r].resource
    BY <1>2 DEF Request
  <1>9. \A p \in DOMAIN pair : p < n
    BY <1>1
  <1> HIDE DEF n, q
  <1>10. /\ req' \in [Requests -> Request']
         /\ \A s \in Requests : req'[s] = IF s = r THEN q ELSE req[s]
         /\ \A s \in Requests :
               /\ req'[s].pc \in {"idle", "exchange", "validate", "poll", "resource",
                                  "access", "refresh", "count", "delete", "answer"}
               /\ req'[s].pair \in {0} \cup DOMAIN pair'
               /\ req'[s].login \in {0} \cup DOMAIN login'
    BY <1>2, <1>5, <1>6, <1>7, RequestTypes DEF Goto, Inv
  <1>11. Types'
    <2>1. \A p \in DOMAIN pair' : /\ pair'[p] \in Pair /\ pair'[p].from < p
                                  /\ pair'[p].login \in DOMAIN login
      <3>1. \A p \in DOMAIN pair : pair[p] \in Pair
        BY DEF Inv, Types, TypeOK
      <3>2. req[r].from < n
        <4>1. 0 < n
          BY <1>1, <1>5
        <4>2. QED
          BY <1>3, <1>9, <4>1
      <3>3. pair'[n] \in Pair /\ pair'[n].from < n /\ pair'[n].login \in DOMAIN login
        BY <1>3, <1>4, <1>5, <3>2
      <3>4. QED
        BY <1>1, <1>5, <3>1, <3>3
    <2>2. TypeOK'
      BY <1>2, <1>5, <1>10, <2>1 DEF Inv, Types, TypeOK
    <2>3. QED
      BY <1>1, <1>2, <1>5, <1>10, <2>1, <2>2 DEF Inv, Types
  <1>12. Kept
    BY <1>2, <1>5, <1>11 DEF Kept
  <1>13. Begun(r)' /\ Serves(r)' /\ Holds(r)'
    BY <1>2, <1>4, <1>5, <1>8, <1>10 DEF Begun, Serves, Holds, Accepted
  <1>14. \A s \in Requests : req[s].pc \in Stored =>
           req[s].pair \in DOMAIN pair /\ ~pair[req[s].pair].told
    BY DEF Inv, Holds
  <1>15. \A s \in Requests : Begun(s)' /\ Serves(s)' /\ Holds(s)'
    BY <1>2, <1>5, <1>10, <1>12, <1>13, <1>14, OtherRequest
  <1>16. OwnPairs'
    BY <1>5, <1>8, <1>10, <1>14 DEF Inv, OwnPairs
  <1>17. \A m : Untold(m)' <=> Untold(m)
    BY <1>4, <1>5 DEF Untold
  <1>18. ToldOnce'
    <2>1. \A s \in Requests : req'[s].login = req[s].login /\ (ForDevice(s)' <=> ForDevice(s))
      BY <1>2, <1>8, <1>10 DEF ForDevice, Accepted
    <2>2. \A m \in code' : Untold(m)'
      BY <1>2, <1>17 DEF Inv, ToldOnce
    <2>3. \A s \in Requests : ForDevice(s)' => req'[s].login \notin code' /\ Untold(req[s].login)
      BY <1>2, <2>1 DEF Inv, ToldOnce
    <2>4. \A p \in DOMAIN pair' : pair'[p].told => p \in DOMAIN pair
      BY <1>4, <1>5
    <2>5. QED
      BY <1>5, <1>17, <2>1, <2>2, <2>3, <2>4 DEF Inv, ToldOnce
  <1>19. \A m : Newest(m)' = Newest(m)
    BY <1>4, <1>5 DEF Newest, PairsOf
  <1>20. InTurn'
    <2>1. SUFFICES ASSUME alone
                   PROVE  /\ \A s, t \in Requests : req'[s] # Idle /\ req'[t] # Idle => s = t
                          /\ \A s \in Requests : req'[s].pc \in Accepted /\ req'[s].op = "refresh" =>
                               /\ req'[s].from \in Newest(req'[s].login)
                               /\ pair'[req'[s].from].refresh
                                    = IF req'[s].pc = "answer" THEN "gone" ELSE "db"
                               /\ req'[s].pc # "access"
      BY <1>2, <1>19 DEF InTurn
    <2>2. \A s \in Requests : s # r => req[s] = Idle /\ req'[s] = Idle
      BY <1>2, <1>10, <2>1 DEF Inv, InTurn, Idle
    <2>3. Idle.pc = "idle"
      BY DEF Idle
    <2>4. req[r].op = "refresh" => /\ req[r].from \in Newest(l) /\ req[r].from \in DOMAIN pair
                                   /\ pair[req[r].from].refresh = "db"
      BY <1>2, <2>1 DEF Inv, InTurn, Accepted, Serves
    <2>5. QED
      BY <1>5, <1>8, <1>10, <2>2, <2>3, <2>4 DEF Accepted
  <1>21. LoginKept'
    <2>1. SUFFICES ASSUME NEW m \in DOMAIN login, \E p \in PairsOf(m)' : pair'[p].told,
                          PairsOf(m)' \cap expired = {},
                          \A p \in PairsOf(m)' : pair'[p].refresh \notin {"memory", "lost"}
                   PROVE  \E p \in PairsOf(m)' : pair'[p].refresh = "db"
      BY <1>2 DEF LoginKept
    <2>2. PairsOf(m) \subseteq PairsOf(m)' /\ PairsOf(m)' \subseteq PairsOf(m) \cup {n}
      BY <1>5 DEF PairsOf
    <2>3. \A p \in PairsOf(m) : pair'[p] = pair[p]
      BY <1>5 DEF PairsOf
    <2>4. QED
      BY <1>4, <1>5, <2>1, <2>2, <2>3 DEF Inv, LoginKept
  <1>22. NewestRefreshes'
    <2>1. SUFFICES ASSUME alone, NEW m \in DOMAIN login
                   PROVE  /\ \A p \in PairsOf(m)' : pair'[p].told /\ InStore(p)' => p \in Newest(m)
                          /\ \A p \in Newest(m) :
                               InStore(p)' \/ p \in expired \/ crashes > 0
                               \/ pair'[p].refresh = "cut"
                               \/ \E s \in Requests : req'[s].pc = "answer" /\ req'[s].from = p
      BY <1>2, <1>19 DEF NewestRefreshes
    <2>2. \A p \in PairsOf(m)' : pair'[p].told => p \in PairsOf(m)
      BY <1>4, <1>5 DEF PairsOf
    <2>3. \A p \in PairsOf(m) : pair'[p] = pair[p] /\ (InStore(p)' <=> InStore(p))
      BY <1>5 DEF PairsOf, InStore
    <2>4. Newest(m) \subseteq PairsOf(m)
      BY DEF Newest
    <2>5. \A s \in Requests : req[s].pc = "answer" => req'[s] = req[s]
      BY <1>2, <1>10
    <2>6. QED
      BY <2>1, <2>2, <2>3, <2>4, <2>5 DEF Inv, NewestRefreshes
  <1>23. TermsKept'
    <2>1. 0 \notin DOMAIN pair
      BY <1>1
    <2>2. alone /\ req[r].op = "refresh" /\ req[r].from \notin expired =>
            req[r].resource = pair[req[r].from].resource
      BY <1>2 DEF Inv, InTurn, Accepted
    <2>3. \/ /\ req[r].from = 0 /\ req[r].client = login[l].client
             /\ req[r].scopes \subseteq login[l].scopes /\ req[r].resource = login[l].resource
          \/ /\ req[r].op = "refresh" /\ req[r].from \in DOMAIN pair
             /\ req[r].client = pair[req[r].from].client
             /\ req[r].scopes \subseteq pair[req[r].from].scopes
      BY <1>2 DEF Serves, Accepted
    <2>4. QED
      BY <1>2, <1>4, <1>5, <1>12, <2>1, <2>2, <2>3, TermsStay
  <1>24. QED
    BY <1>11, <1>15, <1>16, <1>18, <1>20, <1>21, <1>22, <1>23 DEF Inv

\* A request goes on to q and changes where pairs are and whether they are told, but none
\* that another request holds.
Goes(r, q) ==
    /\ req' = [req EXCEPT ![r] = q] /\ q \in Request
    /\ UNCHANGED <<registered, db, mapping, login, offered, expired, crashes, alone>>
    /\ code' \subseteq code
    /\ pair' \in Seq(Pair) /\ Len(pair') = Len(pair) /\ DOMAIN pair' = DOMAIN pair
    /\ \A p \in DOMAIN pair :
         /\ pair'[p].login = pair[p].login /\ pair'[p].from = pair[p].from
         /\ pair'[p].client = pair[p].client /\ pair'[p].resource = pair[p].resource
         /\ pair'[p].scopes = pair[p].scopes
         /\ pair[p].told => pair'[p].told
    /\ q.pc \in Stored => req[r].pc \in Stored /\ q.pair = req[r].pair
    /\ \A s \in Requests : s # r /\ req[s].pc \in Stored =>
         /\ ~pair'[req[s].pair].told
         /\ pair'[req[s].pair].refresh = pair[req[s].pair].refresh

LEMMA GoesKept ==
  ASSUME Inv, NEW r \in Requests, NEW q, Goes(r, q)
  PROVE  Kept /\ \A s \in Requests : req'[s] = IF s = r THEN q ELSE req[s]
  <1>1. Request' = Request
    BY DEF Request, Goes
  <1>2. /\ req' \in [Requests -> Request]
        /\ \A s \in Requests : req'[s] = IF s = r THEN q ELSE req[s]
        /\ \A s \in Requests :
              /\ req'[s].pc \in {"idle", "exchange", "validate", "poll", "resource",
                                 "access", "refresh", "count", "delete", "answer"}
              /\ req'[s].pair \in {0} \cup DOMAIN pair
              /\ req'[s].login \in {0} \cup DOMAIN login
    BY <1>1, RequestTypes DEF Goes, Inv
  <1>3. \A p \in DOMAIN pair : pair'[p] \in Pair /\ pair'[p].from < p
                               /\ pair'[p].login \in DOMAIN login
    <2>1. \A p \in DOMAIN pair' : pair'[p] \in Pair
      <3>1. pair' \in Seq(Pair)
        BY DEF Goes
      <3>2. QED
        BY <3>1
    <2>2. QED
      BY <2>1 DEF Goes, Inv, Types, TypeOK
  <1>4. TypeOK'
    BY <1>2, <1>3 DEF Goes, Inv, Types, TypeOK
  <1>5. Types'
    BY <1>1, <1>2, <1>3, <1>4 DEF Goes, Inv, Types
  <1>6. QED
    BY <1>2, <1>5 DEF Kept, Goes

LEMMA GoesInv ==
  ASSUME Inv, NEW r \in Requests, NEW q, Goes(r, q), Begun(r)', Serves(r)', Holds(r)'
  PROVE  /\ Types' /\ OwnPairs' /\ TermsKept'
         /\ \A s \in Requests : Begun(s)' /\ Serves(s)' /\ Holds(s)'
  <1>1. Kept /\ \A s \in Requests : req'[s] = IF s = r THEN q ELSE req[s]
    BY GoesKept
  <1>2. \A s \in Requests : Begun(s)' /\ Serves(s)' /\ Holds(s)'
    <2>1. ASSUME NEW s \in Requests, s # r
          PROVE  Begun(s)' /\ Serves(s)' /\ Holds(s)'
      <3>1. req'[s] = req[s] /\ db' = db
        BY <1>1, <2>1 DEF Goes
      <3>2. req[s].pc \in Stored =>
              /\ ~pair'[req[s].pair].told
              /\ pair'[req[s].pair].refresh = pair[req[s].pair].refresh
        BY <2>1 DEF Goes
      <3>3. QED
        BY <1>1, <3>1, <3>2, OtherRequest
    <2>2. QED
      BY <2>1
  <1>3. OwnPairs'
    BY <1>1 DEF Inv, OwnPairs, Goes
  <1>4. TermsKept'
    BY <1>1, TermsStay DEF Goes
  <1>5. QED
    BY <1>1, <1>2, <1>3, <1>4 DEF Kept

\* Steps that tell no client of a pair.
LEMMA GoesUntold ==
  ASSUME Inv, NEW r \in Requests, NEW q, Goes(r, q), code' = code,
         \A p \in DOMAIN pair : pair'[p].told = pair[p].told,
         q.op = req[r].op, q.login = req[r].login, req[r].pc \in Accepted
  PROVE  /\ ToldOnce'
         /\ \A m : PairsOf(m)' = PairsOf(m) /\ Newest(m)' = Newest(m)
         /\ alone => \A s \in Requests : s # r => req[s] = Idle
  <1>1. \A s \in Requests : req'[s] = IF s = r THEN q ELSE req[s]
    BY GoesKept
  <1>2. \A m : PairsOf(m)' = PairsOf(m) /\ (Untold(m)' <=> Untold(m))
    BY DEF PairsOf, Goes, Untold
  <1>3. \A m : Newest(m)' = Newest(m)
    BY <1>2 DEF Newest, PairsOf
  <1>4. \A s \in Requests : req'[s].login = req[s].login /\ (ForDevice(s)' => ForDevice(s))
    BY <1>1 DEF ForDevice
  <1>5. ToldOnce'
    BY <1>2, <1>4 DEF Inv, ToldOnce, Goes
  <1>6. alone => \A s \in Requests : s # r => req[s] = Idle
    <2>1. req[r] # Idle
      BY DEF Idle, Accepted
    <2>2. QED
      BY <2>1 DEF Inv, InTurn
  <1>7. QED
    BY <1>2, <1>3, <1>5, <1>6

LEMMA StoreRefreshInv ==
  ASSUME Inv, NEW r \in Requests, StoreRefresh(r)
  PROVE  Inv'
  <1> DEFINE n == req[r].pair
             q == [req[r] EXCEPT !.pc = AfterRefresh(req[r].op)]
  <1>1. /\ req[r] \in Request /\ req[r].pc = "refresh" /\ Serves(r) /\ Holds(r)
        /\ req' = [req EXCEPT ![r] = q] /\ pair' = [pair EXCEPT ![n].refresh = "db"]
        /\ UNCHANGED <<registered, db, mapping, code, login, offered, expired, crashes, alone>>
    BY DEF Inv, Types, StoreRefresh, memory, Await, Goto
  <1>2. /\ n \in DOMAIN pair /\ ~pair[n].told /\ pair[n].login = req[r].login
        /\ pair[n].from = req[r].from
    BY <1>1 DEF Holds, Stored
  <1>3. /\ AfterRefresh(req[r].op) \in {"count", "delete", "answer"}
        /\ q \in Request /\ q.pc = AfterRefresh(req[r].op) /\ q.op = req[r].op
        /\ q.login = req[r].login /\ q.from = req[r].from /\ q.pair = n
        /\ q.client = req[r].client /\ q.scopes = req[r].scopes /\ q.resource = req[r].resource
    <2>1. AfterRefresh(req[r].op) \in {"count", "delete", "answer"}
      BY <1>1 DEF Serves, Accepted, AfterRefresh
    <2>2. \A x \in {"count", "delete", "answer"} :
            LET o == [req[r] EXCEPT !.pc = x] IN
            /\ o \in Request /\ o.pc = x /\ o.op = req[r].op
            /\ o.login = req[r].login /\ o.from = req[r].from /\ o.pair = req[r].pair
            /\ o.client = req[r].client /\ o.scopes = req[r].scopes
            /\ o.resource = req[r].resource
      BY <1>1 DEF Request
    <2>3. QED
      BY <2>1, <2>2
  <1> HIDE DEF q
  <1>4. /\ pair' \in Seq(Pair) /\ Len(pair') = Len(pair) /\ DOMAIN pair' = DOMAIN pair
        /\ pair'[n].refresh = "db" /\ \A p \in DOMAIN pair : p # n => pair'[p] = pair[p]
        /\ \A p \in DOMAIN pair :
             /\ pair'[p].login = pair[p].login /\ pair'[p].from = pair[p].from
             /\ pair'[p].client = pair[p].client /\ pair'[p].resource = pair[p].resource
             /\ pair'[p].scopes = pair[p].scopes /\ pair'[p].told = pair[p].told
    <2> DEFINE new == [pair[n] EXCEPT !.refresh = "db"]
    <2>1. /\ pair[n] \in Pair /\ pair \in Seq(Pair)
      BY <1>2 DEF Inv, Types, TypeOK
    <2>2. /\ new \in Pair
          /\ new.login = pair[n].login /\ new.from = pair[n].from
          /\ new.client = pair[n].client /\ new.resource = pair[n].resource
          /\ new.scopes = pair[n].scopes /\ new.told = pair[n].told
          /\ new.refresh = "db"
      BY <2>1 DEF Pair
    <2>3. pair' = [pair EXCEPT ![n] = new]
      BY <1>1
    <2> HIDE DEF new
    <2>4. /\ pair' \in Seq(Pair) /\ Len(pair') = Len(pair) /\ DOMAIN pair' = DOMAIN pair
      BY <2>1, <2>2, <2>3, <1>2
    <2>5. \A p \in DOMAIN pair : pair'[p] = IF p = n THEN new ELSE pair[p]
      BY <2>3
    <2>6. QED
      BY <1>2, <2>2, <2>4, <2>5
  <1>5. \A s \in Requests : s # r /\ req[s].pc \in Stored =>
          req[s].pair \in DOMAIN pair /\ req[s].pair # n /\ ~pair[req[s].pair].told
    BY <1>1 DEF Inv, OwnPairs, Stored, Holds
  <1>6. Goes(r, q)
    BY <1>1, <1>3, <1>4, <1>5 DEF Goes, Stored
  <1>7. \A s \in Requests : req'[s] = IF s = r THEN q ELSE req[s]
    BY <1>6, GoesKept
  <1>8. Begun(r)' /\ Serves(r)' /\ Holds(r)'
    <2>1. Serves(r)'
      <3>1. /\ req[r].op = "refresh" => q.pc = "delete"
            /\ req[r].op = "code" => q.pc = "count"
            /\ req[r].op = "device" => q.pc = "answer"
        BY <1>3 DEF AfterRefresh
      <3>2. req'[r] = q /\ UNCHANGED <<db, login>>
        BY <1>1, <1>7
      <3>3. db /\ req[r].login \in DOMAIN login /\ req[r].op \in {"refresh", "code", "device"}
        BY <1>1 DEF Serves, Accepted
      <3>4. CASE req[r].op = "refresh"
        <4>1. /\ req[r].from \in DOMAIN pair /\ pair[req[r].from].told
              /\ pair[req[r].from].login = req[r].login
              /\ req[r].client = pair[req[r].from].client
              /\ req[r].scopes \subseteq pair[req[r].from].scopes
          BY <1>1, <3>4 DEF Serves, Accepted
        <4>2. QED
          BY <1>3, <1>4, <3>1, <3>2, <3>3, <3>4, <4>1 DEF Serves
      <3>5. CASE req[r].op \in {"code", "device"}
        <4>1. /\ req[r].from = 0 /\ req[r].client = login[req[r].login].client
              /\ req[r].scopes \subseteq login[req[r].login].scopes
              /\ req[r].resource = login[req[r].login].resource
          BY <1>1, <3>5 DEF Serves, Accepted
        <4>2. QED
          BY <1>3, <3>1, <3>2, <3>3, <3>5, <4>1 DEF Serves
      <3>6. QED
        BY <3>3, <3>4, <3>5
    <2>2. QED
      BY <1>1, <1>2, <1>3, <1>4, <1>7, <2>1 DEF Begun, Holds
  <1>9. /\ Types' /\ OwnPairs' /\ TermsKept'
        /\ \A s \in Requests : Begun(s)' /\ Serves(s)' /\ Holds(s)'
    BY <1>6, <1>8, GoesInv
  <1>10. /\ ToldOnce'
         /\ \A m : PairsOf(m)' = PairsOf(m) /\ Newest(m)' = Newest(m)
         /\ alone => \A s \in Requests : s # r => req[s] = Idle
    BY <1>1, <1>3, <1>4, <1>6, GoesUntold DEF Accepted
  <1>11. InTurn'
    <2>1. SUFFICES ASSUME alone
                   PROVE  /\ \A s, t \in Requests : req'[s] # Idle /\ req'[t] # Idle => s = t
                          /\ \A s \in Requests : req'[s].pc \in Accepted /\ req'[s].op = "refresh" =>
                               /\ req'[s].from \in Newest(req'[s].login)
                               /\ pair'[req'[s].from].refresh
                                    = IF req'[s].pc = "answer" THEN "gone" ELSE "db"
                               /\ req'[s].pc # "access"
      BY <1>1, <1>10 DEF InTurn
    <2>2. \A s \in Requests : s # r => req'[s] = Idle
      BY <1>7, <1>10, <2>1
    <2>3. req[r].op = "refresh" =>
            /\ req[r].from \in Newest(req[r].login) /\ req[r].from \in DOMAIN pair
            /\ pair[req[r].from].refresh = "db" /\ q.pc = "delete"
      BY <1>1, <1>3, <2>1 DEF Inv, InTurn, Accepted, Serves, AfterRefresh
    <2>4. req[r].op = "refresh" => pair'[req[r].from].refresh = "db"
      BY <1>4, <2>3
    <2>5. Idle.pc = "idle"
      BY DEF Idle
    <2>6. QED
      BY <1>3, <1>7, <2>2, <2>3, <2>4, <2>5 DEF Accepted
  <1>12. LoginKept'
    <2>1. SUFFICES ASSUME NEW m \in DOMAIN login, \E p \in PairsOf(m) : pair'[p].told,
                          PairsOf(m) \cap expired = {},
                          \A p \in PairsOf(m) : pair'[p].refresh \notin {"memory", "lost"}
                   PROVE  \E p \in PairsOf(m) : pair'[p].refresh = "db"
      BY <1>1, <1>10 DEF LoginKept
    <2>2. CASE n \in PairsOf(m)
      BY <1>4, <2>2
    <2>3. CASE n \notin PairsOf(m)
      <3>1. \A p \in PairsOf(m) : pair'[p] = pair[p]
        BY <1>4, <2>3 DEF PairsOf
      <3>2. QED
        BY <2>1, <3>1 DEF Inv, LoginKept
    <2>4. QED
      BY <2>2, <2>3
  <1>13. NewestRefreshes'
    <2>1. SUFFICES ASSUME alone, NEW m \in DOMAIN login
                   PROVE  /\ \A p \in PairsOf(m) : pair'[p].told /\ InStore(p)' => p \in Newest(m)
                          /\ \A p \in Newest(m) :
                               InStore(p)' \/ p \in expired \/ crashes > 0
                               \/ pair'[p].refresh = "cut"
                               \/ \E s \in Requests : req'[s].pc = "answer" /\ req'[s].from = p
      BY <1>1, <1>10 DEF NewestRefreshes
    <2>2. \A p \in PairsOf(m) : pair'[p].told => pair[p].told /\ p # n /\ pair'[p] = pair[p]
      BY <1>2, <1>4 DEF PairsOf
    <2>3. \A p \in PairsOf(m) : pair'[p].told =>
            /\ pair[p].told /\ (InStore(p)' <=> InStore(p))
            /\ pair'[p].refresh = pair[p].refresh
      BY <2>2 DEF InStore
    <2>4. \A p \in Newest(m) : p \in PairsOf(m) /\ pair[p].told /\ pair'[p].told
      BY <1>4 DEF Newest, PairsOf
    <2>5. \A s \in Requests : req[s].pc = "answer" => req'[s] = req[s]
      BY <1>1, <1>7
    <2>6. QED
      BY <2>1, <2>3, <2>4, <2>5 DEF Inv, NewestRefreshes
  <1>14. QED
    BY <1>9, <1>10, <1>11, <1>12, <1>13 DEF Inv

LEMMA DeleteOldInv ==
  ASSUME Inv, NEW r \in Requests, DeleteOld(r)
  PROVE  Inv'
  <1> DEFINE n == req[r].pair
             f == req[r].from
             q == [req[r] EXCEPT !.pc = "answer"]
  <1>1. /\ req[r] \in Request /\ req[r].pc = "delete" /\ Serves(r) /\ Holds(r)
        /\ req' = [req EXCEPT ![r] = q] /\ pair' = Removed(pair, f)
        /\ UNCHANGED <<registered, db, mapping, code, login, offered, expired, crashes, alone>>
    BY DEF Inv, Types, DeleteOld, memory, Await, Goto
  <1>2. /\ n \in DOMAIN pair /\ ~pair[n].told /\ pair[n].login = req[r].login
        /\ pair[n].from = f
        /\ pair[n].refresh = "db" \/ n \in expired
    BY <1>1 DEF Holds, Stored
  <1>3. /\ req[r].op = "refresh" /\ f \in DOMAIN pair /\ pair[f].told /\ f # n
        /\ pair[f].login = req[r].login
    BY <1>1, <1>2 DEF Serves, Accepted
  <1>4. /\ q \in Request /\ q.pc = "answer" /\ q.op = req[r].op
        /\ q.login = req[r].login /\ q.from = f /\ q.pair = n
        /\ q.client = req[r].client /\ q.scopes = req[r].scopes /\ q.resource = req[r].resource
    BY <1>1 DEF Request
  <1> HIDE DEF q
  <1>5. /\ pair' \in Seq(Pair) /\ Len(pair') = Len(pair) /\ DOMAIN pair' = DOMAIN pair
        /\ \A p \in DOMAIN pair :
             /\ pair'[p].login = pair[p].login /\ pair'[p].from = pair[p].from
             /\ pair'[p].client = pair[p].client /\ pair'[p].resource = pair[p].resource
             /\ pair'[p].scopes = pair[p].scopes /\ pair'[p].told = pair[p].told
             /\ pair'[p].refresh = IF p = f THEN "gone" ELSE pair[p].refresh
    BY <1>1, RemovedPairs DEF Inv, Types
  <1>6. \A s \in Requests : s # r /\ req[s].pc \in Stored =>
          req[s].pair \in DOMAIN pair /\ req[s].pair # f /\ ~pair[req[s].pair].told
    BY <1>3 DEF Inv, Holds
  <1>7. Goes(r, q)
    BY <1>1, <1>4, <1>5, <1>6 DEF Goes, Stored
  <1>8. \A s \in Requests : req'[s] = IF s = r THEN q ELSE req[s]
    BY <1>7, GoesKept
  <1>9. Begun(r)' /\ Serves(r)' /\ Holds(r)'
    BY <1>1, <1>2, <1>3, <1>4, <1>5, <1>8 DEF Begun, Serves, Holds, Accepted
  <1>10. /\ Types' /\ OwnPairs' /\ TermsKept'
         /\ \A s \in Requests : Begun(s)' /\ Serves(s)' /\ Holds(s)'
    BY <1>7, <1>9, GoesInv
  <1>11. /\ ToldOnce'
         /\ \A m : PairsOf(m)' = PairsOf(m) /\ Newest(m)' = Newest(m)
         /\ alone => \A s \in Requests : s # r => req[s] = Idle
    BY <1>1, <1>4, <1>5, <1>7, GoesUntold DEF Accepted
  <1>12. InTurn'
    <2>1. SUFFICES ASSUME alone
                   PROVE  /\ \A s, t \in Requests : req'[s] # Idle /\ req'[t] # Idle => s = t
                          /\ \A s \in Requests : req'[s].pc \in Accepted /\ req'[s].op = "refresh" =>
                               /\ req'[s].from \in Newest(req'[s].login)
                               /\ pair'[req'[s].from].refresh
                                    = IF req'[s].pc = "answer" THEN "gone" ELSE "db"
                               /\ req'[s].pc # "access"
      BY <1>1, <1>11 DEF InTurn
    <2>2. \A s \in Requests : s # r => req'[s] = Idle
      BY <1>8, <1>11, <2>1
    <2>3. f \in Newest(req[r].login) /\ pair'[f].refresh = "gone"
      BY <1>1, <1>3, <1>5, <2>1 DEF Inv, InTurn, Accepted
    <2>4. Idle.pc = "idle"
      BY DEF Idle
    <2>5. QED
      BY <1>4, <1>8, <2>2, <2>3, <2>4 DEF Accepted
  <1>13. LoginKept'
    <2>1. SUFFICES ASSUME NEW m \in DOMAIN login, \E p \in PairsOf(m) : pair'[p].told,
                          PairsOf(m) \cap expired = {},
                          \A p \in PairsOf(m) : pair'[p].refresh \notin {"memory", "lost"}
                   PROVE  \E p \in PairsOf(m) : pair'[p].refresh = "db"
      BY <1>1, <1>11 DEF LoginKept
    <2>2. CASE m = req[r].login
      <3>1. n \in PairsOf(m)
        BY <1>2, <2>2 DEF PairsOf
      <3>2. pair'[n].refresh = "db"
        BY <1>2, <1>3, <1>5, <2>1, <3>1
      <3>3. QED
        BY <3>1, <3>2
    <2>3. CASE m # req[r].login
      <3>1. \A p \in PairsOf(m) : /\ pair'[p].refresh = pair[p].refresh
                                  /\ pair'[p].told = pair[p].told
        BY <1>3, <1>5, <2>3 DEF PairsOf
      <3>2. QED
        BY <2>1, <3>1 DEF Inv, LoginKept
    <2>4. QED
      BY <2>2, <2>3
  <1>14. NewestRefreshes'
    <2>1. SUFFICES ASSUME alone, NEW m \in DOMAIN login
                   PROVE  /\ \A p \in PairsOf(m) : pair'[p].told /\ InStore(p)' => p \in Newest(m)
                          /\ \A p \in Newest(m) :
                               InStore(p)' \/ p \in expired \/ crashes > 0
                               \/ pair'[p].refresh = "cut"
                               \/ \E s \in Requests : req'[s].pc = "answer" /\ req'[s].from = p
      BY <1>1, <1>11 DEF NewestRefreshes
    <2>2. \A p \in PairsOf(m) : pair'[p].told /\ InStore(p)' => pair[p].told /\ InStore(p)
      BY <1>5 DEF PairsOf, InStore
    <2>3. \A p \in Newest(m) : /\ p \in PairsOf(m)
                               /\ p # f => /\ InStore(p)' <=> InStore(p)
                                          /\ pair'[p].refresh = pair[p].refresh
      BY <1>5 DEF Newest, PairsOf, InStore
    <2>4. \A s \in Requests : req[s].pc = "answer" => req'[s] = req[s]
      BY <1>1, <1>8
    <2>5. req'[r].pc = "answer" /\ req'[r].from = f
      BY <1>4, <1>8
    <2>6. QED
      BY <2>1, <2>2, <2>3, <2>4, <2>5 DEF Inv, NewestRefreshes
  <1>15. QED
    BY <1>10, <1>11, <1>12, <1>13, <1>14 DEF Inv

\* The client is told of its pair: for a code only when the code was still there.
Tells(r) ==
    /\ \/ req[r].pc = "answer" /\ code' = code
       \/ /\ req[r].pc = "count" /\ req[r].login \in code
          /\ code' = code \ {req[r].login}
    /\ pair' = Told(r) /\ Goto(r, Idle)
    /\ UNCHANGED <<registered, db, mapping, login, offered, expired, crashes, alone>>

LEMMA TellsInv ==
  ASSUME Inv, NEW r \in Requests, Tells(r)
  PROVE  Inv'
  <1> DEFINE n == req[r].pair
             l == req[r].login
             f == req[r].from
  <1>1. /\ req[r].pc \in {"answer", "count"} /\ Serves(r) /\ Holds(r)
        /\ req[r].pc = "count" => l \in code
        /\ code' = IF req[r].pc = "count" THEN code \ {l} ELSE code
        /\ req' = [req EXCEPT ![r] = Idle] /\ pair' = [pair EXCEPT ![n].told = TRUE]
        /\ UNCHANGED <<registered, db, mapping, login, offered, expired, crashes, alone>>
    BY DEF Inv, Tells, Told, Goto
  <1>2. /\ n \in DOMAIN pair /\ ~pair[n].told /\ pair[n].login = l
        /\ pair[n].from = f
        /\ pair[n].refresh = "db" \/ n \in expired
    BY <1>1 DEF Holds, Stored
  <1>3. \/ /\ req[r].op = "refresh" /\ f \in DOMAIN pair /\ pair[f].told /\ f # n
           /\ pair[f].login = l /\ l \notin code /\ req[r].pc = "answer"
        \/ /\ f = 0 /\ Untold(l)
           /\ \/ req[r].op = "device" /\ ForDevice(r) /\ l \notin code
              \/ req[r].pc = "count" /\ l \in code
    BY <1>1, <1>2 DEF Serves, Accepted, Inv, ToldOnce, ForDevice, Untold
  <1>4. /\ pair' \in Seq(Pair) /\ Len(pair') = Len(pair) /\ DOMAIN pair' = DOMAIN pair
        /\ pair'[n].told = TRUE /\ \A p \in DOMAIN pair : p # n => pair'[p] = pair[p]
        /\ \A p \in DOMAIN pair :
             /\ pair'[p].login = pair[p].login /\ pair'[p].from = pair[p].from
             /\ pair'[p].client = pair[p].client /\ pair'[p].resource = pair[p].resource
             /\ pair'[p].scopes = pair[p].scopes /\ pair'[p].refresh = pair[p].refresh
    <2> DEFINE new == [pair[n] EXCEPT !.told = TRUE]
    <2>1. /\ pair[n] \in Pair /\ pair \in Seq(Pair)
      BY <1>2 DEF Inv, Types, TypeOK
    <2>2. /\ new \in Pair
          /\ new.login = pair[n].login /\ new.from = pair[n].from
          /\ new.client = pair[n].client /\ new.resource = pair[n].resource
          /\ new.scopes = pair[n].scopes /\ new.refresh = pair[n].refresh
          /\ new.told = TRUE
      BY <2>1 DEF Pair
    <2>3. pair' = [pair EXCEPT ![n] = new]
      BY <1>1
    <2> HIDE DEF new
    <2>4. /\ pair' \in Seq(Pair) /\ Len(pair') = Len(pair) /\ DOMAIN pair' = DOMAIN pair
      BY <2>1, <2>2, <2>3, <1>2
    <2>5. \A p \in DOMAIN pair : pair'[p] = IF p = n THEN new ELSE pair[p]
      BY <2>3
    <2>6. QED
      BY <1>2, <2>2, <2>4, <2>5
  <1>5. \A s \in Requests : s # r /\ req[s].pc \in Stored =>
          req[s].pair \in DOMAIN pair /\ req[s].pair # n /\ ~pair[req[s].pair].told
    BY <1>1 DEF Inv, OwnPairs, Stored, Holds
  <1>6. Idle \in Request /\ Idle.pc = "idle"
    BY DEF Idle, Request
  <1>7. Goes(r, Idle)
    BY <1>1, <1>4, <1>5, <1>6 DEF Goes, Stored
  <1>8. \A s \in Requests : req'[s] = IF s = r THEN Idle ELSE req[s]
    BY <1>7, GoesKept
  <1>9. Begun(r)' /\ Serves(r)' /\ Holds(r)'
    BY <1>6, <1>8 DEF Begun, Serves, Holds, Accepted, Stored
  <1>10. /\ Types' /\ OwnPairs' /\ TermsKept'
         /\ \A s \in Requests : Begun(s)' /\ Serves(s)' /\ Holds(s)'
    BY <1>7, <1>9, GoesInv
  <1>11. \A m : /\ PairsOf(m)' = PairsOf(m)
                /\ m # l => (Untold(m)' <=> Untold(m)) /\ Newest(m)' = Newest(m)
    <2>1. \A m : PairsOf(m)' = PairsOf(m)
      BY <1>4 DEF PairsOf
    <2>2. \A m : m # l => \A p \in PairsOf(m) : pair'[p] = pair[p]
      BY <1>2, <1>4 DEF PairsOf
    <2>3. \A m : m # l => Newest(m)' = Newest(m)
      BY <2>1, <2>2 DEF Newest
    <2>4. \A m : m # l => (Untold(m)' <=> Untold(m))
      BY <1>2, <1>4 DEF Untold
    <2>5. QED
      BY <2>1, <2>3, <2>4
  <1>12. ToldOnce'
    <2>1. \A m \in code' : m \in code /\ m # l
      BY <1>1, <1>3
    <2>2. \A m \in code' : Untold(m)'
      BY <1>11, <2>1 DEF Inv, ToldOnce
    <2>3. \A s \in Requests : ForDevice(s)' => s # r /\ ForDevice(s) /\ req'[s].login = req[s].login
      BY <1>6, <1>8 DEF ForDevice, Accepted
    <2>4. \A s \in Requests : ForDevice(s)' => req[s].login # l
      BY <1>3, <2>3 DEF Inv, ToldOnce, Untold
    <2>5. \A s \in Requests : ForDevice(s)' => req'[s].login \notin code' /\ Untold(req[s].login)'
      BY <1>11, <2>1, <2>3, <2>4 DEF Inv, ToldOnce
    <2>6. \A s, t \in Requests :
            ForDevice(s)' /\ ForDevice(t)' /\ req'[s].login = req'[t].login => s = t
      BY <2>3 DEF Inv, ToldOnce
    <2>7. ASSUME NEW p \in DOMAIN pair, NEW o \in DOMAIN pair, pair[p].from = 0, pair'[p].told,
                 pair[o].from = 0, pair'[o].told, pair[p].login = pair[o].login
          PROVE  p = o
      <3>1. 0 \notin DOMAIN pair
        BY PairNumbers DEF Inv
      <3>2. CASE p # n /\ o # n
        BY <1>4, <2>7, <3>2 DEF Inv, ToldOnce
      <3>3. CASE p = n \/ o = n
        <4>1. Untold(l) /\ pair[p].login = l /\ pair[o].login = l
          BY <1>2, <1>3, <2>7, <3>1, <3>3
        <4>2. QED
          BY <1>4, <2>7, <3>3, <4>1 DEF Untold
      <3>4. QED
        BY <3>2, <3>3
    <2>8. QED
      BY <1>4, <2>2, <2>3, <2>5, <2>6, <2>7 DEF ToldOnce
  <1>13. alone => \A s \in Requests : req'[s] = Idle
    <2>1. req[r] # Idle
      BY <1>1, <1>6
    <2>2. QED
      BY <1>8, <2>1 DEF Inv, InTurn
  <1>14. InTurn'
    BY <1>1, <1>6, <1>13 DEF InTurn, Accepted
  <1>15. LoginKept'
    <2>1. SUFFICES ASSUME NEW m \in DOMAIN login, \E p \in PairsOf(m) : pair'[p].told,
                          PairsOf(m) \cap expired = {},
                          \A p \in PairsOf(m) : pair'[p].refresh \notin {"memory", "lost"}
                   PROVE  \E p \in PairsOf(m) : pair'[p].refresh = "db"
      BY <1>1, <1>11 DEF LoginKept
    <2>2. CASE m = l
      <3>1. n \in PairsOf(m)
        BY <1>2, <2>2 DEF PairsOf
      <3>2. pair'[n].refresh = "db"
        BY <1>2, <1>4, <2>1, <3>1
      <3>3. QED
        BY <3>1, <3>2
    <2>3. CASE m # l
      <3>1. \A p \in PairsOf(m) : pair'[p] = pair[p]
        BY <1>2, <1>4, <2>3 DEF PairsOf
      <3>2. QED
        BY <2>1, <3>1 DEF Inv, LoginKept
    <2>4. QED
      BY <2>2, <2>3
  <1>16. NewestRefreshes'
    <2>1. SUFFICES ASSUME alone, NEW m \in DOMAIN login
                   PROVE  /\ \A p \in PairsOf(m) : pair'[p].told /\ InStore(p)' => p \in Newest(m)'
                          /\ \A p \in Newest(m)' : InStore(p)' \/ p \in expired \/ crashes > 0
                                                   \/ pair'[p].refresh = "cut"
      BY <1>1, <1>11 DEF NewestRefreshes
    <2>2. \A p \in DOMAIN pair : InStore(p)' <=> InStore(p)
      BY <1>4 DEF InStore
    <2>3. CASE m # l
      <3>1. \A p \in PairsOf(m) : pair'[p] = pair[p] /\ p \in DOMAIN pair
        BY <1>2, <1>4, <2>3 DEF PairsOf
      <3>2. Newest(m)' = Newest(m) /\ Newest(m) \subseteq PairsOf(m)
        BY <1>11, <2>3 DEF Newest
      <3>3. ASSUME NEW s \in Requests, req[s].pc = "answer", req[s].from \in Newest(m)
            PROVE  FALSE
        <4>1. s = r
          BY <1>6, <1>8, <1>13, <2>1, <3>3
        <4>2. f \in DOMAIN pair /\ pair[f].login = m
          BY <3>3, <4>1 DEF Newest, PairsOf
        <4>3. f # 0
          BY <4>2, PairNumbers DEF Inv
        <4>4. QED
          BY <1>3, <2>3, <4>2, <4>3
      <3>4. QED
        BY <2>1, <2>2, <3>1, <3>2, <3>3 DEF Inv, NewestRefreshes
    <2>4. CASE m = l
      <3>1. /\ n \in PairsOf(m) /\ pair'[n].told
            /\ \A p : p = n => InStore(p)' \/ p \in expired
        <4>1. n \in PairsOf(m) /\ pair'[n].told /\ pair'[n].refresh = pair[n].refresh
          BY <1>2, <1>4, <2>4 DEF PairsOf
        <4>2. \A p : p = n => InStore(p)' \/ p \in expired
          BY <1>2, <4>1 DEF InStore
        <4>3. QED
          BY <4>1, <4>2
      <3>2. ASSUME NEW p \in PairsOf(m), pair'[p].told
            PROVE  /\ p <= n /\ (p # n => p < n)
                   /\ InStore(p)' => p = n
        <4>1. p \in DOMAIN pair /\ pair[p].login = l /\ p \in Nat /\ n \in Nat
          BY <1>2, <2>4, PairNumbers DEF PairsOf, Inv
        <4>2. CASE p = n
          BY <4>1, <4>2
        <4>3. CASE p # n
          <5>1. pair[p].told
            BY <1>4, <3>2, <4>1, <4>3
          <5>2. /\ req[r].op = "refresh" /\ f \in DOMAIN pair /\ req[r].pc = "answer"
            BY <1>3, <4>1, <5>1 DEF Untold
          <5>3. f \in Newest(l) /\ pair[f].refresh = "gone"
            BY <2>1, <5>2 DEF Inv, InTurn, Accepted
          <5>4. p <= f
            BY <2>4, <3>2, <5>1, <5>3 DEF Newest
          <5>5. f < n /\ f \in Nat
            BY <1>2, <5>2, PairNumbers DEF Inv
          <5>6. InStore(p) => p \in Newest(l)
            BY <2>1, <2>4, <3>2, <5>1 DEF Inv, NewestRefreshes
          <5>7. InStore(p) => f <= p
            BY <5>3, <5>6 DEF Newest
          <5>8. ~InStore(p)
            BY <4>1, <5>3, <5>4, <5>5, <5>7 DEF InStore
          <5>9. QED
            BY <2>2, <4>1, <4>3, <5>4, <5>5, <5>8
        <4>4. QED
          BY <4>2, <4>3
      <3>3. n \in Newest(m)'
        BY <1>11, <3>1, <3>2 DEF Newest
      <3>4. ASSUME NEW p \in Newest(m)' PROVE p = n
        <4>1. p \in PairsOf(m) /\ pair'[p].told /\ n <= p
          BY <1>11, <3>1, <3>4 DEF Newest
        <4>2. p \in Nat /\ n \in Nat
          BY <1>2, <4>1, PairNumbers DEF Inv, PairsOf
        <4>3. QED
          BY <3>2, <4>1, <4>2
      <3>5. \A p \in PairsOf(m)' : pair'[p].told /\ InStore(p)' => p \in Newest(m)'
        BY <1>11, <3>2, <3>3
      <3>6. \A p \in Newest(m)' : InStore(p)' \/ p \in expired \/ crashes > 0
                                  \/ pair'[p].refresh = "cut"
        BY <3>1, <3>4
      <3>7. QED
        BY <1>11, <3>5, <3>6
    <2>5. QED
      BY <2>3, <2>4
  <1>17. QED
    BY <1>10, <1>12, <1>14, <1>15, <1>16 DEF Inv

LEMMA AnswerInv ==
  ASSUME Inv, NEW r \in Requests, Answer(r) \/ RemoveCode(r)
  PROVE  Inv'
  <1>1. CASE Answer(r)
    <2>1. Tells(r)
      BY <1>1 DEF Answer, Tells, memory
    <2>2. QED
      BY <2>1, TellsInv
  <1>2. CASE RemoveCode(r) /\ req[r].login \in code
    <2>1. Tells(r)
      BY <1>2 DEF RemoveCode, Tells
    <2>2. QED
      BY <2>1, TellsInv
  <1>3. CASE RemoveCode(r) /\ req[r].login \notin code
    <2>1. /\ Goto(r, Idle) /\ req[r].pc # "answer"
          /\ UNCHANGED <<registered, db, mapping, code, login, offered, pair, expired, crashes,
                         alone>>
      BY <1>3 DEF RemoveCode
    <2>2. mapping' \in [States -> Flow \cup {None}] /\ offered' \subseteq DOMAIN login
      BY <2>1 DEF Inv, Types, TypeOK
    <2>3. Idle \in Request /\ Idle.pc = "idle" /\ req'[r] = Idle
      BY <2>1 DEF Idle, Request, Goto, Inv, Types
    <2>4. Begun(r)' /\ Serves(r)'
      BY <2>3 DEF Begun, Serves, Accepted
    <2>5. QED
      BY <2>1, <2>2, <2>3, <2>4, MoveInv DEF Accepted, Stored
  <1>4. QED
    BY <1>1, <1>2, <1>3

-----------------------------------------------------------------------------
(* The end of tokens.                                                      *)

\* The old token is deleted, and the request fails all the same.
LEMMA CutInv ==
  ASSUME Inv, NEW r \in Requests, req[r].pc = "answer", Fail(r)
  PROVE  Inv'
  <1> DEFINE n == req[r].pair
             f == req[r].from
  <1>1. /\ Serves(r) /\ Holds(r) /\ req' = [req EXCEPT ![r] = Idle]
        /\ pair' = IF f # 0 THEN [pair EXCEPT ![f].refresh = "cut"] ELSE pair
        /\ UNCHANGED <<registered, db, mapping, code, login, offered, expired, crashes, alone>>
    BY DEF Inv, Fail, Cut, memory, Goto
  <1>2. /\ n \in DOMAIN pair /\ ~pair[n].told /\ pair[n].login = req[r].login
        /\ pair[n].from = f
        /\ pair[n].refresh = "db" \/ n \in expired
    BY <1>1 DEF Holds, Stored
  <1>3. /\ f \in {0} \cup DOMAIN pair /\ 0 \notin DOMAIN pair /\ f # n
        /\ f # 0 => pair[f].told /\ pair[f].login = req[r].login
    <2>1. f < n /\ 0 \notin DOMAIN pair /\ f \in {0} \cup DOMAIN pair /\ n \in Nat
      BY <1>2, PairNumbers DEF Inv
    <2>2. f # 0 => pair[f].told /\ pair[f].login = req[r].login
      BY <1>1 DEF Serves, Accepted
    <2>3. QED
      BY <2>1, <2>2
  <1>4. /\ pair' \in Seq(Pair) /\ Len(pair') = Len(pair) /\ DOMAIN pair' = DOMAIN pair
        /\ \A p \in DOMAIN pair :
             /\ pair'[p].login = pair[p].login /\ pair'[p].from = pair[p].from
             /\ pair'[p].client = pair[p].client /\ pair'[p].resource = pair[p].resource
             /\ pair'[p].scopes = pair[p].scopes /\ pair'[p].told = pair[p].told
             /\ pair'[p].refresh = IF p = f THEN "cut" ELSE pair[p].refresh
    <2>1. pair \in Seq(Pair) /\ \A p \in DOMAIN pair : pair[p] \in Pair
      BY PairNumbers DEF Inv, Types
    <2>2. CASE f = 0
      BY <1>1, <1>3, <2>1, <2>2
    <2>3. CASE f # 0
      <3> DEFINE new == [pair[f] EXCEPT !.refresh = "cut"]
      <3>1. /\ new \in Pair
            /\ new.login = pair[f].login /\ new.from = pair[f].from
            /\ new.client = pair[f].client /\ new.resource = pair[f].resource
            /\ new.scopes = pair[f].scopes /\ new.told = pair[f].told
            /\ new.refresh = "cut"
        BY <1>3, <2>1, <2>3 DEF Pair
      <3>2. pair' = [pair EXCEPT ![f] = new]
        BY <1>1, <2>3
      <3> HIDE DEF new
      <3>3. pair' \in Seq(Pair) /\ Len(pair') = Len(pair) /\ DOMAIN pair' = DOMAIN pair
        BY <1>3, <2>1, <2>3, <3>1, <3>2
      <3>4. \A p \in DOMAIN pair : pair'[p] = IF p = f THEN new ELSE pair[p]
        BY <3>2
      <3>5. QED
        BY <3>1, <3>3, <3>4
    <2>4. QED
      BY <2>2, <2>3
  <1>5. \A s \in Requests : s # r /\ req[s].pc \in Stored =>
          req[s].pair \in DOMAIN pair /\ req[s].pair # f /\ ~pair[req[s].pair].told
    BY <1>3 DEF Inv, Holds
  <1>6. Idle \in Request /\ Idle.pc = "idle"
    BY DEF Idle, Request
  <1>7. Goes(r, Idle)
    BY <1>1, <1>4, <1>5, <1>6 DEF Goes, Stored
  <1>8. \A s \in Requests : req'[s] = IF s = r THEN Idle ELSE req[s]
    BY <1>7, GoesKept
  <1>9. Begun(r)' /\ Serves(r)' /\ Holds(r)'
    BY <1>6, <1>8 DEF Begun, Serves, Holds, Accepted, Stored
  <1>10. /\ Types' /\ OwnPairs' /\ TermsKept'
         /\ \A s \in Requests : Begun(s)' /\ Serves(s)' /\ Holds(s)'
    BY <1>7, <1>9, GoesInv
  <1>11. \A m : /\ PairsOf(m)' = PairsOf(m) /\ (Untold(m)' <=> Untold(m))
                /\ Newest(m)' = Newest(m)
    <2>1. \A m : PairsOf(m)' = PairsOf(m) /\ (Untold(m)' <=> Untold(m))
      BY <1>4 DEF PairsOf, Untold
    <2>2. QED
      BY <1>4, <2>1 DEF Newest, PairsOf
  <1>12. ToldOnce'
    <2>1. \A s \in Requests : ForDevice(s)' => ForDevice(s) /\ req'[s].login = req[s].login
      BY <1>6, <1>8 DEF ForDevice, Accepted
    <2>2. QED
      BY <1>1, <1>4, <1>11, <2>1 DEF Inv, ToldOnce
  <1>13. alone => \A s \in Requests : req'[s] = Idle /\ (s # r => req[s] = Idle)
    <2>1. req[r] # Idle
      BY <1>6
    <2>2. QED
      BY <1>8, <2>1 DEF Inv, InTurn
  <1>14. InTurn'
    BY <1>1, <1>6, <1>13 DEF InTurn, Accepted
  <1>15. LoginKept'
    <2>1. SUFFICES ASSUME NEW m \in DOMAIN login, \E p \in PairsOf(m) : pair'[p].told,
                          PairsOf(m) \cap expired = {},
                          \A p \in PairsOf(m) : pair'[p].refresh \notin {"memory", "lost"}
                   PROVE  \E p \in PairsOf(m) : pair'[p].refresh = "db"
      BY <1>1, <1>11 DEF LoginKept
    <2>2. CASE m = req[r].login
      <3>1. n \in PairsOf(m)
        BY <1>2, <2>2 DEF PairsOf
      <3>2. pair'[n].refresh = "db"
        BY <1>2, <1>3, <1>4, <2>1, <3>1
      <3>3. QED
        BY <3>1, <3>2
    <2>3. CASE m # req[r].login
      <3>1. \A p \in PairsOf(m) : /\ pair'[p].refresh = pair[p].refresh
                                  /\ pair'[p].told = pair[p].told
        BY <1>3, <1>4, <2>3 DEF PairsOf
      <3>2. QED
        BY <2>1, <3>1 DEF Inv, LoginKept
    <2>4. QED
      BY <2>2, <2>3
  <1>16. NewestRefreshes'
    <2>1. SUFFICES ASSUME alone, NEW m \in DOMAIN login
                   PROVE  /\ \A p \in PairsOf(m) : pair'[p].told /\ InStore(p)' => p \in Newest(m)
                          /\ \A p \in Newest(m) :
                               InStore(p)' \/ p \in expired \/ crashes > 0
                               \/ pair'[p].refresh = "cut"
      BY <1>1, <1>11 DEF NewestRefreshes
    <2>2. \A p \in PairsOf(m) : pair'[p].told /\ InStore(p)' => pair[p].told /\ InStore(p)
      BY <1>4 DEF PairsOf, InStore
    <2>3. ASSUME NEW p \in Newest(m)
          PROVE  InStore(p)' \/ p \in expired \/ crashes > 0 \/ pair'[p].refresh = "cut"
      <3>1. p \in DOMAIN pair
        BY DEF Newest, PairsOf
      <3>2. CASE p = f
        BY <1>4, <3>1, <3>2
      <3>3. CASE p # f
        <4>1. \A s \in Requests : ~(req[s].pc = "answer" /\ req[s].from = p)
          BY <1>6, <1>13, <2>1, <3>3
        <4>2. pair'[p].refresh = pair[p].refresh
          BY <1>4, <3>1, <3>3
        <4>3. QED
          BY <2>1, <4>1, <4>2 DEF Inv, NewestRefreshes, InStore
      <3>4. QED
        BY <3>2, <3>3
    <2>4. QED
      BY <2>1, <2>2, <2>3 DEF Inv, NewestRefreshes
  <1>17. QED
    BY <1>10, <1>12, <1>14, <1>15, <1>16 DEF Inv

LEMMA ForgetExpiredInv ==
  ASSUME Inv, NEW f \in DOMAIN pair, ForgetExpired(f)
  PROVE  Inv'
  <1>1. /\ f \in expired /\ pair' = Removed(pair, f)
        /\ UNCHANGED <<registered, db, mapping, code, login, offered, expired, req, crashes, alone>>
        /\ alone => \A r \in Requests : req[r] = Idle
    BY DEF ForgetExpired, Free, memory
  <1>2. /\ pair' \in Seq(Pair) /\ Len(pair') = Len(pair) /\ DOMAIN pair' = DOMAIN pair
        /\ \A p \in DOMAIN pair :
             /\ pair'[p].login = pair[p].login /\ pair'[p].from = pair[p].from
             /\ pair'[p].client = pair[p].client /\ pair'[p].resource = pair[p].resource
             /\ pair'[p].scopes = pair[p].scopes /\ pair'[p].told = pair[p].told
             /\ pair'[p].refresh = IF p = f THEN "gone" ELSE pair[p].refresh
    BY <1>1, RemovedPairs DEF Inv, Types
  <1>3. Types'
    <2>1. \A p \in DOMAIN pair' : pair'[p] \in Pair
      <3>1. pair' \in Seq(Pair)
        BY <1>2
      <3>2. QED
        BY <3>1
    <2>2. TypeOK'
      BY <1>1, <1>2, <2>1 DEF Inv, Types, TypeOK
    <2>3. Request' = Request
      BY <1>1, <1>2 DEF Request
    <2>4. QED
      BY <1>1, <1>2, <2>2, <2>3 DEF Inv, Types
  <1>4. Kept
    BY <1>1, <1>2, <1>3 DEF Kept
  <1>5. \A s \in Requests : Begun(s)' /\ Serves(s)' /\ Holds(s)'
    <2>1. \A s \in Requests : req[s].pc \in Stored =>
            /\ ~pair'[req[s].pair].told
            /\ pair'[req[s].pair].refresh = pair[req[s].pair].refresh \/ req[s].pair \in expired'
      BY <1>1, <1>2 DEF Inv, Holds
    <2>2. QED
      BY <1>1, <1>4, <2>1, OtherRequest
  <1>6. \A m : /\ PairsOf(m)' = PairsOf(m) /\ (Untold(m)' <=> Untold(m))
               /\ Newest(m)' = Newest(m)
    <2>1. \A m : PairsOf(m)' = PairsOf(m) /\ (Untold(m)' <=> Untold(m))
      BY <1>2 DEF PairsOf, Untold
    <2>2. QED
      BY <1>2, <2>1 DEF Newest, PairsOf
  <1>7. OwnPairs' /\ ToldOnce'
    BY <1>1, <1>2, <1>6 DEF Inv, OwnPairs, ToldOnce, ForDevice
  <1>8. InTurn'
    BY <1>1 DEF InTurn, Idle, Accepted
  <1>9. LoginKept'
    <2>1. SUFFICES ASSUME NEW m \in DOMAIN login, \E p \in PairsOf(m) : pair'[p].told,
                          PairsOf(m) \cap expired = {},
                          \A p \in PairsOf(m) : pair'[p].refresh \notin {"memory", "lost"}
                   PROVE  \E p \in PairsOf(m) : pair'[p].refresh = "db"
      BY <1>1, <1>6 DEF LoginKept
    <2>2. \A p \in PairsOf(m) : /\ pair'[p].refresh = pair[p].refresh
                                /\ pair'[p].told = pair[p].told
      BY <1>1, <1>2, <2>1 DEF PairsOf
    <2>3. QED
      BY <2>1, <2>2 DEF Inv, LoginKept
  <1>10. NewestRefreshes'
    <2>1. SUFFICES ASSUME alone, NEW m \in DOMAIN login
                   PROVE  /\ \A p \in PairsOf(m) : pair'[p].told /\ InStore(p)' => p \in Newest(m)
                          /\ \A p \in Newest(m) :
                               InStore(p)' \/ p \in expired \/ crashes > 0
                               \/ pair'[p].refresh = "cut"
                               \/ \E s \in Requests : req[s].pc = "answer" /\ req[s].from = p
      BY <1>1, <1>6 DEF NewestRefreshes
    <2>2. \A p \in PairsOf(m) : pair'[p].told /\ InStore(p)' => pair[p].told /\ InStore(p)
      BY <1>2 DEF PairsOf, InStore
    <2>3. \A p \in Newest(m) : \/ p \in expired
                               \/ /\ InStore(p)' <=> InStore(p)
                                  /\ pair'[p].refresh = pair[p].refresh
      BY <1>1, <1>2 DEF Newest, PairsOf, InStore
    <2>4. QED
      BY <2>1, <2>2, <2>3 DEF Inv, NewestRefreshes
  <1>11. TermsKept'
    BY <1>1, <1>2, <1>4, TermsStay
  <1>12. QED
    BY <1>3, <1>5, <1>7, <1>8, <1>9, <1>10, <1>11 DEF Inv

LEMMA CrashInv ==
  ASSUME Inv, NEW usesDb \in BOOLEAN, Crash(usesDb)
  PROVE  Inv'
  <1>1. /\ crashes < MaxCrashes /\ crashes' = crashes + 1 /\ db' = usesDb /\ code' = {}
        /\ req' = [r \in Requests |-> Idle] /\ mapping' = [s \in States |-> None]
        /\ pair' = [p \in DOMAIN pair |-> AfterCrash(p, usesDb)]
        /\ UNCHANGED <<registered, login, offered, expired, alone>>
    BY DEF Crash
  <1>2. /\ \A p \in DOMAIN pair : pair[p] \in Pair
        /\ DOMAIN pair = 1..Len(pair) /\ Len(pair) \in Nat
    BY PairNumbers DEF Inv
  <1>3. \A p \in DOMAIN pair :
          /\ AfterCrash(p, usesDb) \in Pair
          /\ AfterCrash(p, usesDb).login = pair[p].login
          /\ AfterCrash(p, usesDb).from = pair[p].from
          /\ AfterCrash(p, usesDb).client = pair[p].client
          /\ AfterCrash(p, usesDb).resource = pair[p].resource
          /\ AfterCrash(p, usesDb).scopes = pair[p].scopes
          /\ AfterCrash(p, usesDb).told = pair[p].told
          /\ AfterCrash(p, usesDb).refresh = IF pair[p].refresh = "memory" THEN "lost"
                                             ELSE IF usesDb /\ p \in expired THEN "gone"
                                             ELSE pair[p].refresh
    BY <1>2 DEF AfterCrash, Pair
  <1>4. /\ pair' \in Seq(Pair) /\ Len(pair') = Len(pair) /\ DOMAIN pair' = DOMAIN pair
        /\ \A p \in DOMAIN pair : pair'[p] = AfterCrash(p, usesDb)
    BY <1>1, <1>2, <1>3
  <1>5. \A p \in DOMAIN pair :
          /\ pair'[p] \in Pair
          /\ pair'[p].login = pair[p].login /\ pair'[p].from = pair[p].from
          /\ pair'[p].client = pair[p].client /\ pair'[p].resource = pair[p].resource
          /\ pair'[p].scopes = pair[p].scopes /\ pair'[p].told = pair[p].told
          /\ pair'[p].refresh = IF pair[p].refresh = "memory" THEN "lost"
                                ELSE IF usesDb /\ p \in expired THEN "gone" ELSE pair[p].refresh
    BY <1>3, <1>4
  <1>6. /\ \A r \in Requests : req'[r] = Idle
        /\ Idle \in Request' /\ Idle.pc = "idle" /\ Idle.pair = 0 /\ Idle.login = 0
        /\ crashes' \in 1..MaxCrashes
    <2>1. crashes' \in 1..MaxCrashes
      BY <1>1, AuthServerAssumption DEF Inv, Types, TypeOK
    <2>2. QED
      BY <1>1, <2>1 DEF Idle, Request
  <1>7. Types'
    <2>1. \A s \in States : mapping'[s] = None
      BY <1>1
    <2>2. crashes' \in 0..MaxCrashes
      BY <1>6, AuthServerAssumption
    <2>3. \A r \in Requests : req'[r].pc = "idle" /\ req'[r].pair = 0 /\ req'[r].login = 0
      BY <1>6
    <2>4. \A p \in DOMAIN pair' : pair'[p] \in Pair /\ pair'[p].from < p
      BY <1>4, <1>5 DEF Inv, Types, TypeOK
    <2>5. TypeOK'
      BY <1>1, <1>4, <2>1, <2>2, <2>3, <2>4 DEF Inv, Types, TypeOK
    <2>6. req' \in [Requests -> Request']
      BY <1>1, <1>6
    <2>7. QED
      BY <1>1, <1>4, <1>5, <2>5, <2>6 DEF Inv, Types
  <1>8. Kept
    BY <1>1, <1>4, <1>5, <1>7 DEF Kept
  <1>9. \A s \in Requests : Begun(s)' /\ Serves(s)' /\ Holds(s)'
    BY <1>6 DEF Begun, Serves, Holds, Accepted, Stored
  <1>10. \A m : PairsOf(m)' = PairsOf(m) /\ Newest(m)' = Newest(m)
    <2>1. \A m : PairsOf(m)' = PairsOf(m)
      BY <1>4, <1>5 DEF PairsOf
    <2>2. \A m : \A p \in PairsOf(m) : pair'[p].told = pair[p].told
      BY <1>5 DEF PairsOf
    <2>3. QED
      BY <2>1, <2>2 DEF Newest
  <1>11. OwnPairs' /\ ToldOnce' /\ InTurn'
    BY <1>1, <1>4, <1>5, <1>6 DEF Inv, OwnPairs, ToldOnce, InTurn, ForDevice, Accepted, Stored
  <1>12. LoginKept'
    <2>1. SUFFICES ASSUME NEW m \in DOMAIN login, \E p \in PairsOf(m) : pair'[p].told,
                          PairsOf(m) \cap expired = {},
                          \A p \in PairsOf(m) : pair'[p].refresh \notin {"memory", "lost"}
                   PROVE  \E p \in PairsOf(m) : pair'[p].refresh = "db"
      BY <1>1, <1>10 DEF LoginKept
    <2>2. \A p \in PairsOf(m) : /\ pair'[p].refresh = pair[p].refresh
                                /\ pair'[p].told = pair[p].told
      BY <1>5, <2>1 DEF PairsOf
    <2>3. QED
      BY <2>1, <2>2 DEF Inv, LoginKept
  <1>13. NewestRefreshes'
    <2>1. SUFFICES ASSUME alone, NEW m \in DOMAIN login
                   PROVE  /\ \A p \in PairsOf(m) : pair'[p].told /\ InStore(p)' => p \in Newest(m)
                          /\ crashes' > 0
      BY <1>1, <1>10 DEF NewestRefreshes
    <2>2. \A p \in PairsOf(m) : pair'[p].told /\ InStore(p)' => pair[p].told /\ InStore(p)
      BY <1>5 DEF PairsOf, InStore
    <2>3. QED
      BY <1>6, <2>1, <2>2 DEF Inv, NewestRefreshes
  <1>14. TermsKept'
    BY <1>4, <1>8, TermsStay
  <1>15. QED
    BY <1>7, <1>9, <1>11, <1>12, <1>13, <1>14 DEF Inv

-----------------------------------------------------------------------------
(* The theorem: every step keeps Inv.                                      *)

LEMMA NextInv == Inv /\ [Next]_vars => Inv'
  <1> SUFFICES ASSUME Inv, [Next]_vars PROVE Inv'
    OBVIOUS
  <1>1. CASE UNCHANGED vars
    <2>1. UNCHANGED <<registered, db, mapping, code, login, offered, pair, expired, req, crashes,
                      alone>>
      BY <1>1 DEF vars, memory, tables
    <2>2. Types'
      BY <2>1 DEF Inv, Types, TypeOK, Request
    <2>3. QED
      BY <2>1, <2>2, QuietInv
  <1>2. ASSUME NEW r \in Requests, NEW l \in DOMAIN login, BeginCode(r, l) PROVE Inv'
    <2>1. CASE db
      BY <1>2, <2>1, BeginCodeDbInv
    <2>2. CASE ~db
      BY <1>2, <2>2, BeginCodeMemoryInv
    <2>3. QED
      BY <2>1, <2>2
  <1>3. ASSUME NEW r \in Requests, NEW p \in DOMAIN pair, NEW scopes \in SUBSET Scopes \ {{}},
               BeginRefresh(r, p, scopes)
        PROVE  Inv'
    <2>1. CASE db
      BY <1>3, <2>1, BeginRefreshDbInv
    <2>2. CASE ~db
      BY <1>3, <2>2, BeginRefreshMemoryInv
    <2>3. QED
      BY <2>1, <2>2
  <1>4. ASSUME NEW r \in Requests, NEW scopes \in SUBSET Scopes \ {{}}, Polled(r, scopes)
        PROVE  Inv'
    <2>1. CASE db
      BY <1>4, <2>1, PolledDbInv
    <2>2. CASE ~db
      BY <1>4, <2>2, PolledMemoryInv
    <2>3. QED
      BY <2>1, <2>2
  <1>5. ASSUME NEW r \in Requests, Validated(r) \/ Fail(r) PROVE Inv'
    <2>1. CASE req[r].pc = "answer"
      <3>1. Fail(r)
        BY <1>5, <2>1 DEF Validated
      <3>2. QED
        BY <2>1, <3>1, CutInv
    <2>2. CASE req[r].pc # "answer"
      BY <1>5, <2>2, EndInv
    <2>3. QED
      BY <2>1, <2>2
  <1>6. QED
    BY <1>1, <1>2, <1>3, <1>4, <1>5, RegisterInv, AuthorizeInv, BeginCallbackInv, ExchangedInv,
       LoadResourceInv, BeginPollInv, StoreAccessInv, StoreRefreshInv, DeleteOldInv, AnswerInv,
       ExpireInv, ForgetExpiredInv, CrashInv
    DEF Next

\* The strengthening holds initially and every step keeps it.
THEOREM AuthServerInv == Spec => []Inv
  <1>1. QED
    BY InitInv, NextInv, PTL DEF Spec

-----------------------------------------------------------------------------
(* What the runs check, for every value of the constants.                  *)

\* Clients, codes, pairs and requests have their types.
THEOREM AuthServerTypes == Spec => []TypeOK
  <1>1. Inv => TypeOK
    BY DEF Inv, Types
  <1>2. QED
    BY <1>1, AuthServerInv, PTL

\* However exchanges of a code overlap, fail or are cut off by a crash, at most one is
\* answered: two roots of one login that are told would be the same pair.
THEOREM OneAnswerPerCode == Spec => []CodeAnsweredOnce
  <1>1. Inv => CodeAnsweredOnce
    <2>1. SUFFICES ASSUME Inv, NEW l \in DOMAIN login
                   PROVE  Cardinality({p \in PairsOf(l) : pair[p].from = 0 /\ pair[p].told}) <= 1
      BY DEF CodeAnsweredOnce
    <2> DEFINE S == {p \in PairsOf(l) : pair[p].from = 0 /\ pair[p].told}
    <2>2. \A p, q \in S : p = q
      BY <2>1 DEF Inv, ToldOnce, PairsOf
    <2> HIDE DEF S
    <2>3. CASE S = {}
      <3>1. Cardinality(S) = 0
        BY <2>3, FS_EmptySet
      <3>2. QED
        BY <3>1 DEF S
    <2>4. CASE S # {}
      <3>1. PICK p \in S : S = {p}
        BY <2>2, <2>4
      <3>2. Cardinality(S) = 1
        BY <3>1, FS_Singleton
      <3>3. QED
        BY <3>2 DEF S
    <2>5. QED
      BY <2>3, <2>4
  <1>2. QED
    BY <1>1, AuthServerInv, PTL

\* Once a client has a pair from the database, a refresh token of its login stays there
\* until one is past its time, whatever overlaps, fails or crashes.
THEOREM RotationKeepsLogin == Spec => []LoginKept
  <1>1. Inv => LoginKept
    BY DEF Inv
  <1>2. QED
    BY <1>1, AuthServerInv, PTL

\* A client that sends one request after the other can refresh with the newest pair it
\* was sent and with no other; only a crash or the time takes that from it, or a deletion
\* that was done but not confirmed.
THEOREM OnlyNewestRefreshes == Spec => []NewestRefreshes
  <1>1. Inv => NewestRefreshes
    BY DEF Inv
  <1>2. QED
    BY <1>1, AuthServerInv, PTL

\* Scopes only shrink along a chain of refreshes and the client stays; so does the
\* resource where requests do not overlap and the token that was spent was in time.
THEOREM ChainKeepsTerms == Spec => []TermsKept
  <1>1. Inv => TermsKept
    BY DEF Inv
  <1>2. QED
    BY <1>1, AuthServerInv, PTL
=============================================================================
