---------------------------- MODULE RelayProofs ----------------------------
(***************************************************************************)
(* Theorems about Relay for any channels, senders, long polls and pagers,  *)
(* any limits and any number of messages: its invariants, and that it      *)
(* implements the log of ChannelLog.                                       *)
(***************************************************************************)
EXTENDS Relay, FiniteSetTheorems, TLAPS

Types ==
    /\ TypeOK
    /\ channel \in [Channels -> Seq(Message) \cup {None}]
    /\ IsFiniteSet(Log!Open)
    /\ pager \in [Pagers -> [channel : Channels \cup {None}, forward : BOOLEAN,
                             limit : Limits \cup {0}, page : Seq(Message),
                             shown : SUBSET (1..MaxSends)]]
    /\ \A w \in Waiters : waiter[w].pc # "idle" => waiter[w].channel \in Channels

\* A sequence of messages is in the order of their ids.
Ascending(s) == \A i, j \in DOMAIN s : i < j => s[i].id < s[j].id

InOrder == \A c \in Channels : /\ Ascending(Held(c))
                               /\ \A i \in DOMAIN Held(c) : Held(c)[i].id <= sent

\* What a pager was shown is at most as far on its way as its cursor, which it was shown.
PagersKeepTo ==
    \A p \in Pagers :
      LET r == pager[p] IN
      /\ \A id \in r.shown : id <= sent
      /\ r.channel = None => r.shown = {}
      /\ Ids(r.page) \subseteq r.shown
      /\ r.page # <<>> =>
           \A id \in r.shown : IF r.forward THEN id <= Cursor(p) ELSE Cursor(p) <= id

Inv == Types /\ InOrder /\ AttachedMissNothing /\ PagersKeepTo /\ PagesLeaveNoGap

-----------------------------------------------------------------------------
(* The sequences.                                                          *)

LEMMA WithoutOne ==
  ASSUME NEW S, NEW s \in Seq(S), NEW i \in DOMAIN s
  PROVE  /\ Log!Without(s, i) \in Seq(S) /\ Len(Log!Without(s, i)) = Len(s) - 1
         /\ \A j \in 1..(Len(s) - 1) :
              Log!Without(s, i)[j] = s[IF j < i THEN j ELSE j + 1]
  <1> DEFINE a == SubSeq(s, 1, i - 1)
             b == SubSeq(s, i + 1, Len(s))
  <1>1. Len(s) \in Nat /\ DOMAIN s = 1..Len(s) /\ i \in 1..Len(s)
    OBVIOUS
  <1>2. a \in Seq(S) /\ Len(a) = i - 1 /\ \A j \in 1..(i - 1) : a[j] = s[j]
    BY <1>1
  <1>3. /\ b \in Seq(S) /\ Len(b) = Len(s) - i
        /\ \A j \in 1..(Len(s) - i) : b[j] = s[i + j]
    BY <1>1
  <1> HIDE DEF a, b
  <1>4. /\ a \o b \in Seq(S) /\ Len(a \o b) = Len(s) - 1
        /\ \A j \in 1..(Len(s) - 1) : (a \o b)[j] = IF j < i THEN a[j] ELSE b[j - i + 1]
    <2>1. /\ a \o b \in Seq(S) /\ Len(a \o b) = Len(a) + Len(b)
          /\ \A j \in 1..(Len(a) + Len(b)) :
               (a \o b)[j] = IF j <= Len(a) THEN a[j] ELSE b[j - Len(a)]
      <3>1. \A x, y \in Seq(S) :
              /\ x \o y \in Seq(S) /\ Len(x \o y) = Len(x) + Len(y)
              /\ \A j \in 1..(Len(x) + Len(y)) :
                   (x \o y)[j] = IF j <= Len(x) THEN x[j] ELSE y[j - Len(x)]
        OBVIOUS
      <3>2. QED
        BY <1>2, <1>3, <3>1
    <2>2. Len(a) + Len(b) = Len(s) - 1
      BY <1>1, <1>2, <1>3
    <2>3. \A j \in 1..(Len(s) - 1) : (j <= Len(a) <=> j < i) /\ j - Len(a) = j - i + 1
      BY <1>1, <1>2
    <2>4. QED
      BY <2>1, <2>2, <2>3
  <1>5. Log!Without(s, i) = a \o b
    BY DEF Log!Without, a, b
  <1>6. ASSUME NEW j \in 1..(Len(s) - 1)
        PROVE  (a \o b)[j] = s[IF j < i THEN j ELSE j + 1]
    <2>1. CASE j < i
      BY <1>1, <1>2, <1>4, <2>1
    <2>2. CASE ~(j < i)
      <3>1. j - i + 1 \in 1..(Len(s) - i) /\ i + (j - i + 1) = j + 1
        BY <1>1, <2>2
      <3>2. QED
        BY <1>3, <1>4, <2>2, <3>1
    <2>3. QED
      BY <2>1, <2>2
  <1>7. QED
    BY <1>4, <1>5, <1>6

\* t is the part of s that begins after place k.
Segment(t, s, k) ==
    k \in Nat /\ \A j \in DOMAIN t : k + j \in DOMAIN s /\ t[j] = s[k + j]

\* The newest k messages are the last part.
LEMMA NewestOf ==
  ASSUME NEW S, NEW s \in Seq(S), NEW k \in Nat \ {0}
  PROVE  /\ Log!Newest(k, s) \in Seq(S)
         /\ Len(Log!Newest(k, s)) = IF Len(s) <= k THEN Len(s) ELSE k
         /\ Segment(Log!Newest(k, s), s, Len(s) - Len(Log!Newest(k, s)))
  <1>1. Len(s) \in Nat /\ DOMAIN s = 1..Len(s)
    OBVIOUS
  <1>2. CASE Len(s) <= k
    BY <1>1, <1>2 DEF Log!Newest, Segment
  <1>3. CASE ~(Len(s) <= k)
    <2> DEFINE t == SubSeq(s, Len(s) - k + 1, Len(s))
    <2>1. /\ t \in Seq(S) /\ Len(t) = k
          /\ \A j \in 1..k : t[j] = s[Len(s) - k + j]
      BY <1>1, <1>3
    <2>2. DOMAIN t = 1..k
      BY <2>1
    <2> HIDE DEF t
    <2>3. Log!Newest(k, s) = t
      BY <1>3 DEF Log!Newest, t
    <2>4. \A j \in 1..k : Len(s) - k + j \in 1..Len(s)
      BY <1>1, <1>3
    <2>5. Len(s) - k \in Nat
      BY <1>1, <1>3
    <2>6. Segment(t, s, Len(s) - k)
      BY <1>1, <2>1, <2>2, <2>4, <2>5 DEF Segment
    <2>7. QED
      BY <1>1, <1>3, <2>1, <2>3, <2>6
  <1>4. QED
    BY <1>2, <1>3

LEMMA PartsAscend ==
  ASSUME NEW s \in Seq(Message), Ascending(s), NEW t \in Seq(Message), NEW k, Segment(t, s, k)
  PROVE  Ascending(t)
  <1>1. DOMAIN s \subseteq Nat /\ DOMAIN t \subseteq Nat
    OBVIOUS
  <1>2. SUFFICES ASSUME NEW i \in DOMAIN t, NEW j \in DOMAIN t, i < j
                 PROVE  t[i].id < t[j].id
    BY DEF Ascending
  <1>3. k + i < k + j
    BY <1>1, <1>2 DEF Segment
  <1>4. QED
    BY <1>3 DEF Segment, Ascending

\* The pages of a sequence are its first and its last part.
LEMMA PageOf ==
  ASSUME NEW s \in Seq(Message), NEW limit \in Limits \cup {0}
  PROVE  /\ Page(TRUE, limit, s) \in Seq(Message) /\ Page(FALSE, limit, s) \in Seq(Message)
         /\ Segment(Page(TRUE, limit, s), s, 0)
         /\ Segment(Page(FALSE, limit, s), s, Len(s) - Len(Page(FALSE, limit, s)))
  <1> DEFINE n == Capped(limit)
  <1>1. n \in Nat /\ Len(s) \in Nat /\ DOMAIN s = 1..Len(s)
    <2>1. limit \in Nat /\ MaxReadLimit \in Nat
      <3>1. Limits \subseteq Nat /\ MaxReadLimit \in Nat
        BY RelayAssumption
      <3>2. QED
        BY <3>1
    <2>2. QED
      BY <2>1 DEF Capped
  <1> HIDE DEF n
  <1>2. FirstOf(n, s) \in Seq(Message) /\ Segment(FirstOf(n, s), s, 0)
    <2> DEFINE k == IF n < Len(s) THEN n ELSE Len(s)
               t == SubSeq(s, 1, k)
    <2>1. k \in 0..Len(s)
      BY <1>1
    <2> HIDE DEF k
    <2>2. t \in Seq(Message) /\ Len(t) = k /\ \A j \in 1..k : t[j] = s[j]
      BY <1>1, <2>1
    <2>3. DOMAIN t = 1..k
      BY <2>2
    <2>4. FirstOf(n, s) = t
      BY DEF FirstOf, k
    <2> HIDE DEF t
    <2>5. Segment(t, s, 0)
      BY <1>1, <2>1, <2>2, <2>3 DEF Segment
    <2>6. QED
      BY <2>2, <2>4, <2>5
  <1>3. LastOf(n, s) \in Seq(Message) /\ Segment(LastOf(n, s), s, Len(s) - Len(LastOf(n, s)))
    <2>1. CASE n = 0 \/ n >= Len(s)
      BY <1>1, <2>1 DEF LastOf, Segment
    <2>2. CASE ~(n = 0 \/ n >= Len(s))
      <3>1. n \in Nat \ {0} /\ ~(Len(s) <= n)
        BY <1>1, <2>2
      <3>2. LastOf(n, s) = Log!Newest(n, s)
        BY <2>2, <3>1 DEF LastOf, Log!Newest
      <3>3. QED
        BY <3>1, <3>2, NewestOf
    <2>3. QED
      BY <2>1, <2>2
  <1>4. QED
    BY <1>2, <1>3 DEF Page, n

-----------------------------------------------------------------------------
(* The channels.                                                           *)

LEMMA HeldTypes ==
  ASSUME Types, NEW c \in Channels
  PROVE  /\ Held(c) \in Seq(Message) /\ Len(Held(c)) <= MaxPerChannel
         /\ Len(Held(c)) \in Nat /\ DOMAIN Held(c) = 1..Len(Held(c))
         /\ \A i \in DOMAIN Held(c) : Held(c)[i] \in Message /\ Held(c)[i].id \in 1..MaxSends
         /\ c \in Log!Open <=> channel[c] # None
         /\ channel[c] # None => channel[c] = Held(c)
         /\ None \notin Seq(Message)
  <1>1. channel[c] \in Seq(Message) \cup {None} /\ None \notin Seq(Message)
    BY RelayAssumption DEF Types
  <1>2. Held(c) \in Seq(Message)
    BY <1>1 DEF Held
  <1>3. Len(Held(c)) <= MaxPerChannel
    <2>1. CASE channel[c] = None
      BY <2>1, RelayAssumption DEF Held
    <2>2. CASE channel[c] # None
      BY <2>2 DEF Held, Types, TypeOK, Log!Open
    <2>3. QED
      BY <2>1, <2>2
  <1>4. \A i \in DOMAIN Held(c) : Held(c)[i] \in Message /\ Held(c)[i].id \in 1..MaxSends
    <2>1. \A i \in DOMAIN Held(c) : Held(c)[i] \in Message
      BY <1>2
    <2>2. QED
      BY <2>1 DEF Message
  <1>5. QED
    BY <1>1, <1>2, <1>3, <1>4 DEF Held, Log!Open

LEMMA InitInv == Init => Inv
  <1> SUFFICES ASSUME Init PROVE Inv
    OBVIOUS
  <1> USE DEF Init
  <1>1. Log!Open = {} /\ IsFiniteSet({}) /\ Cardinality({}) = 0
    BY FS_EmptySet DEF Log!Open
  <1>2. \A c \in Channels : Held(c) = <<>> /\ DOMAIN Held(c) = {}
    BY DEF Held
  <1>3. \A w \in Waiters : waiter[w].pc = "idle"
    BY DEF NoWait
  <1>4. \A p \in Pagers : /\ pager[p].channel = None /\ pager[p].limit = 0
                          /\ pager[p].page = <<>> /\ pager[p].shown = {}
    BY DEF NoPage
  <1>5. NoPage \in [channel : Channels \cup {None}, forward : BOOLEAN,
                    limit : Limits \cup {0}, page : Seq(Message), shown : SUBSET (1..MaxSends)]
    <2>1. <<>> \in Seq(Message)
      OBVIOUS
    <2>2. QED
      BY <2>1 DEF NoPage
  <1>6. NoWait \in [pc : {"idle", "waiting", "stranded", "woken"},
                    channel : Channels \cup {None}, since : 0..MaxSends]
    BY RelayAssumption DEF NoWait
  <1>7. Types
    BY <1>1, <1>3, <1>4, <1>5, <1>6, RelayAssumption DEF Types, TypeOK
  <1>8. InOrder
    BY <1>2 DEF InOrder, Ascending
  <1>9. AttachedMissNothing
    BY <1>3 DEF AttachedMissNothing
  <1>10. Ids(<<>>) = {}
    BY DEF Ids, Log!Content
  <1>11. PagersKeepTo /\ PagesLeaveNoGap
    BY <1>4, <1>10 DEF PagersKeepTo, PagesLeaveNoGap
  <1>12. QED
    BY <1>7, <1>8, <1>9, <1>11 DEF Inv

\* A channel c comes to hold t: messages it held, in order, or the next one too, and then
\* nobody waits on its Event.
Holds(c, t) ==
    /\ channel' \in [Channels -> Seq(Message) \cup {None}]
    /\ \A d \in Channels : d # c => channel'[d] = channel[d]
    /\ t = IF channel'[c] = None THEN <<>> ELSE channel'[c]
    /\ t \in Seq(Message) /\ Len(t) <= MaxPerChannel /\ Ascending(t)
    /\ sent' \in sent..MaxSends
    /\ \A i \in DOMAIN t : /\ t[i].id <= sent'
                           /\ t[i].id > sent \/ t[i] \in Log!Content(Held(c))
    /\ waiter' \in [Waiters -> [pc : {"idle", "waiting", "stranded", "woken"},
                                channel : Channels \cup {None}, since : 0..MaxSends]]
    /\ \A w \in Waiters : waiter'[w].pc = "waiting" =>
         /\ waiter'[w] = waiter[w]
         /\ sent' # sent => waiter[w].channel # c
    /\ \A w \in Waiters : waiter'[w].pc # "idle" => waiter'[w].channel \in Channels
    /\ pager' = pager
    /\ IsFiniteSet(Log!Open') /\ Cardinality(Log!Open') <= MaxChannels

LEMMA HoldsInv ==
  ASSUME Inv, NEW c \in Channels, NEW t, Holds(c, t)
  PROVE  Inv'
  <1>1. Types /\ Types'
    <2>1. ASSUME NEW d \in Log!Open'
          PROVE  channel'[d] \in Seq(Message) /\ Len(channel'[d]) <= MaxPerChannel
      <3>1. d \in Channels /\ channel'[d] # None
        BY DEF Log!Open
      <3>2. CASE d = c
        BY <3>1, <3>2 DEF Holds
      <3>3. CASE d # c
        BY <3>1, <3>3 DEF Holds, Inv, Types, TypeOK, Log!Open
      <3>4. QED
        BY <3>2, <3>3
    <2>2. sent' \in 0..MaxSends
      BY RelayAssumption DEF Holds, Inv, Types, TypeOK
    <2>3. TypeOK'
      BY <2>1, <2>2 DEF Holds, Inv, Types, TypeOK
    <2>4. QED
      BY <2>3 DEF Holds, Inv, Types
  <1>2. sent \in Nat /\ sent' \in Nat /\ sent <= sent'
    BY <1>1, RelayAssumption DEF Types, TypeOK, Holds
  <1>3. Held(c)' = t /\ \A d \in Channels : d # c => Held(d)' = Held(d)
    BY DEF Holds, Held
  <1>4. /\ \A i \in DOMAIN t : t[i].id \in Nat
        /\ \A d \in Channels : \A i \in DOMAIN Held(d) : Held(d)[i].id \in Nat
    <2>1. \A i \in DOMAIN t : t[i] \in Message
      BY DEF Holds
    <2>2. QED
      BY <1>1, <2>1, HeldTypes DEF Message
  <1>5. InOrder'
    <2>1. SUFFICES ASSUME NEW d \in Channels
                   PROVE  Ascending(Held(d))' /\ \A i \in DOMAIN Held(d)' : Held(d)'[i].id <= sent'
      BY DEF InOrder
    <2>2. CASE d = c
      BY <1>3, <2>2 DEF Holds, Ascending
    <2>3. CASE d # c
      BY <1>2, <1>3, <1>4, <2>3 DEF Inv, InOrder, Ascending
    <2>4. QED
      BY <2>2, <2>3
  <1>6. \A d \in Channels : \A id \in Ids(Held(d))' : id > sent \/ id \in Ids(Held(d))
    <2>1. \A id \in Ids(t) : id > sent \/ id \in Ids(Held(c))
      BY DEF Holds, Ids, Log!Content
    <2>2. QED
      BY <1>3, <2>1 DEF Ids, Log!Content
  <1>7. AttachedMissNothing'
    <2>1. SUFFICES ASSUME NEW w \in Waiters, waiter'[w].pc = "waiting",
                          NEW d, NEW k, d = waiter'[w].channel, k = waiter'[w].since,
                          NEW m \in Log!Content(Held(d)'), m.id > k
                   PROVE  FALSE
      BY DEF AttachedMissNothing, News, Log!Content
    <2>2. /\ waiter[w].pc = "waiting" /\ d = waiter[w].channel /\ k = waiter[w].since
          /\ sent' # sent => d # c
      BY <2>1 DEF Holds
    <2>3. d \in Channels /\ News(d, k) = {}
      BY <1>1, <2>2 DEF Inv, AttachedMissNothing, Types
    <2>4. CASE d = c
      <3>1. m \in Log!Content(t) /\ sent' = sent
        BY <1>3, <2>1, <2>2, <2>4
      <3>2. m.id <= sent /\ m.id \in Nat
        BY <1>4, <3>1 DEF Holds, Log!Content
      <3>3. m \in Log!Content(Held(c))
        BY <1>2, <3>1, <3>2 DEF Holds, Log!Content
      <3>4. QED
        BY <2>1, <2>3, <2>4, <3>3 DEF News
    <2>5. CASE d # c
      BY <1>3, <2>1, <2>3, <2>5 DEF News
    <2>6. QED
      BY <2>4, <2>5
  <1>8. PagersKeepTo'
    <2>1. \A p \in Pagers : \A id \in pager[p].shown : id \in Nat
      BY <1>1 DEF Types
    <2>2. pager' = pager
      BY DEF Holds
    <2>3. QED
      BY <1>2, <2>1, <2>2 DEF Inv, PagersKeepTo, Cursor, Ids, Log!Content
  <1>9. PagesLeaveNoGap'
    <2>1. SUFFICES ASSUME NEW p \in Pagers, NEW c1, c1 = pager[p].channel, c1 # None,
                          NEW id \in Ids(Held(c1))',
                          NEW a \in pager[p].shown, NEW b \in pager[p].shown, a < id, id < b
                   PROVE  id \in pager[p].shown
      BY DEF PagesLeaveNoGap, Holds
    <2>2. c1 \in Channels
      BY <1>1, <2>1 DEF Types
    <2>3. id \in Nat
      <3>1. CASE c1 = c
        BY <1>3, <1>4, <2>1, <3>1 DEF Ids, Log!Content
      <3>2. CASE c1 # c
        BY <1>3, <1>4, <2>1, <2>2, <3>2 DEF Ids, Log!Content
      <3>3. QED
        BY <3>1, <3>2
    <2>4. b \in Nat /\ b <= sent
      BY <1>1 DEF Types, Inv, PagersKeepTo
    <2>5. id \in Ids(Held(c1))
      BY <1>2, <1>6, <2>1, <2>2, <2>3, <2>4
    <2>6. QED
      BY <2>1, <2>5 DEF Inv, PagesLeaveNoGap
  <1>10. QED
    BY <1>1, <1>5, <1>7, <1>8, <1>9 DEF Inv

\* The messages a channel holds after a send.
LEMMA StoredAt ==
  ASSUME Inv, NEW c \in Channels, NEW m \in Message, m.id = sent + 1
  PROVE  /\ Stored(Held(c), m) \in Seq(Message)
         /\ Len(Stored(Held(c), m)) <= MaxPerChannel
         /\ Ascending(Stored(Held(c), m))
         /\ \A i \in DOMAIN Stored(Held(c), m) :
              LET x == Stored(Held(c), m)[i] IN
              x.id <= sent + 1 /\ (x.id > sent \/ x \in Log!Content(Held(c)))
  <1> DEFINE s == Held(c)
             a == Append(s, m)
             t == Stored(s, m)
  <1>1. /\ s \in Seq(Message) /\ Len(s) \in Nat /\ DOMAIN s = 1..Len(s) /\ Ascending(s)
        /\ sent \in Nat
        /\ \A i \in DOMAIN s : s[i].id \in Nat /\ s[i].id <= sent
    BY HeldTypes, RelayAssumption DEF Inv, InOrder, Types, TypeOK
  <1> HIDE DEF s
  <1>2. /\ a \in Seq(Message) /\ Len(a) = Len(s) + 1 /\ a[Len(s) + 1] = m
        /\ DOMAIN a = 1..(Len(s) + 1) /\ \A i \in DOMAIN s : a[i] = s[i]
    BY <1>1
  <1> HIDE DEF a
  <1>3. \A i \in DOMAIN a : i \in DOMAIN s \/ i = Len(s) + 1
    BY <1>1, <1>2
  <1>4. \A i \in DOMAIN a : /\ a[i].id <= sent + 1
                            /\ a[i].id > sent \/ a[i] \in Log!Content(s)
    <2>1. \A i \in DOMAIN s : a[i].id <= sent + 1 /\ a[i] \in Log!Content(s)
      BY <1>1, <1>2 DEF Log!Content
    <2>2. a[Len(s) + 1].id <= sent + 1 /\ a[Len(s) + 1].id > sent
      BY <1>1, <1>2
    <2>3. QED
      BY <1>3, <2>1, <2>2
  <1>5. Ascending(a)
    <2>1. SUFFICES ASSUME NEW i \in DOMAIN a, NEW j \in DOMAIN a, i < j
                   PROVE  a[i].id < a[j].id
      BY DEF Ascending
    <2>2. i \in DOMAIN s
      BY <1>1, <1>2, <2>1
    <2>3. CASE j \in DOMAIN s
      BY <1>1, <1>2, <2>1, <2>2, <2>3 DEF Ascending
    <2>4. CASE j = Len(s) + 1
      BY <1>1, <1>2, <2>2, <2>4
    <2>5. QED
      BY <1>3, <2>3, <2>4
  <1>6. /\ t \in Seq(Message) /\ Len(t) = IF Len(a) <= MaxPerChannel THEN Len(a) ELSE MaxPerChannel
        /\ Segment(t, a, Len(a) - Len(t))
    BY <1>2, NewestOf, RelayAssumption DEF Stored, a
  <1> HIDE DEF t
  <1>7. Ascending(t)
    BY <1>2, <1>5, <1>6, PartsAscend
  <1>8. \A i \in DOMAIN t : \E j \in DOMAIN a : t[i] = a[j]
    BY <1>6 DEF Segment
  <1>9. Len(t) <= MaxPerChannel
    BY <1>1, <1>2, <1>6, RelayAssumption
  <1>10. QED
    BY <1>4, <1>6, <1>7, <1>8, <1>9 DEF t, s

LEMMA SendInv ==
  ASSUME Inv, NEW c \in Channels, NEW s \in Senders, Send(c, s)
  PROVE  Inv'
  <1> DEFINE m == [id |-> sent + 1, sender |-> s]
             t == Stored(Held(c), m)
  <1>1. sent \in Nat /\ sent < MaxSends /\ sent' = sent + 1 /\ sent' \in sent..MaxSends
    BY RelayAssumption DEF Inv, Types, TypeOK, Send
  <1>2. m \in Message /\ m.id = sent + 1
    BY <1>1, RelayAssumption DEF Message
  <1>3. channel' = [channel EXCEPT ![c] = t] /\ pager' = pager /\ SetEvent(c, "woken")
    BY DEF Send
  <1> HIDE DEF m
  <1>4. /\ t \in Seq(Message) /\ Len(t) <= MaxPerChannel /\ Ascending(t)
        /\ \A i \in DOMAIN t : /\ t[i].id <= sent + 1
                               /\ t[i].id > sent \/ t[i] \in Log!Content(Held(c))
    BY <1>2, StoredAt
  <1> HIDE DEF t
  <1>5. /\ channel' \in [Channels -> Seq(Message) \cup {None}]
        /\ channel'[c] = t /\ t # None /\ \A d \in Channels : d # c => channel'[d] = channel[d]
    BY <1>3, <1>4, RelayAssumption DEF Inv, Types
  <1>6. IsFiniteSet(Log!Open') /\ Cardinality(Log!Open') <= MaxChannels
    <2>1. Log!Open' = Log!Open \cup {c}
      BY <1>5 DEF Log!Open
    <2>2. IsFiniteSet(Log!Open) /\ Cardinality(Log!Open) <= MaxChannels
      BY DEF Inv, Types, TypeOK
    <2>3. CASE c \in Log!Open
      <3>1. Log!Open' = Log!Open
        BY <2>1, <2>3
      <3>2. QED
        BY <2>2, <3>1
    <2>4. CASE c \notin Log!Open
      <3>1. Cardinality(Log!Open) < MaxChannels
        BY <2>4 DEF Send, MayOpen, Log!Open
      <3>2. IsFiniteSet(Log!Open') /\ Cardinality(Log!Open') = Cardinality(Log!Open) + 1
        BY <2>1, <2>2, <2>4, FS_AddElement
      <3>3. Cardinality(Log!Open) \in Nat
        BY <2>2, FS_CardinalityType
      <3>4. QED
        BY <3>1, <3>2, <3>3, RelayAssumption
    <2>5. QED
      BY <2>3, <2>4
  <1>7. /\ waiter' \in [Waiters -> [pc : {"idle", "waiting", "stranded", "woken"},
                                    channel : Channels \cup {None}, since : 0..MaxSends]]
        /\ \A w \in Waiters : /\ waiter'[w].channel = waiter[w].channel
                              /\ waiter'[w].pc # "idle" => waiter[w].pc # "idle"
                              /\ waiter'[w].pc = "waiting" =>
                                   waiter'[w] = waiter[w] /\ waiter[w].channel # c
    <2>1. \A w \in Waiters :
            waiter[w] \in [pc : {"idle", "waiting", "stranded", "woken"},
                           channel : Channels \cup {None}, since : 0..MaxSends]
      BY DEF Inv, Types, TypeOK
    <2>2. \A w \in Waiters :
            LET x == [waiter[w] EXCEPT !.pc = "woken"] IN
            /\ x \in [pc : {"idle", "waiting", "stranded", "woken"},
                      channel : Channels \cup {None}, since : 0..MaxSends]
            /\ x.pc = "woken" /\ x.channel = waiter[w].channel
      BY <2>1
    <2>3. QED
      BY <1>3, <2>1, <2>2 DEF SetEvent
  <1>8. \A w \in Waiters : waiter'[w].pc # "idle" => waiter'[w].channel \in Channels
    BY <1>7 DEF Inv, Types
  <1>9. Holds(c, t)
    BY <1>1, <1>3, <1>4, <1>5, <1>6, <1>7, <1>8 DEF Holds
  <1>10. QED
    BY <1>9, HoldsInv

\* Messages are removed.
LEMMA RemoveInv ==
  ASSUME Inv, NEW c \in Channels, NEW t \in Seq(Message) \cup {None},
         channel' = [channel EXCEPT ![c] = t], sent' = sent, pager' = pager,
         waiter' = waiter \/ SetEvent(c, "stranded"),
         t # None => /\ channel[c] # None /\ Len(t) <= MaxPerChannel /\ Ascending(t)
                     /\ \A i \in DOMAIN t : t[i] \in Log!Content(Held(c))
  PROVE  Inv'
  <1> DEFINE u == IF t = None THEN <<>> ELSE t
  <1>1. /\ None \notin Seq(Message) /\ sent \in Nat /\ sent' \in sent..MaxSends
        /\ \A d \in Channels : \A i \in DOMAIN Held(d) : Held(d)[i].id <= sent
    BY RelayAssumption DEF Inv, InOrder, Types, TypeOK
  <1>2. /\ channel' \in [Channels -> Seq(Message) \cup {None}]
        /\ channel'[c] = t /\ \A d \in Channels : d # c => channel'[d] = channel[d]
    BY DEF Inv, Types
  <1>3. /\ u \in Seq(Message) /\ Len(u) <= MaxPerChannel /\ Ascending(u)
        /\ \A i \in DOMAIN u : u[i] \in Log!Content(Held(c))
    <2>1. CASE t = None
      BY <2>1, RelayAssumption DEF Ascending
    <2>2. CASE t # None
      BY <2>2
    <2>3. QED
      BY <2>1, <2>2
  <1>4. u = IF channel'[c] = None THEN <<>> ELSE channel'[c]
    BY <1>2
  <1> HIDE DEF u
  <1>5. \A i \in DOMAIN u : u[i].id <= sent'
    BY <1>1, <1>3 DEF Log!Content
  <1>6. IsFiniteSet(Log!Open') /\ Cardinality(Log!Open') <= MaxChannels
    <2>1. Log!Open' \subseteq Log!Open
      BY <1>2 DEF Log!Open
    <2>2. /\ IsFiniteSet(Log!Open) /\ Cardinality(Log!Open) <= MaxChannels
      BY DEF Inv, Types, TypeOK
    <2>3. /\ IsFiniteSet(Log!Open') /\ Cardinality(Log!Open') <= Cardinality(Log!Open)
      BY <2>1, <2>2, FS_Subset
    <2>4. Cardinality(Log!Open) \in Nat /\ Cardinality(Log!Open') \in Nat
      BY <2>2, <2>3, FS_CardinalityType
    <2>5. QED
      BY <2>2, <2>3, <2>4, RelayAssumption
  <1>7. /\ waiter' \in [Waiters -> [pc : {"idle", "waiting", "stranded", "woken"},
                                    channel : Channels \cup {None}, since : 0..MaxSends]]
        /\ \A w \in Waiters : /\ waiter'[w].channel = waiter[w].channel
                              /\ waiter'[w].pc # "idle" => waiter[w].pc # "idle"
                              /\ waiter'[w].pc = "waiting" => waiter'[w] = waiter[w]
    <2>1. \A w \in Waiters :
            waiter[w] \in [pc : {"idle", "waiting", "stranded", "woken"},
                           channel : Channels \cup {None}, since : 0..MaxSends]
      BY DEF Inv, Types, TypeOK
    <2>2. \A w \in Waiters :
            LET x == [waiter[w] EXCEPT !.pc = "stranded"] IN
            /\ x \in [pc : {"idle", "waiting", "stranded", "woken"},
                      channel : Channels \cup {None}, since : 0..MaxSends]
            /\ x.pc = "stranded" /\ x.channel = waiter[w].channel
      BY <2>1
    <2>3. CASE waiter' = waiter
      BY <2>3 DEF Inv, Types, TypeOK
    <2>4. CASE SetEvent(c, "stranded")
      BY <2>1, <2>2, <2>4 DEF SetEvent
    <2>5. QED
      BY <2>3, <2>4
  <1>8. \A w \in Waiters : waiter'[w].pc # "idle" => waiter'[w].channel \in Channels
    BY <1>7 DEF Inv, Types
  <1>9. Holds(c, u)
    BY <1>1, <1>2, <1>3, <1>4, <1>5, <1>6, <1>7, <1>8 DEF Holds
  <1>10. QED
    BY <1>9, HoldsInv

LEMMA ClearInv ==
  ASSUME Inv, NEW c \in Channels, Clear(c) \/ DeleteChannel(c)
  PROVE  Inv'
  <1> DEFINE t == IF channel[c] = None \/ DeleteChannel(c) THEN None ELSE <<>>
  <1>1. channel' = [channel EXCEPT ![c] = t]
    BY DEF Clear, DeleteChannel
  <1>2. /\ sent' = sent /\ pager' = pager
        /\ waiter' = waiter \/ SetEvent(c, "stranded")
    BY DEF Clear, DeleteChannel
  <1>3. /\ t \in Seq(Message) \cup {None}
        /\ t # None => t = <<>> /\ channel[c] # None
    OBVIOUS
  <1> HIDE DEF t
  <1>4. t # None => /\ channel[c] # None /\ Len(t) <= MaxPerChannel /\ Ascending(t)
                    /\ \A i \in DOMAIN t : t[i] \in Log!Content(Held(c))
    BY <1>3, RelayAssumption DEF Ascending
  <1>5. QED
    BY <1>1, <1>2, <1>3, <1>4, RemoveInv

LEMMA DeleteMessageInv ==
  ASSUME Inv, NEW c \in Channels, NEW s \in Senders, NEW i \in 1..MaxPerChannel,
         DeleteMessage(c, s, i)
  PROVE  Inv'
  <1> DEFINE h == Held(c)
             t == Log!Without(h, i)
  <1>1. /\ h \in Seq(Message) /\ Len(h) <= MaxPerChannel /\ Len(h) \in Nat
        /\ DOMAIN h = 1..Len(h) /\ Ascending(h)
        /\ \A j \in DOMAIN h : h[j].id \in Nat
        /\ None \notin Seq(Message) /\ i \in DOMAIN h
    BY HeldTypes DEF Inv, InOrder, DeleteMessage
  <1>2. channel[c] # None /\ channel[c] = h
    BY <1>1 DEF Held
  <1>3. channel' = [channel EXCEPT ![c] = t] /\ sent' = sent /\ pager' = pager /\ waiter' = waiter
    BY <1>2 DEF DeleteMessage
  <1> HIDE DEF h
  <1>4. /\ t \in Seq(Message) /\ Len(t) = Len(h) - 1
        /\ \A j \in 1..(Len(h) - 1) : t[j] = h[IF j < i THEN j ELSE j + 1]
    BY <1>1, WithoutOne
  <1>5. DOMAIN t = 1..(Len(h) - 1)
    BY <1>4
  <1> HIDE DEF t
  <1>6. Ascending(t)
    <2>1. SUFFICES ASSUME NEW j \in DOMAIN t, NEW k \in DOMAIN t, j < k
                   PROVE  t[j].id < t[k].id
      BY DEF Ascending
    <2> DEFINE up(x) == IF x < i THEN x ELSE x + 1
    <2>2. up(j) \in DOMAIN h /\ up(k) \in DOMAIN h /\ up(j) < up(k)
      BY <1>1, <1>5, <2>1
    <2>3. t[j] = h[up(j)] /\ t[k] = h[up(k)]
      BY <1>4, <1>5
    <2> HIDE DEF up
    <2>4. QED
      BY <1>1, <2>2, <2>3 DEF Ascending
  <1>7. \A j \in DOMAIN t : t[j] \in Log!Content(h)
    <2>1. ASSUME NEW j \in DOMAIN t
          PROVE  (IF j < i THEN j ELSE j + 1) \in DOMAIN h
      BY <1>1, <1>5
    <2>2. QED
      BY <1>4, <1>5, <2>1 DEF Log!Content
  <1>8. Len(t) <= MaxPerChannel
    BY <1>1, <1>4, RelayAssumption
  <1>9. QED
    BY <1>2, <1>3, <1>4, <1>6, <1>7, <1>8, RemoveInv DEF h

-----------------------------------------------------------------------------
(* Long polls.                                                             *)

LEMMA WaiterInv ==
  ASSUME Inv, NEW w \in Waiters, NEW x,
         x \in [pc : {"idle", "waiting", "stranded", "woken"},
                channel : Channels \cup {None}, since : 0..MaxSends],
         waiter' = [waiter EXCEPT ![w] = x], UNCHANGED <<channel, sent, pager>>,
         x.pc # "idle" => x.channel \in Channels,
         x.pc = "waiting" => News(x.channel, x.since) = {}
  PROVE  Inv'
  <1>1. \A v \in Waiters : waiter'[v] = IF v = w THEN x ELSE waiter[v]
    BY DEF Inv, Types, TypeOK
  <1>2. Log!Open' = Log!Open
    BY DEF Log!Open
  <1>3. Types'
    BY <1>1, <1>2 DEF Inv, Types, TypeOK
  <1>4. \A c : Held(c)' = Held(c)
    BY DEF Held
  <1>5. InOrder' /\ PagersKeepTo' /\ PagesLeaveNoGap'
    <2>1. InOrder'
      BY <1>4 DEF Inv, InOrder, Ascending
    <2>2. PagersKeepTo'
      BY DEF Inv, PagersKeepTo, Ids, Log!Content, Cursor
    <2>3. PagesLeaveNoGap'
      BY DEF Inv, PagesLeaveNoGap, Ids, Log!Content, Held
    <2>4. QED
      BY <2>1, <2>2, <2>3
  <1>6. AttachedMissNothing'
    BY <1>1, <1>4 DEF Inv, AttachedMissNothing, News, Log!Content
  <1>7. QED
    BY <1>3, <1>5, <1>6 DEF Inv

LEMMA WaitInv ==
  ASSUME Inv,
         \/ \E w \in Waiters, c \in Channels, since \in 0..MaxSends : Wait(w, c, since)
         \/ \E w \in Waiters : Woken(w) \/ TimeOut(w)
  PROVE  Inv'
  <1>1. ASSUME NEW w \in Waiters, NEW c \in Channels, NEW since \in 0..MaxSends,
               Wait(w, c, since)
        PROVE  Inv'
    <2> DEFINE x == [pc |-> "waiting", channel |-> c, since |-> since]
    <2>1. /\ x \in [pc : {"idle", "waiting", "stranded", "woken"},
                    channel : Channels \cup {None}, since : 0..MaxSends]
          /\ x.channel = c /\ x.since = since /\ News(c, since) = {}
          /\ waiter' = [waiter EXCEPT ![w] = x] /\ UNCHANGED <<channel, sent, pager>>
      BY <1>1 DEF Wait
    <2> HIDE DEF x
    <2>2. QED
      BY <2>1, WaiterInv
  <1>2. ASSUME NEW w \in Waiters, Return(w)
        PROVE  Inv'
    <2>1. /\ NoWait \in [pc : {"idle", "waiting", "stranded", "woken"},
                         channel : Channels \cup {None}, since : 0..MaxSends]
          /\ NoWait.pc = "idle"
      BY RelayAssumption DEF NoWait
    <2>2. waiter' = [waiter EXCEPT ![w] = NoWait] /\ UNCHANGED <<channel, sent, pager>>
      BY <1>2 DEF Return
    <2>3. QED
      BY <2>1, <2>2, WaiterInv
  <1>3. QED
    BY <1>1, <1>2 DEF Woken, TimeOut

-----------------------------------------------------------------------------
(* Pages.                                                                  *)

\* A page goes on from what was shown, and leaves out no message on its way.
Continues(p, c, forward, page) ==
    /\ page \in Seq(Message) /\ Ascending(page)
    /\ Ids(page) \subseteq Ids(Held(c))
    /\ \A x \in pager[p].shown, y \in Ids(page) : IF forward THEN x < y ELSE y < x
    /\ \A id \in Ids(Held(c)), x, y \in pager[p].shown \cup Ids(page) :
         x < id /\ id < y => id \in pager[p].shown \cup Ids(page)

LEMMA ShowInv ==
  ASSUME Inv, NEW p \in Pagers, NEW c \in Channels, NEW forward \in BOOLEAN,
         NEW limit \in Limits \cup {0}, NEW page, Show(p, c, forward, limit, page),
         Continues(p, c, forward, page)
  PROVE  Inv'
  <1> DEFINE all == pager[p].shown \cup Ids(page)
             x == [channel |-> c, forward |-> forward, limit |-> limit,
                   page |-> page, shown |-> all]
  <1>1. /\ page \in Seq(Message) /\ Ascending(page) /\ Ids(page) \subseteq Ids(Held(c))
        /\ DOMAIN page = 1..Len(page) /\ Len(page) \in Nat
    BY DEF Continues
  <1>2. /\ pager[p].shown \in SUBSET (1..MaxSends)
        /\ Ids(Held(c)) \subseteq 1..MaxSends /\ sent \in Nat
        /\ \A id \in Ids(Held(c)) : id <= sent
        /\ \A id \in pager[p].shown : id <= sent
    <2>1. Ids(Held(c)) \subseteq 1..MaxSends
      BY HeldTypes DEF Ids, Log!Content, Inv
    <2>2. QED
      BY <2>1, RelayAssumption
      DEF Inv, Types, TypeOK, InOrder, PagersKeepTo, Ids, Log!Content
  <1>3. all \in SUBSET (1..MaxSends) /\ \A id \in all : id <= sent /\ id \in Nat
    BY <1>1, <1>2
  <1>4. /\ Ids(page) \subseteq all
        /\ \A id \in Ids(Held(c)), a, b \in all : a < id /\ id < b => id \in all
    BY DEF Continues
  <1>5. page # <<>> =>
          /\ page[1].id \in Ids(page) /\ page[Len(page)].id \in Ids(page)
          /\ \A id \in Ids(page) : page[1].id <= id /\ id <= page[Len(page)].id
    <2>1. SUFFICES ASSUME page # <<>>, NEW i \in DOMAIN page
                   PROVE  /\ 1 \in DOMAIN page /\ Len(page) \in DOMAIN page
                          /\ page[1].id <= page[i].id /\ page[i].id <= page[Len(page)].id
      BY DEF Ids, Log!Content
    <2>2. 1 \in DOMAIN page /\ Len(page) \in DOMAIN page
      BY <1>1, <2>1
    <2>3. \A j \in DOMAIN page : page[j].id \in Nat
      <3>1. \A j \in DOMAIN page : page[j] \in Message
        BY <1>1
      <3>2. QED
        BY <3>1 DEF Message
    <2>4. 1 < i \/ 1 = i
      BY <1>1, <2>1
    <2>5. i < Len(page) \/ i = Len(page)
      BY <1>1, <2>1
    <2>6. QED
      BY <1>1, <2>1, <2>2, <2>3, <2>4, <2>5 DEF Ascending
  <1>6. page # <<>> => \A id \in all : IF forward THEN id <= page[Len(page)].id
                                       ELSE page[1].id <= id
    <2>1. SUFFICES ASSUME page # <<>>, NEW id \in all
                   PROVE  IF forward THEN id <= page[Len(page)].id ELSE page[1].id <= id
      OBVIOUS
    <2>2. id \in Nat /\ page[1].id \in Nat /\ page[Len(page)].id \in Nat
      BY <1>3, <1>4, <1>5, <2>1
    <2>3. QED
      BY <1>5, <2>1, <2>2 DEF Continues
  <1> HIDE DEF all
  <1>7. /\ x \in [channel : Channels \cup {None}, forward : BOOLEAN, limit : Limits \cup {0},
                  page : Seq(Message), shown : SUBSET (1..MaxSends)]
        /\ x.channel = c /\ x.forward = forward /\ x.limit = limit /\ x.page = page
        /\ x.shown = all
    BY <1>1, <1>3
  <1>8. pager' = [pager EXCEPT ![p] = x] /\ UNCHANGED <<channel, sent, waiter>>
    BY DEF Show, all
  <1> HIDE DEF x
  <1>9. \A q \in Pagers : pager'[q] = IF q = p THEN x ELSE pager[q]
    BY <1>8 DEF Inv, Types
  <1>10. /\ Log!Open' = Log!Open /\ c # None
         /\ \A d : Held(d)' = Held(d)
    BY <1>8, RelayAssumption DEF Log!Open, Held
  <1>11. Types'
    BY <1>7, <1>8, <1>9, <1>10 DEF Inv, Types, TypeOK
  <1>12. InOrder' /\ AttachedMissNothing'
    BY <1>8, <1>10 DEF Inv, InOrder, Ascending, AttachedMissNothing, News, Log!Content
  <1>13. PagersKeepTo'
    <2>1. SUFFICES ASSUME NEW q \in Pagers, NEW r, r = pager'[q]
                   PROVE  /\ \A id \in r.shown : id <= sent
                          /\ r.channel = None => r.shown = {}
                          /\ Ids(r.page) \subseteq r.shown
                          /\ r.page # <<>> =>
                               \A id \in r.shown : IF r.forward THEN id <= r.page[Len(r.page)].id
                                                   ELSE r.page[1].id <= id
      <3>1. sent' = sent
        BY <1>8
      <3>2. QED
        BY <2>1, <3>1 DEF PagersKeepTo, Cursor, Ids, Log!Content
    <2>2. CASE q = p
      BY <1>3, <1>4, <1>6, <1>7, <1>9, <1>10, <2>1, <2>2
    <2>3. CASE q # p
      BY <1>9, <2>1, <2>3 DEF Inv, PagersKeepTo, Cursor
    <2>4. QED
      BY <2>2, <2>3
  <1>14. PagesLeaveNoGap'
    <2>1. SUFFICES ASSUME NEW q \in Pagers, NEW r, r = pager'[q], r.channel # None,
                          NEW id \in Ids(Held(r.channel)), NEW a \in r.shown, NEW b \in r.shown,
                          a < id, id < b
                   PROVE  id \in r.shown
      BY <1>10 DEF PagesLeaveNoGap, Ids, Log!Content
    <2>2. CASE q = p
      BY <1>4, <1>7, <1>9, <2>1, <2>2
    <2>3. CASE q # p
      BY <1>9, <2>1, <2>3 DEF Inv, PagesLeaveNoGap
    <2>4. QED
      BY <2>2, <2>3
  <1>15. QED
    BY <1>11, <1>12, <1>13, <1>14 DEF Inv

LEMMA After ==
  ASSUME NEW S, NEW s \in Seq(S), NEW i \in 1..Len(s)
  PROVE  /\ SubSeq(s, i + 1, Len(s)) \in Seq(S)
         /\ Len(SubSeq(s, i + 1, Len(s))) = Len(s) - i
         /\ \A j \in 1..(Len(s) - i) : SubSeq(s, i + 1, Len(s))[j] = s[i + j]
  OBVIOUS

LEMMA Places ==
  ASSUME NEW s \in Seq(Message), Ascending(s), NEW i \in DOMAIN s, NEW j \in DOMAIN s,
         s[i].id < s[j].id
  PROVE  i < j
  <1>1. /\ i \in Nat /\ j \in Nat /\ s[i].id \in Nat /\ s[j].id \in Nat
    <2>1. s[i] \in Message /\ s[j] \in Message /\ i \in Nat /\ j \in Nat
      OBVIOUS
    <2>2. QED
      BY <2>1 DEF Message
  <1>2. CASE i = j
    BY <1>1, <1>2
  <1>3. CASE j < i
    BY <1>1, <1>3 DEF Ascending
  <1>4. QED
    BY <1>1, <1>2, <1>3

\* A part leaves out nothing between two of its messages.
LEMMA PartHasAll ==
  ASSUME NEW s \in Seq(Message), Ascending(s), NEW t \in Seq(Message), NEW k, Segment(t, s, k)
  PROVE  /\ Ids(t) \subseteq Ids(s)
         /\ \A id \in Ids(s), x, y \in Ids(t) : x < id /\ id < y => id \in Ids(t)
  <1>1. Ids(t) \subseteq Ids(s)
    BY DEF Segment, Ids, Log!Content
  <1>2. ASSUME NEW m \in DOMAIN s, NEW i \in DOMAIN t, NEW j \in DOMAIN t,
               t[i].id < s[m].id, s[m].id < t[j].id
        PROVE  s[m].id \in Ids(t)
    <2>1. k + i < m /\ m < k + j
      BY <1>2, Places DEF Segment
    <2>2. DOMAIN t = 1..Len(t) /\ Len(t) \in Nat /\ m \in Nat /\ k \in Nat
      BY DEF Segment
    <2>3. m - k \in DOMAIN t /\ k + (m - k) = m
      BY <2>1, <2>2
    <2>4. QED
      BY <2>3 DEF Segment, Ids, Log!Content
  <1>3. ASSUME NEW id \in Ids(s), NEW x \in Ids(t), NEW y \in Ids(t), x < id, id < y
        PROVE  id \in Ids(t)
    <2>1. PICK m \in DOMAIN s : id = s[m].id
      BY DEF Ids, Log!Content
    <2>2. PICK i \in DOMAIN t : x = t[i].id
      BY DEF Ids, Log!Content
    <2>3. PICK j \in DOMAIN t : y = t[j].id
      BY DEF Ids, Log!Content
    <2>4. QED
      BY <1>2, <1>3, <2>1, <2>2, <2>3
  <1>4. QED
    BY <1>1, <1>3

LEMMA StartPagingInv ==
  ASSUME Inv, NEW p \in Pagers, NEW c \in Channels, NEW forward \in BOOLEAN,
         NEW limit \in Limits, StartPaging(p, c, forward, limit)
  PROVE  Inv'
  <1> DEFINE page == Page(forward, limit, Held(c))
  <1>1. Held(c) \in Seq(Message) /\ Ascending(Held(c)) /\ channel[c] = Held(c)
    BY HeldTypes DEF Inv, InOrder, StartPaging
  <1>2. Show(p, c, forward, limit, page) /\ pager[p].channel = None
    BY <1>1 DEF StartPaging
  <1>3. page \in Seq(Message) /\ \E k : Segment(page, Held(c), k)
    <2>1. CASE forward
      <3>1. forward = TRUE
        BY <2>1
      <3>2. QED
        BY <1>1, <3>1, PageOf
    <2>2. CASE ~forward
      <3>1. forward = FALSE
        BY <2>2
      <3>2. QED
        BY <1>1, <3>1, PageOf
    <2>3. QED
      BY <2>1, <2>2
  <1> HIDE DEF page
  <1>4. pager[p].shown = {}
    BY <1>2 DEF Inv, PagersKeepTo
  <1>5. Continues(p, c, forward, page)
    BY <1>1, <1>3, <1>4, PartsAscend, PartHasAll DEF Continues
  <1>6. QED
    BY <1>2, <1>5, ShowInv

\* The page that begins after place at, or ends before it.
LEMMA NextPageAt ==
  ASSUME NEW s \in Seq(Message), NEW forward \in BOOLEAN, NEW limit \in Limits \cup {0},
         NEW cursor \in Ids(s), NEW page, page = Page(forward, limit, Beyond(forward, cursor, s))
  PROVE  \E at \in DOMAIN s : \E k :
           /\ s[at].id = cursor /\ page \in Seq(Message) /\ Segment(page, s, k)
           /\ IF forward THEN k = at ELSE k + Len(page) = at - 1
  <1> DEFINE at == CHOOSE i \in DOMAIN s : s[i].id = cursor
             b == Beyond(forward, cursor, s)
  <1>1. at \in DOMAIN s /\ s[at].id = cursor
    BY DEF Ids, Log!Content
  <1>2. b = IF forward THEN SubSeq(s, at + 1, Len(s)) ELSE SubSeq(s, 1, at - 1)
    BY DEF Beyond
  <1> HIDE DEF at, b
  <1>3. DOMAIN s = 1..Len(s) /\ Len(s) \in Nat /\ at \in 1..Len(s)
    BY <1>1
  <1>4. CASE forward
    <2>1. b = SubSeq(s, at + 1, Len(s)) /\ forward = TRUE
      BY <1>2, <1>4
    <2>2. b \in Seq(Message) /\ Len(b) = Len(s) - at /\ \A j \in 1..(Len(s) - at) : b[j] = s[at + j]
      BY <1>3, <2>1, After
    <2>3. Segment(page, b, 0) /\ page \in Seq(Message)
      BY <2>1, <2>2, PageOf DEF b
    <2>4. DOMAIN b = 1..(Len(s) - at)
      BY <2>2
    <2>5. DOMAIN page \subseteq Nat
      BY <2>3
    <2>6. ASSUME NEW j \in DOMAIN page
          PROVE  at + j \in DOMAIN s /\ page[j] = s[at + j]
      <3>1. j \in DOMAIN b /\ page[j] = b[j]
        BY <2>3, <2>5 DEF Segment
      <3>2. QED
        BY <1>3, <2>2, <2>4, <3>1
    <2>7. Segment(page, s, at)
      BY <1>3, <2>6 DEF Segment
    <2>8. QED
      BY <1>1, <1>4, <2>3, <2>7
  <1>5. CASE ~forward
    <2>1. b = SubSeq(s, 1, at - 1) /\ forward = FALSE
      BY <1>2, <1>5
    <2>2. b \in Seq(Message) /\ Len(b) = at - 1 /\ \A j \in 1..(at - 1) : b[j] = s[j]
      BY <1>3, <2>1
    <2> DEFINE k == at - 1 - Len(page)
    <2>3. Segment(page, b, Len(b) - Len(page)) /\ page \in Seq(Message)
      BY <2>1, <2>2, PageOf DEF b
    <2>4. DOMAIN b = 1..(at - 1)
      BY <2>2
    <2>5. Segment(page, b, k)
      BY <2>2, <2>3
    <2>6. k \in Nat /\ k + Len(page) = at - 1
      BY <1>3, <2>3, <2>5 DEF Segment
    <2> HIDE DEF k
    <2>7. ASSUME NEW j \in DOMAIN page
          PROVE  k + j \in DOMAIN s /\ page[j] = s[k + j]
      <3>1. k + j \in DOMAIN b /\ page[j] = b[k + j]
        BY <2>5 DEF Segment
      <3>2. QED
        BY <1>3, <2>2, <2>4, <3>1
    <2>8. Segment(page, s, k)
      BY <2>6, <2>7 DEF Segment
    <2>9. QED
      BY <1>1, <1>5, <2>3, <2>6, <2>8
  <1>6. QED
    BY <1>4, <1>5

LEMMA NextPageInv ==
  ASSUME Inv, NEW p \in Pagers, NextPage(p)
  PROVE  Inv'
  <1> DEFINE r == pager[p]
             c == r.channel
             s == Held(c)
             cursor == Cursor(p)
             page == Page(r.forward, r.limit, Beyond(r.forward, cursor, s))
  <1>1. /\ r.channel \in Channels \cup {None} /\ r.forward \in BOOLEAN
        /\ r.limit \in Limits \cup {0} /\ r.page \in Seq(Message)
        /\ r.shown \in SUBSET (1..MaxSends)
    BY DEF Inv, Types
  <1>2. /\ r.page # <<>> /\ cursor \in Ids(s)
        /\ Show(p, c, r.forward, r.limit, page)
    BY DEF NextPage
  <1>3. cursor \in r.shown
    <2>1. 1 \in DOMAIN r.page /\ Len(r.page) \in DOMAIN r.page
      BY <1>1, <1>2
    <2>2. cursor \in Ids(r.page)
      BY <2>1 DEF Cursor, Ids, Log!Content
    <2>3. QED
      BY <2>2 DEF Inv, PagersKeepTo
  <1>4. \A x \in r.shown : IF r.forward THEN x <= cursor ELSE cursor <= x
    BY <1>2 DEF Inv, PagersKeepTo
  <1>5. c \in Channels
    BY <1>1, <1>3 DEF Inv, PagersKeepTo
  <1>6. \A id \in Ids(s), x, y \in r.shown : x < id /\ id < y => id \in r.shown
    BY <1>5, RelayAssumption DEF Inv, PagesLeaveNoGap
  <1>7. /\ s \in Seq(Message) /\ Ascending(s)
        /\ \A i \in DOMAIN s : s[i].id \in Nat /\ i \in Nat
    BY <1>5, HeldTypes DEF Inv, InOrder
  <1> HIDE DEF s, cursor
  <1>8. PICK at \in DOMAIN s : \E k :
           /\ s[at].id = cursor /\ page \in Seq(Message) /\ Segment(page, s, k)
           /\ IF r.forward THEN k = at ELSE k + Len(page) = at - 1
    <2>1. page = Page(r.forward, r.limit, Beyond(r.forward, cursor, s))
      OBVIOUS
    <2> HIDE DEF page, r
    <2>2. cursor \in Ids(s)
      BY <1>2
    <2>3. s \in Seq(Message)
      BY <1>7
    <2>4. ASSUME NEW f \in BOOLEAN, NEW l \in Limits \cup {0}, NEW g, g = Page(f, l, Beyond(f, cursor, s))
          PROVE  \E at \in DOMAIN s : \E k :
                   /\ s[at].id = cursor /\ g \in Seq(Message) /\ Segment(g, s, k)
                   /\ IF f THEN k = at ELSE k + Len(g) = at - 1
      BY <2>2, <2>3, <2>4, NextPageAt
    <2>5. QED
      BY <1>1, <2>1, <2>4
  <1>9. PICK k :
           /\ s[at].id = cursor /\ page \in Seq(Message) /\ Segment(page, s, k)
           /\ IF r.forward THEN k = at ELSE k + Len(page) = at - 1
    BY <1>8
  <1> HIDE DEF page
  <1>10. /\ Ascending(page) /\ Ids(page) \subseteq Ids(s)
         /\ \A id \in Ids(s), x, y \in Ids(page) : x < id /\ id < y => id \in Ids(page)
    BY <1>7, <1>9, PartsAscend, PartHasAll
  <1>11. /\ DOMAIN page = 1..Len(page) /\ Len(page) \in Nat /\ at \in Nat /\ k \in Nat
         /\ cursor \in Nat
    BY <1>7, <1>9 DEF Segment
  \* In places: the page is on the other side of the cursor than what was shown.
  <1>12. ASSUME NEW j \in DOMAIN page
         PROVE  /\ k + j \in DOMAIN s /\ page[j] = s[k + j] /\ page[j].id \in Nat
                /\ IF r.forward THEN cursor < page[j].id ELSE page[j].id < cursor
    <2>1. k + j \in DOMAIN s /\ page[j] = s[k + j]
      BY <1>9 DEF Segment
    <2>2. IF r.forward THEN at < k + j ELSE k + j < at
      BY <1>9, <1>11
    <2>3. QED
      BY <1>7, <1>9, <2>1, <2>2 DEF Ascending
  <1>13. \A x \in r.shown, y \in Ids(page) : IF r.forward THEN x < y ELSE y < x
    <2>1. SUFFICES ASSUME NEW x \in r.shown, NEW j \in DOMAIN page
                   PROVE  IF r.forward THEN x < page[j].id ELSE page[j].id < x
      BY DEF Ids, Log!Content
    <2>2. x \in Nat
      BY <1>1
    <2>3. QED
      BY <1>4, <1>11, <1>12, <2>2
  \* Nothing is between the cursor and the page.
  <1>14. ASSUME NEW id \in Ids(s), NEW y \in Ids(page),
                IF r.forward THEN cursor < id /\ id < y ELSE y < id /\ id < cursor
         PROVE  id \in Ids(page)
    <2>1. PICK m \in DOMAIN s : id = s[m].id
      BY DEF Ids, Log!Content
    <2>2. PICK j \in DOMAIN page : y = page[j].id
      BY DEF Ids, Log!Content
    <2>3. k + j \in DOMAIN s /\ y = s[k + j].id
      BY <1>12, <2>2
    <2>4. IF r.forward THEN at < m /\ m < k + j ELSE k + j < m /\ m < at
      BY <1>7, <1>9, <1>14, <2>1, <2>3, Places
    <2>5. m - k \in DOMAIN page /\ k + (m - k) = m
      BY <1>7, <1>9, <1>11, <2>4
    <2>6. page[m - k] = s[m]
      BY <1>12, <2>5
    <2>7. QED
      BY <2>1, <2>5, <2>6 DEF Ids, Log!Content
  <1>15. ASSUME NEW id \in Ids(s), NEW x \in r.shown \cup Ids(page),
                NEW y \in r.shown \cup Ids(page), x < id, id < y
         PROVE  id \in r.shown \cup Ids(page)
    <2>1. /\ id \in Nat /\ x \in Nat /\ y \in Nat
      <3>1. Ids(s) \subseteq Nat
        BY <1>7 DEF Ids, Log!Content
      <3>2. QED
        BY <1>1, <1>10, <1>15, <3>1
    <2>2. CASE x \in r.shown /\ y \in r.shown
      BY <1>6, <1>15, <2>2 
    <2>3. CASE x \in Ids(page) /\ y \in Ids(page)
      BY <1>10, <1>15, <2>3
    <2>4. CASE x \in r.shown /\ y \in Ids(page)
      <3>1. r.forward
        BY <1>13, <1>15, <2>1, <2>4
      <3>2. CASE cursor < id
        BY <1>14, <1>15, <2>4, <3>1, <3>2
      <3>3. CASE id <= cursor
        BY <1>3, <1>6, <1>11, <1>15, <2>1, <2>4, <3>3
      <3>4. QED
        BY <1>11, <2>1, <3>2, <3>3
    <2>5. CASE x \in Ids(page) /\ y \in r.shown
      <3>1. ~r.forward
        BY <1>13, <1>15, <2>1, <2>5
      <3>2. CASE id < cursor
        BY <1>14, <1>15, <2>5, <3>1, <3>2
      <3>3. CASE cursor <= id
        BY <1>3, <1>6, <1>11, <1>15, <2>1, <2>5, <3>3
      <3>4. QED
        BY <1>11, <2>1, <3>2, <3>3
    <2>6. QED
      BY <2>2, <2>3, <2>4, <2>5
  <1>16. Continues(p, c, r.forward, page)
    BY <1>9, <1>10, <1>13, <1>15 DEF Continues, s
  <1>17. QED
    BY <1>1, <1>2, <1>5, <1>16, ShowInv

LEMMA StopPagingInv ==
  ASSUME Inv, NEW p \in Pagers, StopPaging(p)
  PROVE  Inv'
  <1>1. /\ NoPage.channel = None /\ NoPage.limit = 0 /\ NoPage.page = <<>> /\ NoPage.shown = {}
        /\ NoPage \in [channel : Channels \cup {None}, forward : BOOLEAN,
                       limit : Limits \cup {0}, page : Seq(Message),
                       shown : SUBSET (1..MaxSends)]
    <2>1. <<>> \in Seq(Message)
      OBVIOUS
    <2>2. QED
      BY <2>1 DEF NoPage
  <1>2. /\ UNCHANGED <<channel, sent, waiter>>
        /\ \A q \in Pagers : pager'[q] = IF q = p THEN NoPage ELSE pager[q]
        /\ pager' = [pager EXCEPT ![p] = NoPage]
    BY DEF StopPaging, Inv, Types
  <1>3. Log!Open' = Log!Open /\ \A c : Held(c)' = Held(c)
    BY <1>2 DEF Log!Open, Held
  <1>4. Types'
    BY <1>1, <1>2, <1>3 DEF Inv, Types, TypeOK
  <1>5. InOrder' /\ AttachedMissNothing'
    BY <1>2 DEF Inv, InOrder, Ascending, AttachedMissNothing, News, Log!Content, Held
  <1>6. Ids(<<>>) = {}
    BY DEF Ids, Log!Content
  <1>7. PagersKeepTo'
    BY <1>1, <1>2, <1>6 DEF Inv, PagersKeepTo, Cursor, Ids, Log!Content
  <1>8. PagesLeaveNoGap'
    <2>1. SUFFICES ASSUME NEW q \in Pagers, NEW r, r = pager'[q], r.channel # None,
                          NEW id \in Ids(Held(r.channel)), NEW a \in r.shown, NEW b \in r.shown,
                          a < id, id < b
                   PROVE  id \in r.shown
      BY <1>3 DEF PagesLeaveNoGap, Ids, Log!Content
    <2>2. CASE q = p
      BY <1>1, <1>2, <2>1, <2>2
    <2>3. CASE q # p
      BY <1>2, <2>1, <2>3 DEF Inv, PagesLeaveNoGap
    <2>4. QED
      BY <2>2, <2>3
  <1>9. QED
    BY <1>4, <1>5, <1>7, <1>8 DEF Inv

LEMMA NextInv == Inv /\ [Next]_vars => Inv'
  <1> SUFFICES ASSUME Inv, [Next]_vars PROVE Inv'
    OBVIOUS
  <1>1. CASE UNCHANGED vars
    <2>1. UNCHANGED <<channel, sent, waiter, pager>>
      BY <1>1 DEF vars
    <2>2. QED
      BY <2>1 DEF Inv, Types, TypeOK, Log!Open, InOrder, Ascending, AttachedMissNothing, News,
                  Log!Content, Held, PagersKeepTo, PagesLeaveNoGap, Cursor, Ids
  <1>2. QED
    BY <1>1, SendInv, DeleteMessageInv, ClearInv, WaitInv, StartPagingInv, NextPageInv,
       StopPagingInv
    DEF Next

\* The strengthening holds initially and every step keeps it.
THEOREM RelayInv == Spec => []Inv
  <1>1. QED
    BY InitInv, NextInv, PTL DEF Spec

-----------------------------------------------------------------------------
(* What the run checks, for every value of the constants.                  *)

\* Channels, long polls and pagers have their types, and the two maxima hold.
THEOREM RelayTypes == Spec => []TypeOK
  <1>1. Inv => TypeOK
    BY DEF Inv, Types
  <1>2. QED
    BY <1>1, RelayInv, PTL

\* However sends, deletions and time-outs interleave with the calls of wait_for_new, a
\* long poll that waits on its channel's Event has nothing to return.
THEOREM WaitersMissNothing == Spec => []AttachedMissNothing
  <1>1. Inv => AttachedMissNothing
    BY DEF Inv
  <1>2. QED
    BY <1>1, RelayInv, PTL

\* Pages in either direction, of any limits, leave out no message between two that were
\* shown and that is still there, whatever is sent and removed between the pages.
THEOREM PagesHaveNoGap == Spec => []PagesLeaveNoGap
  <1>1. Inv => PagesLeaveNoGap
    BY DEF Inv
  <1>2. QED
    BY <1>1, RelayInv, PTL

-----------------------------------------------------------------------------
(* The store implements the log: every step is one of the log's, or none.  *)

LEMMA SendStep ==
  ASSUME Inv, NEW c \in Channels, NEW s \in Senders, Send(c, s)
  PROVE  Log!Send(c)
  <1> DEFINE m == [id |-> sent + 1, sender |-> s]
             t == Stored(Held(c), m)
  <1>1. sent \in Nat /\ sent < MaxSends
    BY RelayAssumption DEF Inv, Types, TypeOK, Send
  <1>2. m \in Message /\ m.id = sent + 1
    BY <1>1, RelayAssumption DEF Message
  <1>3. channel' = [channel EXCEPT ![c] = t]
    BY DEF Send
  <1>4. channel[c] = None => Cardinality(Log!Open) < MaxChannels
    BY DEF Send, MayOpen
  <1> HIDE DEF m
  <1>5. CASE channel[c] = None
    <2>1. Append(Held(c), m) = <<m>>
      BY <1>5 DEF Held
    <2>2. t = <<m>>
      BY <2>1, RelayAssumption DEF Stored, Log!Newest
    <2>3. Log!Create(c, <<m>>)
      BY <1>3, <1>4, <1>5, <2>2 DEF Log!Create, Log!Open, Log!Cardinality, Cardinality
    <2>4. QED
      BY <1>2, <2>3 DEF Log!Send
  <1>6. CASE channel[c] # None
    <2>1. channel[c] = Held(c) /\ c \in Log!Open
      BY <1>6 DEF Held, Log!Open
    <2>2. m \notin Log!Content(channel[c])
      <3>1. \A i \in DOMAIN Held(c) : Held(c)[i].id <= sent /\ Held(c)[i].id \in Nat
        BY HeldTypes DEF Inv, InOrder
      <3>2. QED
        BY <1>1, <1>2, <2>1, <3>1 DEF Log!Content
    <2>3. Log!Post(c, m)
      BY <1>3, <2>1, <2>2 DEF Log!Post, Stored
    <2>4. QED
      BY <1>2, <2>3 DEF Log!Send
  <1>7. QED
    BY <1>5, <1>6

LEMMA LogStep == Inv /\ [Next]_vars => [Log!Next]_channel
  <1> SUFFICES ASSUME Inv, [Next]_vars PROVE [Log!Next]_channel
    OBVIOUS
  <1>1. ASSUME NEW c \in Channels, NEW s \in Senders, Send(c, s)
        PROVE  Log!Next
    BY <1>1, SendStep DEF Log!Next
  <1>2. ASSUME NEW c \in Channels, NEW s \in Senders, NEW i \in 1..MaxPerChannel,
               DeleteMessage(c, s, i)
        PROVE  Log!Next
    <2>1. channel[c] # None /\ i \in DOMAIN channel[c]
      BY <1>2 DEF DeleteMessage, Held
    <2>2. Log!Remove(c)
      BY <1>2, <2>1 DEF DeleteMessage, Log!Remove, Log!Open
    <2>3. QED
      BY <2>2 DEF Log!Next
  <1>3. ASSUME NEW c \in Channels, Clear(c)
        PROVE  [Log!Next]_channel
    <2>1. CASE channel[c] = None
      <3>1. channel' = channel
        BY <1>3, <2>1 DEF Clear, Inv, Types
      <3>2. QED
        BY <3>1
    <2>2. CASE channel[c] # None
      <3>1. Log!Clear(c)
        BY <1>3, <2>2 DEF Clear, Log!Clear, Log!Open
      <3>2. QED
        BY <3>1 DEF Log!Next
    <2>3. QED
      BY <2>1, <2>2
  <1>4. ASSUME NEW c \in Channels, DeleteChannel(c)
        PROVE  Log!Next
    BY <1>4 DEF DeleteChannel, Log!Delete, Log!Open, Log!Next
  <1>5. ASSUME \/ \E c \in Channels :
                    \/ \E w \in Waiters, since \in 0..MaxSends : Wait(w, c, since)
                    \/ \E p \in Pagers, forward \in BOOLEAN, limit \in Limits :
                         StartPaging(p, c, forward, limit)
               \/ \E w \in Waiters : Woken(w) \/ TimeOut(w)
               \/ \E p \in Pagers : NextPage(p) \/ StopPaging(p)
        PROVE  channel' = channel
    BY <1>5 DEF Wait, StartPaging, Show, Woken, TimeOut, Return, NextPage, StopPaging
  <1>6. CASE UNCHANGED vars
    BY <1>6 DEF vars
  <1>7. QED
    BY <1>1, <1>2, <1>3, <1>4, <1>5, <1>6 DEF Next

\* The store in memory implements the log of ChannelLog: sends append, the oldest beyond
\* the maximum are forgotten, nothing else disappears but what a client asks to remove.
THEOREM RelayImplementsLog == Spec => ImplementsLog
  <1>1. Init => Log!Init
    BY DEF Init, Log!Init
  <1>2. QED
    BY <1>1, LogStep, RelayInv, PTL DEF Spec, ImplementsLog, Log!Spec
=============================================================================
