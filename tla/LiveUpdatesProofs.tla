------------------------- MODULE LiveUpdatesProofs -------------------------
(***************************************************************************)
(* Theorems about LiveUpdates for any tabs, tables and authors, any queue  *)
(* and any number of changes, lost connections, lost streams and failed    *)
(* loads: a change of another that a tab does not show is on its way to    *)
(* it, or was lost in one of the ways that missed records.                 *)
(***************************************************************************)
EXTENDS LiveUpdates, TLAPS

\* A load in flight: what the server has read, or nothing yet.
Load == (SUBSET Change) \cup {Asked}

Types ==
    /\ made \in 0..Changes
    /\ pending \subseteq Change /\ db \subseteq Change
    /\ reply \subseteq {c \in Change : c.tab \in Tabs}
    /\ bus \in {"listening", "lost"}
    /\ wire \in Seq(Change)
    /\ faults \in [outages : 0..Outages, drops : 0..Drops, failures : 0..Failures]
    /\ stream \in [Tabs -> {"connecting", "open"}]
    /\ again \in [Tabs -> BOOLEAN]
    /\ queue \in [Tabs -> Seq(Change \cup {Sentinel})]
    /\ timer \in [Tabs -> SUBSET Tables]
    /\ loads \in [Tabs -> [Tables -> Seq(Load)]]
    /\ store \in [Tabs -> SUBSET Change]
    /\ blind \in [Tabs -> BOOLEAN]
    /\ missed \in [Tabs -> SUBSET Change]

\* A change is new when it is made, and committed once.
MadeOnce == /\ \A c \in pending \cup db : c.id <= made
            /\ pending \cap db = {}

\* What is on its way was committed, to a bus that listens; a stream that is not
\* open has no queue.
Queues == /\ bus = "lost" => wire = <<>>
          /\ \A t \in Tabs : /\ Len(queue[t]) <= Capacity
                             /\ stream[t] = "connecting" => queue[t] = <<>>

Basics == Types /\ MadeOnce /\ Queues

-----------------------------------------------------------------------------
\* While the bus hears nothing a tab that would hear it is to open its stream anew, and
\* only a page that never had a stream is not to reload when it opens one.
Told ==
    \A t \in Tabs :
      /\ stream[t] = "connecting" => again[t] \/ blind[t]
      /\ bus = "lost" => \/ blind[t]
                         \/ stream[t] = "connecting"
                         \/ Sentinel \in Elements(queue[t])

\* A change that others made is shown, on its way or missed.
Shown(t, c) == c \in store[t] \/ Coming(t, c) \/ c \in missed[t]

Settled == \A t \in Tabs : \A c \in db : c.tab # t => Shown(t, c)

Inv == Basics /\ Told /\ Settled

-----------------------------------------------------------------------------
(* The sequences.                                                          *)

LEMMA Appended ==
  ASSUME NEW S, NEW s \in Seq(S), NEW e \in S
  PROVE  /\ Append(s, e) \in Seq(S) /\ Append(s, e) # <<>>
         /\ Len(Append(s, e)) = Len(s) + 1
         /\ Append(s, e)[Len(Append(s, e))] = e
         /\ \A i \in DOMAIN s : Append(s, e)[i] = s[i]
         /\ DOMAIN Append(s, e) = DOMAIN s \cup {Len(s) + 1}
         /\ Elements(Append(s, e)) = Elements(s) \cup {e}
  <1>1. /\ Append(s, e) \in Seq(S) /\ Len(Append(s, e)) = Len(s) + 1 /\ Len(s) \in Nat
        /\ DOMAIN s = 1..Len(s) /\ DOMAIN Append(s, e) = 1..(Len(s) + 1)
        /\ \A i \in DOMAIN s : Append(s, e)[i] = s[i]
        /\ Append(s, e)[Len(s) + 1] = e
    OBVIOUS
  <1>2. DOMAIN Append(s, e) = DOMAIN s \cup {Len(s) + 1}
    BY <1>1
  <1>3. Elements(Append(s, e)) = Elements(s) \cup {e}
    BY <1>1, <1>2 DEF Elements
  <1>4. QED
    BY <1>1, <1>2, <1>3

LEMMA HeadAndTail ==
  ASSUME NEW S, NEW s \in Seq(S), s # <<>>
  PROVE  /\ Head(s) \in S /\ Tail(s) \in Seq(S) /\ Len(Tail(s)) = Len(s) - 1
         /\ Elements(s) = {Head(s)} \cup Elements(Tail(s))
  <1>1. /\ Head(s) \in S /\ Tail(s) \in Seq(S) /\ Len(Tail(s)) = Len(s) - 1
        /\ Len(s) \in Nat \ {0} /\ Head(s) = s[1]
    OBVIOUS
  <1>2. /\ DOMAIN s = 1..Len(s) /\ DOMAIN Tail(s) = 1..(Len(s) - 1)
        /\ \A i \in 1..(Len(s) - 1) : Tail(s)[i] = s[i + 1]
    OBVIOUS
  <1>3. \A e \in Elements(s) : e = s[1] \/ e \in Elements(Tail(s))
    <2>1. SUFFICES ASSUME NEW i \in 1..Len(s)
                   PROVE  s[i] = s[1] \/ s[i] \in Elements(Tail(s))
      BY <1>2 DEF Elements
    <2>2. CASE i = 1
      BY <2>2
    <2>3. CASE i # 1
      <3>1. i - 1 \in 1..(Len(s) - 1) /\ s[i] = Tail(s)[i - 1]
        BY <1>1, <1>2, <2>3
      <3>2. QED
        BY <1>2, <3>1 DEF Elements
    <2>4. QED
      BY <2>2, <2>3
  <1>4. \A e \in Elements(Tail(s)) : e \in Elements(s)
    <2>1. SUFFICES ASSUME NEW i \in 1..(Len(s) - 1)
                   PROVE  Tail(s)[i] \in Elements(s)
      BY <1>2 DEF Elements
    <2>2. i + 1 \in 1..Len(s) /\ Tail(s)[i] = s[i + 1]
      BY <1>1, <1>2
    <2>3. QED
      BY <1>2, <2>2 DEF Elements
  <1>5. s[1] \in Elements(s)
    BY <1>1, <1>2 DEF Elements
  <1>6. QED
    BY <1>1, <1>3, <1>4, <1>5

LEMMA LastOfBoth ==
  ASSUME NEW S, NEW a \in Seq(S), NEW b \in Seq(S), b # <<>>
  PROVE  a \o b # <<>> /\ (a \o b)[Len(a \o b)] = b[Len(b)]
  <1>1. Len(a) \in Nat /\ Len(b) \in Nat /\ Len(b) > 0
    OBVIOUS
  <1>2. /\ Len(a \o b) = Len(a) + Len(b)
        /\ \A j \in 1..(Len(a) + Len(b)) :
             (a \o b)[j] = IF j <= Len(a) THEN a[j] ELSE b[j - Len(a)]
    OBVIOUS
  <1>3. /\ Len(a) + Len(b) \in 1..(Len(a) + Len(b))
        /\ ~(Len(a) + Len(b) <= Len(a)) /\ Len(a) + Len(b) - Len(a) = Len(b)
    BY <1>1
  <1>4. (a \o b)[Len(a) + Len(b)] = b[Len(b)]
    BY <1>2, <1>3
  <1>5. a \o b # <<>>
    BY <1>1, <1>2
  <1>6. QED
    BY <1>2, <1>4, <1>5

\* A load that ends leaves the last of those in flight, unless it is the last itself.
LEMMA ArrivedLoad ==
  ASSUME NEW S, NEW s \in Seq(S), NEW i \in DOMAIN s
  PROVE  /\ Without(s, i) \in Seq(S)
         /\ i # Len(s) => /\ Without(s, i) # <<>>
                          /\ Without(s, i)[Len(Without(s, i))] = s[Len(s)]
  <1> DEFINE a == SubSeq(s, 1, i - 1)
             b == SubSeq(s, i + 1, Len(s))
  <1>1. Len(s) \in Nat \ {0} /\ DOMAIN s = 1..Len(s) /\ i \in 1..Len(s)
    OBVIOUS
  <1>2. a \in Seq(S) /\ Len(a) = i - 1
    BY <1>1
  <1>3. b \in Seq(S) /\ Len(b) = Len(s) - i /\ \A j \in 1..(Len(s) - i) : b[j] = s[i + j]
    BY <1>1
  <1> HIDE DEF a, b
  <1>4. a \o b \in Seq(S)
    BY <1>2, <1>3
  <1>5. Without(s, i) = a \o b
    BY DEF Without, a, b
  <1>6. ASSUME i # Len(s)
        PROVE  a \o b # <<>> /\ (a \o b)[Len(a \o b)] = s[Len(s)]
    <2>1. /\ Len(s) - i \in 1..(Len(s) - i) /\ i + (Len(s) - i) = Len(s)
          /\ Len(s) - i \in Nat \ {0}
      BY <1>1, <1>6
    <2>2. b # <<>> /\ b[Len(b)] = s[Len(s)]
      BY <1>3, <2>1
    <2>3. QED
      BY <1>2, <1>3, <2>2, LastOfBoth
  <1>7. QED
    BY <1>4, <1>5, <1>6

\* A queue keeps what it holds, and takes what it has room for.
LEMMA PutKeeps ==
  ASSUME NEW S, NEW q \in Seq(S), NEW e \in S, Len(q) <= Capacity
  PROVE  /\ Put(q, e) \in Seq(S) /\ Len(Put(q, e)) <= Capacity
         /\ Len(Put(q, e)) <= Len(q) + 1
         /\ Elements(q) \subseteq Elements(Put(q, e))
         /\ Len(q) < Capacity => e \in Elements(Put(q, e))
  <1>1. Capacity \in Nat /\ Len(q) \in Nat
    BY BoundAssumption
  <1>2. CASE Len(q) < Capacity
    BY <1>1, <1>2, Appended DEF Put
  <1>3. CASE ~(Len(q) < Capacity)
    BY <1>1, <1>3 DEF Put
  <1>4. QED
    BY <1>2, <1>3

-----------------------------------------------------------------------------
(* Types, and what holds whatever the environment does.                    *)

LEMMA BasicsInit ==
  ASSUME Init
  PROVE  Basics
  <1>1. Types
    <2>1. /\ made \in 0..Changes
          /\ faults \in [outages : 0..Outages, drops : 0..Drops, failures : 0..Failures]
      BY BoundAssumption DEF Init
    <2>2. <<Asked>> \in Seq(Load)
      <3>1. Asked \in Load
        BY DEF Load
      <3>2. QED
        BY <3>1
    <2>3. loads \in [Tabs -> [Tables -> Seq(Load)]]
      BY <2>2 DEF Init
    <2>4. wire \in Seq(Change) /\ queue \in [Tabs -> Seq(Change \cup {Sentinel})]
      BY DEF Init
    <2>5. QED
      BY <2>1, <2>3, <2>4 DEF Init, Types
  <1>2. MadeOnce /\ Queues
    BY BoundAssumption DEF Init, MadeOnce, Queues
  <1>3. QED
    BY <1>1, <1>2 DEF Basics

LEMMA MakeBasics ==
  ASSUME Basics, NEW tab \in Authors, NEW table \in Tables, Make(tab, table)
  PROVE  Basics'
  <1> DEFINE c == [id |-> made + 1, table |-> table, tab |-> tab]
  <1>1. /\ made < Changes /\ made' = made + 1 /\ pending' = pending \cup {c}
        /\ reply' = (IF tab \in Tabs THEN reply \cup {c} ELSE reply)
        /\ UNCHANGED <<db, bus, wire, faults, stream, again, queue, timer, loads, store, blind, missed>>
    BY DEF Make, streams, history
  <1>2. /\ made \in Nat /\ made \in 0..Changes /\ Changes \in Nat
        /\ c.id = made + 1 /\ c.tab = tab /\ c.table = table
    BY BoundAssumption DEF Basics, Types
  <1>3. c \in Change
    BY <1>1, <1>2 DEF Change
  <1>4. c \notin db /\ c \notin pending
    BY <1>2 DEF Basics, MadeOnce
  <1> HIDE DEF c
  <1>5. Types'
    BY <1>1, <1>2, <1>3 DEF Basics, Types
  <1>6. MadeOnce'
    <2>1. \A d \in pending \cup db : d \in Change /\ d.id \in Nat /\ d.id <= made
      BY BoundAssumption DEF Basics, MadeOnce, Types, Change
    <2>2. QED
      BY <1>1, <1>2, <1>4, <2>1 DEF Basics, MadeOnce
  <1>7. QED
    BY <1>1, <1>5, <1>6 DEF Basics, Queues

LEMMA CommitBasics ==
  ASSUME Basics, NEW c \in Change, Commit(c)
  PROVE  Basics'
  <1>1. missed' \in [Tabs -> SUBSET Change]
    BY DEF Basics, Types, Commit
  <1>2. Types'
    BY <1>1 DEF Basics, Types, Commit, streams
  <1>3. MadeOnce' /\ Queues'
    BY DEF Basics, MadeOnce, Queues, Commit, streams
  <1>4. QED
    BY <1>2, <1>3 DEF Basics

\* The step of the bus: e is put into every queue that is open.
LEMMA PutBasics ==
  ASSUME Types, Queues, NEW e \in Change \cup {Sentinel}, PutInOpen(e), UNCHANGED stream
  PROVE  /\ queue' \in [Tabs -> Seq(Change \cup {Sentinel})]
         /\ \A t \in Tabs :
              /\ Len(queue'[t]) <= Capacity /\ Len(queue'[t]) <= Len(queue[t]) + 1
              /\ stream'[t] = "connecting" => queue'[t] = <<>>
              /\ Elements(queue[t]) \subseteq Elements(queue'[t])
              /\ stream[t] = "open" /\ Len(queue[t]) < Capacity => e \in Elements(queue'[t])
  <1>1. \A t \in Tabs :
          /\ queue[t] \in Seq(Change \cup {Sentinel}) /\ Len(queue[t]) <= Capacity
          /\ Len(queue[t]) \in Nat
          /\ queue'[t] = IF stream[t] = "open" THEN Put(queue[t], e) ELSE queue[t]
    <2>1. \A t \in Tabs : queue[t] \in Seq(Change \cup {Sentinel})
      BY DEF Types
    <2>2. QED
      BY <2>1 DEF Queues, PutInOpen
  <1>2. \A t \in Tabs :
          /\ Put(queue[t], e) \in Seq(Change \cup {Sentinel})
          /\ Len(Put(queue[t], e)) <= Capacity /\ Len(Put(queue[t], e)) <= Len(queue[t]) + 1
          /\ Elements(queue[t]) \subseteq Elements(Put(queue[t], e))
          /\ Len(queue[t]) < Capacity => e \in Elements(Put(queue[t], e))
    BY <1>1, PutKeeps
  <1>3. \A t \in Tabs : queue'[t] \in Seq(Change \cup {Sentinel})
    BY <1>1, <1>2
  <1>4. queue' \in [Tabs -> Seq(Change \cup {Sentinel})]
    BY <1>3 DEF PutInOpen
  <1>5. \A t \in Tabs : Len(queue'[t]) <= Capacity /\ Len(queue'[t]) <= Len(queue[t]) + 1
    BY <1>1, <1>2
  <1>6. \A t \in Tabs : stream'[t] = "connecting" => queue'[t] = <<>>
    BY <1>1 DEF Queues
  <1>7. \A t \in Tabs :
          /\ Elements(queue[t]) \subseteq Elements(queue'[t])
          /\ stream[t] = "open" /\ Len(queue[t]) < Capacity => e \in Elements(queue'[t])
    BY <1>1, <1>2
  <1>8. QED
    BY <1>4, <1>5, <1>6, <1>7

LEMMA DispatchBasics ==
  ASSUME Basics, Dispatch
  PROVE  Basics'
  <1>1. Head(wire) \in Change /\ Tail(wire) \in Seq(Change) /\ wire' = Tail(wire)
        /\ PutInOpen(Head(wire)) /\ bus # "lost"
        /\ UNCHANGED <<made, pending, reply, db, bus, faults, stream, again, timer, loads, store,
                       blind>>
    BY DEF Basics, Types, Queues, Dispatch, server
  <1>2. /\ queue' \in [Tabs -> Seq(Change \cup {Sentinel})]
        /\ \A t \in Tabs : /\ Len(queue'[t]) <= Capacity
                           /\ stream'[t] = "connecting" => queue'[t] = <<>>
    BY <1>1, PutBasics DEF Basics
  <1>3. missed' \in [Tabs -> SUBSET Change]
    BY <1>1 DEF Dispatch, Basics, Types
  <1>4. Types' /\ MadeOnce' /\ Queues'
    BY <1>1, <1>2, <1>3 DEF Basics, Types, MadeOnce, Queues
  <1>5. QED
    BY <1>4 DEF Basics

LEMMA ConnectionLostBasics ==
  ASSUME Basics, ConnectionLost
  PROVE  Basics'
  <1>1. /\ faults.outages < Outages /\ bus' = "lost" /\ wire' = <<>> /\ PutInOpen(Sentinel)
        /\ faults' = [faults EXCEPT !.outages = faults.outages + 1]
        /\ UNCHANGED <<made, pending, reply, db, stream, again, timer, loads, store>>
    BY DEF ConnectionLost, server
  <1>2. faults' \in [outages : 0..Outages, drops : 0..Drops, failures : 0..Failures]
    <2>1. faults \in [outages : 0..Outages, drops : 0..Drops, failures : 0..Failures]
      BY DEF Basics, Types
    <2>2. faults.outages + 1 \in 0..Outages
      BY <1>1, <2>1, BoundAssumption
    <2>3. QED
      BY <1>1, <2>1, <2>2
  <1>3. /\ queue' \in [Tabs -> Seq(Change \cup {Sentinel})]
        /\ \A t \in Tabs : /\ Len(queue'[t]) <= Capacity
                           /\ stream'[t] = "connecting" => queue'[t] = <<>>
    BY <1>1, PutBasics DEF Basics
  <1>4. missed' \in [Tabs -> SUBSET Change] /\ blind' \in [Tabs -> BOOLEAN]
    <2>1. Elements(wire) \subseteq Change
      BY DEF Basics, Types, Elements
    <2>2. \A t \in Tabs : Deaf(t) \in BOOLEAN
      BY DEF Deaf, Basics, Types
    <2>3. QED
      BY <2>1, <2>2 DEF ConnectionLost, Basics, Types
  <1>5. Types' /\ MadeOnce' /\ Queues'
    BY <1>1, <1>2, <1>3, <1>4 DEF Basics, Types, MadeOnce, Queues
  <1>6. QED
    BY <1>5 DEF Basics

\* A stream ends, and its queue with it.
LEMMA LoseBasics ==
  ASSUME Basics, NEW t \in Tabs, Lose(t),
         faults' \in [outages : 0..Outages, drops : 0..Drops, failures : 0..Failures],
         UNCHANGED <<server, bus, wire, timer, loads, store>>
  PROVE  Basics'
  <1>1. Types' /\ MadeOnce'
    BY DEF Basics, Types, MadeOnce, Lose, server
  <1>2. Queues'
    BY BoundAssumption DEF Basics, Types, Queues, Lose, server
  <1>3. QED
    BY <1>1, <1>2 DEF Basics

\* Steps that touch the loads, the timers and the stores only.
LEMMA StoresBasics ==
  ASSUME Basics, UNCHANGED <<made, pending, db, bus, wire, queue>>,
         faults' \in [outages : 0..Outages, drops : 0..Drops, failures : 0..Failures],
         blind' \in [Tabs -> BOOLEAN], missed' \in [Tabs -> SUBSET Change],
         stream' \in [Tabs -> {"connecting", "open"}],
         \A t \in Tabs : stream'[t] = "connecting" => stream[t] = "connecting",
         reply' \subseteq reply, UNCHANGED again,
         timer' \in [Tabs -> SUBSET Tables], store' \in [Tabs -> SUBSET Change],
         loads' \in [Tabs -> [Tables -> Seq(Load)]]
  PROVE  Basics'
  BY DEF Basics, Types, MadeOnce, Queues

\* A load more of a table is asked for.
LEMMA AskLoads ==
  ASSUME Types, NEW t \in Tabs, NEW b \in Tables, Ask(t, b)
  PROVE  /\ loads' \in [Tabs -> [Tables -> Seq(Load)]]
         /\ missed' \in [Tabs -> SUBSET Change]
         /\ \A u \in Tabs, d \in Tables : u # t \/ d # b => loads'[u][d] = loads[u][d]
         /\ \A u \in Tabs : \A c \in missed[u] : u # t \/ c.table # b => c \in missed'[u]
         /\ loads'[t][b] # <<>> /\ loads'[t][b][Len(loads'[t][b])] = Asked
  <1>1. /\ loads \in [Tabs -> [Tables -> Seq(Load)]]
        /\ loads[t][b] \in Seq(Load)
        /\ loads' = [loads EXCEPT ![t][b] = Append(loads[t][b], Asked)]
    BY DEF Types, Ask
  <1>2. Asked \in Load /\ Append(loads[t][b], Asked) \in Seq(Load)
    BY <1>1, Appended DEF Load
  <1>3. /\ Append(loads[t][b], Asked) # <<>>
        /\ Append(loads[t][b], Asked)[Len(Append(loads[t][b], Asked))] = Asked
    BY <1>1, <1>2, Appended
  <1>4. /\ loads' \in [Tabs -> [Tables -> Seq(Load)]]
        /\ \A u \in Tabs, d \in Tables :
             loads'[u][d] = IF u = t /\ d = b THEN Append(loads[t][b], Asked) ELSE loads[u][d]
    BY <1>1, <1>2
  <1>5. /\ missed' \in [Tabs -> SUBSET Change]
        /\ \A u \in Tabs : \A c \in missed[u] : u # t \/ c.table # b => c \in missed'[u]
    BY DEF Types, Ask
  <1>6. QED
    BY <1>3, <1>4, <1>5

\* Every table is loaded once more.
LEMMA ReloadLoads ==
  ASSUME Types, NEW t \in Tabs, ReloadAllStores(t)
  PROVE  /\ loads' \in [Tabs -> [Tables -> Seq(Load)]]
         /\ missed' \in [Tabs -> SUBSET Change]
         /\ \A u \in Tabs : u # t => loads'[u] = loads[u] /\ missed'[u] = missed[u]
         /\ \A b \in Tables : loads'[t][b] # <<>> /\ loads'[t][b][Len(loads'[t][b])] = Asked
  <1>1. /\ loads \in [Tabs -> [Tables -> Seq(Load)]]
        /\ loads' = [loads EXCEPT ![t] = [b \in Tables |-> Append(loads[t][b], Asked)]]
        /\ Asked \in Load
    BY DEF Types, ReloadAllStores, Load
  <1>2. \A b \in Tables :
          /\ Append(loads[t][b], Asked) \in Seq(Load)
          /\ Append(loads[t][b], Asked) # <<>>
          /\ Append(loads[t][b], Asked)[Len(Append(loads[t][b], Asked))] = Asked
    BY <1>1, Appended
  <1>3. /\ missed' \in [Tabs -> SUBSET Change]
        /\ \A u \in Tabs : u # t => missed'[u] = missed[u]
    BY DEF Types, ReloadAllStores
  <1>4. QED
    BY <1>1, <1>2, <1>3

LEMMA AnswerBasics ==
  ASSUME Basics, NEW c \in Change, Answer(c)
  PROVE  Basics'
  <1>1. /\ c \in reply /\ c.tab \in Tabs /\ c.table \in Tables /\ Ask(c.tab, c.table)
        /\ reply' = reply \ {c}
        /\ store' = [store EXCEPT ![c.tab] = store[c.tab] \cup {c}]
        /\ UNCHANGED <<made, pending, db, bus, wire, faults, stream, again, queue, timer, blind>>
    BY DEF Basics, Types, Answer, streams, Change
  <1>2. /\ loads' \in [Tabs -> [Tables -> Seq(Load)]] /\ missed' \in [Tabs -> SUBSET Change]
        /\ store' \in [Tabs -> SUBSET Change] /\ timer' \in [Tabs -> SUBSET Tables]
        /\ stream' \in [Tabs -> {"connecting", "open"}]
    BY <1>1, AskLoads DEF Basics, Types
  <1>3. QED
    BY <1>1, <1>2, StoresBasics DEF Basics, Types

LEMMA ConnectBasics ==
  ASSUME Basics, NEW t \in Tabs, Connect(t)
  PROVE  Basics'
  <1>1. /\ stream' = [stream EXCEPT ![t] = "open"]
        /\ ReloadAllStores(t) \/ UNCHANGED <<loads, missed>>
        /\ blind' = [blind EXCEPT ![t] = bus = "lost"]
        /\ UNCHANGED <<made, pending, reply, db, bus, wire, faults, again, queue, timer, store>>
    BY DEF Connect, server
  <1>2. /\ loads' \in [Tabs -> [Tables -> Seq(Load)]] /\ missed' \in [Tabs -> SUBSET Change]
        /\ store' \in [Tabs -> SUBSET Change] /\ timer' \in [Tabs -> SUBSET Tables]
        /\ blind' \in [Tabs -> BOOLEAN]
    BY <1>1, ReloadLoads DEF Basics, Types
  <1>3. /\ stream' \in [Tabs -> {"connecting", "open"}]
        /\ \A u \in Tabs : stream'[u] = "connecting" => stream[u] = "connecting"
    BY <1>1 DEF Basics, Types
  <1>4. QED
    BY <1>1, <1>2, <1>3, StoresBasics DEF Basics, Types

LEMMA ReadEventBasics ==
  ASSUME Basics, NEW t \in Tabs, ReadEvent(t)
  PROVE  Basics'
  <1>1. /\ queue[t] \in Seq(Change \cup {Sentinel}) /\ queue[t] # <<>>
        /\ Head(queue[t]) # Sentinel /\ queue' = [queue EXCEPT ![t] = Tail(queue[t])]
        /\ UNCHANGED <<made, pending, reply, db, bus, wire, faults, stream, again, loads, store,
                       blind, missed>>
    BY DEF Basics, Types, ReadEvent, server, history
  <1>2. /\ Head(queue[t]) \in Change /\ Head(queue[t]).table \in Tables
        /\ Tail(queue[t]) \in Seq(Change \cup {Sentinel})
        /\ Len(Tail(queue[t])) = Len(queue[t]) - 1
    BY <1>1, HeadAndTail DEF Change
  <1>3. timer' \in [Tabs -> SUBSET Tables]
    BY <1>2 DEF ReadEvent, Basics, Types
  <1>4. Types' /\ MadeOnce'
    BY <1>1, <1>2, <1>3 DEF Basics, Types, MadeOnce
  <1>5. Queues'
    <2>1. stream[t] # "connecting" /\ Len(queue[t]) \in Nat /\ Len(queue[t]) <= Capacity
      BY <1>1 DEF Basics, Queues
    <2>2. Len(Tail(queue[t])) <= Capacity
      BY <1>2, <2>1, BoundAssumption
    <2>3. \A u \in Tabs : queue'[u] = IF u = t THEN Tail(queue[t]) ELSE queue[u]
      BY <1>1 DEF Basics, Types
    <2>4. QED
      BY <1>1, <2>1, <2>2, <2>3 DEF Basics, Queues
  <1>6. QED
    BY <1>4, <1>5 DEF Basics

LEMMA FireBasics ==
  ASSUME Basics, NEW t \in Tabs, NEW b \in Tables, Fire(t, b)
  PROVE  Basics'
  <1>1. /\ Ask(t, b) /\ timer' = [timer EXCEPT ![t] = timer[t] \ {b}]
        /\ UNCHANGED <<made, pending, reply, db, bus, wire, faults, stream, again, queue, store,
                       blind>>
    BY DEF Fire, server, streams
  <1>2. /\ loads' \in [Tabs -> [Tables -> Seq(Load)]] /\ missed' \in [Tabs -> SUBSET Change]
        /\ store' \in [Tabs -> SUBSET Change] /\ timer' \in [Tabs -> SUBSET Tables]
        /\ stream' \in [Tabs -> {"connecting", "open"}]
    BY <1>1, AskLoads DEF Basics, Types
  <1>3. QED
    BY <1>1, <1>2, StoresBasics DEF Basics, Types

LEMMA ReadTableBasics ==
  ASSUME Basics, NEW t \in Tabs, NEW b \in Tables, NEW i \in Loads, ReadTable(t, b, i)
  PROVE  Basics'
  <1>1. /\ i \in DOMAIN loads[t][b]
        /\ loads' = [loads EXCEPT ![t][b][i] = {c \in db : c.table = b}]
        /\ UNCHANGED <<made, pending, reply, db, bus, wire, faults, stream, again, queue, timer, store,
                       blind, missed>>
    BY DEF ReadTable, server, streams, history
  <1>2. /\ store' \in [Tabs -> SUBSET Change] /\ timer' \in [Tabs -> SUBSET Tables]
        /\ stream' \in [Tabs -> {"connecting", "open"}]
        /\ {c \in db : c.table = b} \in Load
    BY <1>1 DEF Basics, Types, Load
  <1>3. loads' \in [Tabs -> [Tables -> Seq(Load)]]
    <2>1. loads \in [Tabs -> [Tables -> Seq(Load)]]
      BY DEF Basics, Types
    <2>2. [loads[t][b] EXCEPT ![i] = {c \in db : c.table = b}] \in Seq(Load)
      BY <1>1, <1>2, <2>1
    <2>3. QED
      BY <1>1, <2>1, <2>2
  <1>4. QED
    BY <1>1, <1>2, <1>3, StoresBasics DEF Basics, Types

\* What others changed is known to be changes.
LEMMA MissTypes ==
  ASSUME Types, NEW t \in Tabs, NEW C \in SUBSET Change, Miss(t, C)
  PROVE  /\ missed' \in [Tabs -> SUBSET Change]
         /\ \A u \in Tabs : missed[u] \subseteq missed'[u]
         /\ C \subseteq missed'[t]
  BY DEF Types, Miss

LEMMA ArriveBasics ==
  ASSUME Basics, NEW t \in Tabs, NEW b \in Tables, NEW i \in Loads, Arrive(t, b, i)
  PROVE  Basics'
  <1>1. /\ i \in DOMAIN loads[t][b] /\ loads[t][b][i] # Asked
        /\ store' = [store EXCEPT ![t] = {c \in store[t] : c.table # b} \cup loads[t][b][i]]
        /\ loads' = [loads EXCEPT ![t][b] = Without(loads[t][b], i)]
        /\ Miss(t, (Others(t, b) \cap store[t]) \ loads[t][b][i])
        /\ UNCHANGED <<made, pending, reply, db, bus, wire, faults, stream, again, queue, timer,
                       blind>>
    BY DEF Arrive, server, streams
  <1>2. /\ loads \in [Tabs -> [Tables -> Seq(Load)]]
        /\ loads[t][b] \in Seq(Load)
    BY DEF Basics, Types
  <1>3. loads[t][b][i] \in SUBSET Change
    BY <1>1, <1>2 DEF Load
  <1>4. Without(loads[t][b], i) \in Seq(Load)
    BY <1>1, <1>2, ArrivedLoad
  <1>5. loads' \in [Tabs -> [Tables -> Seq(Load)]]
    BY <1>1, <1>2, <1>4
  <1>6. (Others(t, b) \cap store[t]) \ loads[t][b][i] \in SUBSET Change
    BY DEF Others, Basics, Types
  <1>7. missed' \in [Tabs -> SUBSET Change]
    BY <1>1, <1>6, MissTypes DEF Basics
  <1>8. /\ store' \in [Tabs -> SUBSET Change] /\ timer' \in [Tabs -> SUBSET Tables]
        /\ stream' \in [Tabs -> {"connecting", "open"}]
    BY <1>1, <1>3 DEF Basics, Types
  <1>9. QED
    BY <1>1, <1>5, <1>7, <1>8, StoresBasics DEF Basics, Types

LEMMA LoadFailsBasics ==
  ASSUME Basics, NEW t \in Tabs, NEW b \in Tables, NEW i \in Loads, LoadFails(t, b, i)
  PROVE  Basics'
  <1> DEFINE C == IF i = Len(loads[t][b]) THEN Others(t, b) ELSE {}
  <1>1. /\ i \in DOMAIN loads[t][b] /\ faults.failures < Failures
        /\ loads' = [loads EXCEPT ![t][b] = Without(loads[t][b], i)]
        /\ faults' = [faults EXCEPT !.failures = faults.failures + 1]
        /\ Miss(t, C)
        /\ UNCHANGED <<made, pending, reply, db, bus, wire, stream, again, queue, timer, store,
                       blind>>
    BY DEF LoadFails, server, streams
  <1>2. /\ loads \in [Tabs -> [Tables -> Seq(Load)]]
        /\ loads[t][b] \in Seq(Load)
    BY DEF Basics, Types
  <1>3. Without(loads[t][b], i) \in Seq(Load)
    BY <1>1, <1>2, ArrivedLoad
  <1>4. loads' \in [Tabs -> [Tables -> Seq(Load)]]
    BY <1>1, <1>2, <1>3
  <1>5. C \in SUBSET Change
    BY DEF Others, Basics, Types
  <1>6. missed' \in [Tabs -> SUBSET Change]
    BY <1>1, <1>5, MissTypes DEF Basics
  <1>7. faults' \in [outages : 0..Outages, drops : 0..Drops, failures : 0..Failures]
    <2>1. faults \in [outages : 0..Outages, drops : 0..Drops, failures : 0..Failures]
      BY DEF Basics, Types
    <2>2. faults.failures + 1 \in 0..Failures
      BY <1>1, <2>1, BoundAssumption
    <2>3. QED
      BY <1>1, <2>1, <2>2
  <1>8. QED
    BY <1>1, <1>4, <1>6, <1>7, StoresBasics DEF Basics, Types

LEMMA BasicsStep ==
  ASSUME Basics, [Next]_vars
  PROVE  Basics'
  <1>1. CASE UNCHANGED vars
    BY <1>1 DEF vars, server, streams, history, Basics, Types, MadeOnce, Queues
  <1>2. CASE \E t \in Tabs : TabStep(t)
    <2>1. PICK t \in Tabs : TabStep(t)
      BY <1>2
    <2>2. CASE ReadSentinel(t)
      BY <2>2, LoseBasics DEF ReadSentinel, Basics, Types
    <2>3. QED
      BY <2>1, <2>2, ConnectBasics, ReadEventBasics, FireBasics, ReadTableBasics, ArriveBasics
      DEF TabStep
  <1>3. CASE Reconnect
    <2>1. blind' \in [Tabs -> BOOLEAN]
      BY <1>3 DEF Reconnect, Basics, Types
    <2>2. QED
      BY <1>3, <2>1 DEF Reconnect, server, streams, Basics, Types, MadeOnce, Queues
  <1>4. CASE \E t \in Tabs : Drop(t)
    <2>1. PICK t \in Tabs : Drop(t)
      BY <1>4
    <2>2. faults \in [outages : 0..Outages, drops : 0..Drops, failures : 0..Failures]
      BY DEF Basics, Types
    <2>3. faults.drops + 1 \in 0..Drops
      BY <2>1, <2>2, BoundAssumption DEF Drop
    <2>4. faults' \in [outages : 0..Outages, drops : 0..Drops, failures : 0..Failures]
      BY <2>1, <2>2, <2>3 DEF Drop
    <2>5. QED
      BY <2>1, <2>4, LoseBasics DEF Drop
  <1>5. QED
    BY <1>1, <1>2, <1>3, <1>4, MakeBasics, CommitBasics, AnswerBasics, DispatchBasics,
       ConnectionLostBasics, LoadFailsBasics DEF Next, ServerStep, Fault

\* Tabs, changes, queues and loads have their types in every behaviour; no change is
\* committed twice, no queue is longer than its maxsize, and none is left by a stream.
THEOREM LiveUpdatesTypes == Spec => []TypeOK
  <1>1. Basics => TypeOK
    BY DEF Basics, Types, MadeOnce, Queues, TypeOK
  <1>2. QED
    BY <1>1, BasicsInit, BasicsStep, PTL DEF Spec

-----------------------------------------------------------------------------
(* Nothing is lost but what is missed: one lemma for each step.            *)

LEMMA InvInit ==
  ASSUME Init
  PROVE  Told /\ Settled
  BY DEF Init, Told, Settled

LEMMA MakeInv ==
  ASSUME Inv, NEW tab \in Authors, NEW table \in Tables, Make(tab, table)
  PROVE  Told' /\ Settled'
  BY DEF Inv, Make, streams, history, Told, Settled, Shown, Coming

LEMMA CommitInv ==
  ASSUME Inv, NEW c \in Change, Commit(c)
  PROVE  Told' /\ Settled'
  <1>1. /\ db' = db \cup {c} /\ wire' = IF bus = "listening" THEN Append(wire, c) ELSE wire
        /\ UNCHANGED <<bus, stream, again, queue, timer, loads, store, blind>>
    BY DEF Commit, streams
  <1>2. /\ \A t \in Tabs : missed[t] \subseteq missed'[t]
        /\ bus = "lost" => \A t \in Tabs : blind[t] => c \in missed'[t]
    BY DEF Commit
  <1>3. wire \in Seq(Change) /\ bus \in {"listening", "lost"}
    BY DEF Inv, Basics, Types
  <1>4. /\ Elements(wire) \subseteq Elements(wire')
        /\ bus = "listening" => c \in Elements(wire')
    BY <1>1, <1>3, Appended
  <1>5. Told'
    BY <1>1 DEF Inv, Told
  <1>6. Settled'
    <2>1. SUFFICES ASSUME NEW t \in Tabs, NEW d \in db', d.tab # t
                   PROVE  Shown(t, d)'
      BY DEF Settled
    <2>2. CASE d \in db
      <3>1. Shown(t, d)
        BY <2>1, <2>2 DEF Inv, Settled
      <3>2. QED
        BY <1>1, <1>2, <1>4, <3>1 DEF Shown, Coming
    <2>3. CASE d = c /\ bus = "listening"
      BY <1>4, <2>3 DEF Shown, Coming
    <2>4. CASE d = c /\ bus = "lost"
      <3>1. \/ blind[t]
            \/ stream[t] = "connecting" /\ again[t]
            \/ Sentinel \in Elements(queue[t])
        BY <2>4 DEF Inv, Told
      <3>2. QED
        BY <1>1, <1>2, <2>4, <3>1 DEF Shown, Coming
    <2>5. QED
      BY <1>1, <1>3, <2>1, <2>2, <2>3, <2>4
  <1>7. QED
    BY <1>5, <1>6

\* Who asks for a table is to be shown what it holds.
LEMMA AskShows ==
  ASSUME Inv, NEW u \in Tabs, NEW b \in Tables, Ask(u, b),
         UNCHANGED <<db, bus, wire, stream, again, queue, blind>>,
         \A t \in Tabs : store[t] \subseteq store'[t],
         \A t \in Tabs : \A d \in timer[t] : d \in timer'[t] \/ (t = u /\ d = b)
  PROVE  Told' /\ Settled'
  <1>1. /\ \A t \in Tabs, d \in Tables : t # u \/ d # b => loads'[t][d] = loads[t][d]
        /\ \A t \in Tabs : \A d \in missed[t] : t # u \/ d.table # b => d \in missed'[t]
        /\ loads'[u][b] # <<>> /\ loads'[u][b][Len(loads'[u][b])] = Asked
    BY AskLoads DEF Inv, Basics
  <1>2. Told'
    BY DEF Inv, Told
  <1>3. Settled'
    <2>1. SUFFICES ASSUME NEW t \in Tabs, NEW d \in db, d.tab # t
                   PROVE  Shown(t, d)'
      BY DEF Settled
    <2>2. Shown(t, d) /\ d.table \in Tables
      BY <2>1 DEF Inv, Settled, Basics, Types, Change
    <2>3. CASE t = u /\ d.table = b
      BY <1>1, <2>3 DEF Shown, Coming
    <2>4. CASE t # u \/ d.table # b
      BY <1>1, <2>2, <2>4 DEF Shown, Coming
    <2>5. QED
      BY <2>3, <2>4
  <1>4. QED
    BY <1>2, <1>3

LEMMA AnswerInv ==
  ASSUME Inv, NEW c \in Change, Answer(c)
  PROVE  Told' /\ Settled'
  <1> DEFINE u == c.tab
             b == c.table
  <1>1. /\ u \in Tabs /\ b \in Tables /\ Ask(u, b)
        /\ store' = [store EXCEPT ![u] = store[u] \cup {c}]
        /\ UNCHANGED <<db, bus, wire, stream, again, queue, timer, blind>>
    BY DEF Inv, Basics, Types, Answer, streams, Change
  <1>2. \A t \in Tabs : store[t] \subseteq store'[t]
    BY <1>1 DEF Inv, Basics, Types
  <1> HIDE DEF u, b
  <1>3. QED
    BY <1>1, <1>2, AskShows

LEMMA FireInv ==
  ASSUME Inv, NEW t \in Tabs, NEW b \in Tables, Fire(t, b)
  PROVE  Told' /\ Settled'
  <1>1. /\ Ask(t, b) /\ timer' = [timer EXCEPT ![t] = timer[t] \ {b}]
        /\ UNCHANGED <<db, bus, wire, stream, again, queue, store, blind>>
    BY DEF Fire, server, streams
  <1>2. \A u \in Tabs : \A d \in timer[u] : d \in timer'[u] \/ (u = t /\ d = b)
    BY <1>1 DEF Inv, Basics, Types
  <1>3. QED
    BY <1>1, <1>2, AskShows

\* A step of the bus that puts e into the queues that are open: who is not deaf has it.
LEMMA PutReaches ==
  ASSUME Basics, NEW e \in Change \cup {Sentinel}, PutInOpen(e), UNCHANGED stream
  PROVE  \A t \in Tabs :
           /\ Elements(queue[t]) \subseteq Elements(queue'[t])
           /\ Deaf(t) \/ stream[t] = "connecting" \/ e \in Elements(queue'[t])
  <1>1. \A t \in Tabs : /\ Elements(queue[t]) \subseteq Elements(queue'[t])
                        /\ stream[t] = "open" /\ Len(queue[t]) < Capacity
                             => e \in Elements(queue'[t])
    BY PutBasics DEF Basics
  <1>2. \A t \in Tabs : /\ queue[t] \in Seq(Change \cup {Sentinel})
                        /\ stream[t] \in {"connecting", "open"}
    BY DEF Basics, Types
  <1>3. \A t \in Tabs : Len(queue[t]) \in Nat
    BY <1>2
  <1>4. \A t \in Tabs : Len(queue[t]) < Capacity \/ Len(queue[t]) >= Capacity
    BY <1>3, BoundAssumption
  <1>5. QED
    BY <1>1, <1>2, <1>4 DEF Deaf

LEMMA DispatchInv ==
  ASSUME Inv, Dispatch
  PROVE  Told' /\ Settled'
  <1>1. /\ wire # <<>> /\ wire \in Seq(Change) /\ PutInOpen(Head(wire)) /\ wire' = Tail(wire)
        /\ UNCHANGED <<db, bus, stream, again, timer, loads, store, blind>>
    BY DEF Inv, Basics, Types, Dispatch, server
  <1>2. Head(wire) \in Change /\ Elements(wire) = {Head(wire)} \cup Elements(wire')
    BY <1>1, HeadAndTail
  <1>3. \A t \in Tabs : /\ missed[t] \subseteq missed'[t]
                        /\ Deaf(t) => Head(wire) \in missed'[t]
    BY DEF Dispatch
  <1>4. \A t \in Tabs :
          /\ Elements(queue[t]) \subseteq Elements(queue'[t])
          /\ Deaf(t) \/ stream[t] = "connecting" \/ Head(wire) \in Elements(queue'[t])
    BY <1>1, <1>2, PutReaches DEF Inv
  <1>5. Told'
    BY <1>1, <1>4 DEF Inv, Told
  <1>6. Settled'
    <2>1. SUFFICES ASSUME NEW t \in Tabs, NEW d \in db, d.tab # t
                   PROVE  Shown(t, d)'
      BY <1>1 DEF Settled
    <2>2. Shown(t, d)
      BY <2>1 DEF Inv, Settled
    <2>3. CASE d = Head(wire)
      <3>1. Deaf(t) \/ (stream[t] = "connecting" /\ again[t]) \/ d \in Elements(queue'[t])
        BY <1>4, <2>3 DEF Inv, Told, Deaf
      <3>2. QED
        BY <1>1, <1>3, <2>3, <3>1 DEF Shown, Coming
    <2>4. CASE d # Head(wire)
      BY <1>1, <1>2, <1>3, <1>4, <2>2, <2>4 DEF Shown, Coming
    <2>5. QED
      BY <2>3, <2>4
  <1>7. QED
    BY <1>5, <1>6

LEMMA ConnectionLostInv ==
  ASSUME Inv, ConnectionLost
  PROVE  Told' /\ Settled'
  <1>1. /\ PutInOpen(Sentinel) /\ wire' = <<>>
        /\ UNCHANGED <<db, stream, again, timer, loads, store>>
    BY DEF ConnectionLost, server
  <1>2. \A t \in Tabs : /\ missed[t] \subseteq missed'[t]
                        /\ Deaf(t) => blind'[t] /\ Elements(wire) \subseteq missed'[t]
                        /\ blind[t] => Deaf(t)
    BY DEF ConnectionLost, Deaf
  <1>3. \A t \in Tabs :
          /\ Elements(queue[t]) \subseteq Elements(queue'[t])
          /\ Deaf(t) \/ stream[t] = "connecting" \/ Sentinel \in Elements(queue'[t])
    BY <1>1, PutReaches DEF Inv
  <1>4. \A t \in Tabs : \/ Deaf(t)
                        \/ stream[t] = "connecting" /\ again[t]
                        \/ Sentinel \in Elements(queue'[t])
    BY <1>2, <1>3 DEF Inv, Told
  <1>5. Told'
    BY <1>1, <1>2, <1>4 DEF Inv, Told
  <1>6. Settled'
    <2>1. SUFFICES ASSUME NEW t \in Tabs, NEW d \in db, d.tab # t
                   PROVE  Shown(t, d)'
      BY <1>1 DEF Settled
    <2>2. Shown(t, d)
      BY <2>1 DEF Inv, Settled
    <2>3. CASE d \in Elements(wire)
      BY <1>1, <1>2, <1>4, <2>3 DEF Shown, Coming
    <2>4. CASE d \notin Elements(wire)
      BY <1>1, <1>2, <1>3, <2>2, <2>4 DEF Shown, Coming
    <2>5. QED
      BY <2>3, <2>4
  <1>7. QED
    BY <1>5, <1>6

LEMMA ReconnectInv ==
  ASSUME Inv, Reconnect
  PROVE  Told' /\ Settled'
  <1>1. /\ bus' = "listening" /\ UNCHANGED <<db, wire, stream, again, queue, timer, loads, store, missed>>
        /\ \A t \in Tabs : stream[t] = "connecting" => blind'[t] = blind[t]
    BY DEF Reconnect, server, streams, Inv, Basics, Types
  <1>2. QED
    BY <1>1 DEF Inv, Told, Settled, Shown, Coming

LEMMA ConnectInv ==
  ASSUME Inv, NEW t \in Tabs, Connect(t)
  PROVE  Told' /\ Settled'
  <1>1. /\ stream[t] = "connecting"
        /\ stream' = [stream EXCEPT ![t] = "open"]
        /\ blind' = [blind EXCEPT ![t] = bus = "lost"]
        /\ IF again[t] THEN ReloadAllStores(t) ELSE UNCHANGED <<loads, missed>>
        /\ UNCHANGED <<db, bus, wire, again, queue, timer, store>>
    BY DEF Connect, server
  <1>2. /\ stream'[t] = "open" /\ blind'[t] = (bus = "lost")
        /\ \A u \in Tabs : u # t => /\ stream'[u] = stream[u] /\ loads'[u] = loads[u]
                                    /\ blind'[u] = blind[u] /\ missed'[u] = missed[u]
        /\ again[t] => \A b \in Tables : loads'[t][b] # <<>>
                                         /\ loads'[t][b][Len(loads'[t][b])] = Asked
    BY <1>1, ReloadLoads DEF Inv, Basics, Types
  <1>3. Told'
    BY <1>1, <1>2 DEF Inv, Told
  <1>4. Settled'
    <2>1. SUFFICES ASSUME NEW u \in Tabs, NEW d \in db, d.tab # u
                   PROVE  Shown(u, d)'
      BY <1>1 DEF Settled
    <2>2. Shown(u, d) /\ d \in Change /\ d.table \in Tables
      BY <2>1 DEF Inv, Settled, Basics, Types, Change
    <2>3. CASE u = t /\ again[t]
      BY <1>2, <2>2, <2>3 DEF Shown, Coming
    <2>4. CASE u = t /\ ~again[t]
      BY <1>1, <2>2, <2>4 DEF Shown, Coming
    <2>5. CASE u # t
      BY <1>1, <1>2, <2>2, <2>5 DEF Shown, Coming
    <2>6. QED
      BY <2>3, <2>4, <2>5
  <1>5. QED
    BY <1>3, <1>4

\* A tab that has lost its stream will reload all of its stores.
LEMMA LoseInv ==
  ASSUME Inv, NEW t \in Tabs, Lose(t), UNCHANGED <<db, bus, wire, timer, loads, store>>
  PROVE  Told' /\ Settled'
  <1>1. /\ stream'[t] = "connecting" /\ again'[t] = TRUE
        /\ \A u \in Tabs : u # t => /\ stream'[u] = stream[u] /\ again'[u] = again[u]
                                    /\ queue'[u] = queue[u] /\ blind'[u] = blind[u]
                                    /\ missed'[u] = missed[u]
    BY DEF Inv, Basics, Types, Lose
  <1>2. Told'
    BY <1>1 DEF Inv, Told
  <1>3. Settled'
    <2>1. SUFFICES ASSUME NEW u \in Tabs, NEW d \in db, d.tab # u
                   PROVE  Shown(u, d)'
      BY DEF Settled
    <2>2. Shown(u, d)
      BY <2>1 DEF Inv, Settled
    <2>3. CASE u = t
      BY <1>1, <2>3 DEF Shown, Coming
    <2>4. CASE u # t
      BY <1>1, <2>2, <2>4 DEF Shown, Coming
    <2>5. QED
      BY <2>3, <2>4
  <1>4. QED
    BY <1>2, <1>3

LEMMA ReadEventInv ==
  ASSUME Inv, NEW t \in Tabs, ReadEvent(t)
  PROVE  Told' /\ Settled'
  <1> DEFINE c == Head(queue[t])
  <1>1. /\ queue[t] \in Seq(Change \cup {Sentinel}) /\ queue[t] # <<>> /\ c # Sentinel
        /\ queue' = [queue EXCEPT ![t] = Tail(queue[t])]
        /\ timer' = (IF c.tab = t THEN timer ELSE [timer EXCEPT ![t] = timer[t] \cup {c.table}])
        /\ UNCHANGED <<db, bus, wire, stream, again, loads, store, blind, missed>>
    BY DEF Inv, Basics, Types, ReadEvent, Own, server, history
  <1>2. Elements(queue[t]) = {c} \cup Elements(Tail(queue[t]))
    BY <1>1, HeadAndTail
  <1>3. /\ Elements(queue[t]) = {c} \cup Elements(queue'[t])
        /\ \A u \in Tabs : u # t => queue'[u] = queue[u]
    BY <1>1, <1>2 DEF Inv, Basics, Types
  <1>4. /\ \A u \in Tabs : timer[u] \subseteq timer'[u]
        /\ c.tab # t => c.table \in timer'[t]
    BY <1>1 DEF Inv, Basics, Types
  <1> HIDE DEF c
  <1>5. Told'
    BY <1>1, <1>3 DEF Inv, Told
  <1>6. Settled'
    <2>1. SUFFICES ASSUME NEW u \in Tabs, NEW d \in db, d.tab # u
                   PROVE  Shown(u, d)'
      BY <1>1 DEF Settled
    <2>2. Shown(u, d)
      BY <2>1 DEF Inv, Settled
    <2>3. CASE u = t
      BY <1>1, <1>3, <1>4, <2>1, <2>2, <2>3 DEF Shown, Coming
    <2>4. CASE u # t
      BY <1>1, <1>3, <1>4, <2>2, <2>4 DEF Shown, Coming
    <2>5. QED
      BY <2>3, <2>4
  <1>7. QED
    BY <1>5, <1>6

\* What the server reads for the last load has every change that is committed.
LEMMA ReadTableInv ==
  ASSUME Inv, NEW t \in Tabs, NEW b \in Tables, NEW i \in Loads, ReadTable(t, b, i)
  PROVE  Told' /\ Settled'
  <1> DEFINE read == {c \in db : c.table = b}
             l == loads[t][b]
  <1>1. /\ i \in DOMAIN l /\ l[i] = Asked
        /\ loads' = [loads EXCEPT ![t][b][i] = read]
        /\ UNCHANGED <<db, bus, wire, stream, again, queue, timer, store, blind, missed>>
    BY DEF ReadTable, server, streams, history
  <1>2. loads \in [Tabs -> [Tables -> Seq(Load)]] /\ l \in Seq(Load)
    BY DEF Inv, Basics, Types
  <1>3. /\ \A u \in Tabs, d \in Tables : u # t \/ d # b => loads'[u][d] = loads[u][d]
        /\ loads'[t][b] = [l EXCEPT ![i] = read]
    BY <1>1, <1>2
  <1>4. /\ loads'[t][b] # <<>> /\ Len(loads'[t][b]) = Len(l) /\ l # <<>>
        /\ loads'[t][b][Len(l)] = IF i = Len(l) THEN read ELSE l[Len(l)]
    <2> HIDE DEF l, read
    <2>1. Len(l) \in DOMAIN l /\ l # <<>>
      BY <1>1, <1>2
    <2>2. DOMAIN loads'[t][b] = DOMAIN l /\ Len(loads'[t][b]) = Len(l)
      BY <1>2, <1>3
    <2>3. QED
      BY <1>1, <1>3, <2>1, <2>2
  <1>5. \A d \in db : d.table = b => d \in read
    OBVIOUS
  <1> HIDE DEF read, l
  <1>6. Told'
    BY <1>1 DEF Inv, Told
  <1>7. Settled'
    <2>1. SUFFICES ASSUME NEW u \in Tabs, NEW d \in db, d.tab # u
                   PROVE  Shown(u, d)'
      BY <1>1 DEF Settled
    <2>2. Shown(u, d) /\ d.table \in Tables
      BY <2>1 DEF Inv, Settled, Basics, Types, Change
    <2>3. CASE u = t /\ d.table = b
      BY <1>1, <1>4, <1>5, <2>2, <2>3 DEF Shown, Coming, l
    <2>4. CASE u # t \/ d.table # b
      BY <1>1, <1>3, <2>2, <2>4 DEF Shown, Coming
    <2>5. QED
      BY <2>3, <2>4
  <1>8. QED
    BY <1>6, <1>7

\* What an answer takes back is missed, unless a later load brings it again.
LEMMA ArriveInv ==
  ASSUME Inv, NEW t \in Tabs, NEW b \in Tables, NEW i \in Loads, Arrive(t, b, i)
  PROVE  Told' /\ Settled'
  <1> DEFINE l == loads[t][b]
             k == loads'[t][b]
  <1>1. /\ i \in DOMAIN l /\ l[i] # Asked
        /\ store' = [store EXCEPT ![t] = {c \in store[t] : c.table # b} \cup l[i]]
        /\ loads' = [loads EXCEPT ![t][b] = Without(l, i)]
        /\ Miss(t, (Others(t, b) \cap store[t]) \ l[i])
        /\ UNCHANGED <<db, bus, wire, stream, again, queue, timer, blind>>
    BY DEF Arrive, server, streams
  <1>2. loads \in [Tabs -> [Tables -> Seq(Load)]] /\ l \in Seq(Load)
    BY DEF Inv, Basics, Types
  <1>3. /\ \A u \in Tabs, d \in Tables : u # t \/ d # b => loads'[u][d] = loads[u][d]
        /\ k = Without(l, i)
    BY <1>1, <1>2
  <1>4. i # Len(l) => k # <<>> /\ k[Len(k)] = l[Len(l)]
    <2> HIDE DEF l, k
    <2>1. QED
      BY <1>1, <1>2, <1>3, ArrivedLoad
  <1>5. /\ \A u \in Tabs : u # t => store'[u] = store[u]
        /\ store'[t] = {c \in store[t] : c.table # b} \cup l[i]
    BY <1>1 DEF Inv, Basics, Types
  <1>6. /\ \A u \in Tabs : missed[u] \subseteq missed'[u]
        /\ \A d \in db : d.tab # t /\ d.table = b /\ d \in store[t] => d \in l[i] \/ d \in missed'[t]
    <2>1. (Others(t, b) \cap store[t]) \ l[i] \in SUBSET Change
      BY DEF Others, Inv, Basics, Types
    <2>2. /\ \A u \in Tabs : missed[u] \subseteq missed'[u]
          /\ (Others(t, b) \cap store[t]) \ l[i] \subseteq missed'[t]
      BY <1>1, <2>1, MissTypes DEF Inv, Basics
    <2>3. QED
      BY <2>2 DEF Others
  <1>7. Told'
    BY <1>1 DEF Inv, Told
  <1> HIDE DEF l, k
  <1>8. Settled'
    <2>1. SUFFICES ASSUME NEW u \in Tabs, NEW d \in db, d.tab # u
                   PROVE  Shown(u, d)'
      BY <1>1 DEF Settled
    <2>2. Shown(u, d) /\ d.table \in Tables
      BY <2>1 DEF Inv, Settled, Basics, Types, Change
    <2>3. CASE u = t /\ d.table = b /\ d \in store[t]
      BY <1>5, <1>6, <2>1, <2>3 DEF Shown
    <2>4. CASE u = t /\ d.table = b /\ d \notin store[t]
      <3>1. CASE l # <<>> /\ (l[Len(l)] = Asked \/ d \in l[Len(l)])
        <4>1. CASE i = Len(l)
          BY <1>1, <1>5, <2>4, <3>1, <4>1 DEF Shown
        <4>2. CASE i # Len(l)
          BY <1>4, <2>4, <3>1, <4>2 DEF Shown, Coming, k
        <4>3. QED
          BY <4>1, <4>2
      <3>2. CASE ~(l # <<>> /\ (l[Len(l)] = Asked \/ d \in l[Len(l)]))
        BY <1>1, <1>6, <2>2, <2>4, <3>2 DEF Shown, Coming, l
      <3>3. QED
        BY <3>1, <3>2
    <2>5. CASE u = t /\ d.table # b
      BY <1>1, <1>3, <1>5, <1>6, <2>2, <2>5 DEF Shown, Coming
    <2>6. CASE u # t
      BY <1>1, <1>3, <1>5, <1>6, <2>2, <2>6 DEF Shown, Coming
    <2>7. QED
      BY <2>3, <2>4, <2>5, <2>6
  <1>9. QED
    BY <1>7, <1>8

LEMMA LoadFailsInv ==
  ASSUME Inv, NEW t \in Tabs, NEW b \in Tables, NEW i \in Loads, LoadFails(t, b, i)
  PROVE  Told' /\ Settled'
  <1> DEFINE l == loads[t][b]
             k == loads'[t][b]
             C == IF i = Len(l) THEN Others(t, b) ELSE {}
  <1>1. /\ i \in DOMAIN l
        /\ loads' = [loads EXCEPT ![t][b] = Without(l, i)]
        /\ Miss(t, C)
        /\ UNCHANGED <<db, bus, wire, stream, again, queue, timer, store, blind>>
    BY DEF LoadFails, server, streams
  <1>2. loads \in [Tabs -> [Tables -> Seq(Load)]] /\ l \in Seq(Load)
    BY DEF Inv, Basics, Types
  <1>3. /\ \A u \in Tabs, d \in Tables : u # t \/ d # b => loads'[u][d] = loads[u][d]
        /\ k = Without(l, i)
    BY <1>1, <1>2
  <1>4. i # Len(l) => k # <<>> /\ k[Len(k)] = l[Len(l)]
    <2> HIDE DEF l, k, C
    <2>1. QED
      BY <1>1, <1>2, <1>3, ArrivedLoad
  <1>5. /\ \A u \in Tabs : missed[u] \subseteq missed'[u]
        /\ i = Len(l) => \A d \in db : d.tab # t /\ d.table = b => d \in missed'[t]
    <2>1. C \in SUBSET Change
      BY DEF Others, Inv, Basics, Types
    <2>2. /\ \A u \in Tabs : missed[u] \subseteq missed'[u]
          /\ C \subseteq missed'[t]
      BY <1>1, <2>1, MissTypes DEF Inv, Basics
    <2>3. QED
      BY <2>2 DEF Others
  <1>6. Told'
    BY <1>1 DEF Inv, Told
  <1> HIDE DEF l, k, C
  <1>7. Settled'
    <2>1. SUFFICES ASSUME NEW u \in Tabs, NEW d \in db, d.tab # u
                   PROVE  Shown(u, d)'
      BY <1>1 DEF Settled
    <2>2. Shown(u, d) /\ d.table \in Tables
      BY <2>1 DEF Inv, Settled, Basics, Types, Change
    <2>3. CASE u = t /\ d.table = b /\ i = Len(l)
      BY <1>5, <2>1, <2>3 DEF Shown
    <2>4. CASE u = t /\ d.table = b /\ i # Len(l)
      BY <1>1, <1>4, <1>5, <2>2, <2>4 DEF Shown, Coming, k, l
    <2>5. CASE u # t \/ d.table # b
      BY <1>1, <1>3, <1>5, <2>2, <2>5 DEF Shown, Coming
    <2>6. QED
      BY <2>3, <2>4, <2>5
  <1>8. QED
    BY <1>6, <1>7

LEMMA InvStep ==
  ASSUME Inv, [Next]_vars
  PROVE  Inv'
  <1>1. Basics'
    BY BasicsStep DEF Inv
  <1>2. Told' /\ Settled'
    <2>1. CASE UNCHANGED vars
      BY <2>1 DEF vars, server, streams, history, Inv, Told, Settled, Shown, Coming
    <2>2. CASE \E t \in Tabs : TabStep(t)
      <3>1. PICK t \in Tabs : TabStep(t)
        BY <2>2
      <3>2. CASE ReadSentinel(t)
        BY <3>2, LoseInv DEF ReadSentinel, server
      <3>3. QED
        BY <3>1, <3>2, ConnectInv, ReadEventInv, FireInv, ReadTableInv, ArriveInv DEF TabStep
    <2>3. CASE \E t \in Tabs : Drop(t)
      BY <2>3, LoseInv DEF Drop, server
    <2>4. QED
      BY <2>1, <2>2, <2>3, MakeInv, CommitInv, AnswerInv, DispatchInv, ReconnectInv,
         ConnectionLostInv, LoadFailsInv DEF Next, ServerStep, Fault
  <1>3. QED
    BY <1>1, <1>2 DEF Inv

LEMMA InvShows == Inv => NothingLost
  BY DEF Inv, Settled, Shown, NothingLost, Unseen

\* However many changes, lost connections, lost streams, full queues and failed loads
\* there are, and in whatever order the tab and the bus come back: a committed change of
\* another that a tab does not show is on its way to it, or is one that missed records.
THEOREM NothingIsLost == Spec => []NothingLost
  <1>1. Init => Inv
    BY BasicsInit, InvInit DEF Inv
  <1>2. Inv /\ [Next]_vars => Inv'
    BY InvStep
  <1>3. QED
    BY <1>1, <1>2, InvShows, PTL DEF Spec
=============================================================================
