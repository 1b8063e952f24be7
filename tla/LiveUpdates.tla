---------------------------- MODULE LiveUpdates ----------------------------
(***************************************************************************)
(* Live updates: how a browser tab learns of a change.  A committed change *)
(* is a NOTIFY (alembic 0031) that the EventBus's own connection hears     *)
(* (services/event_bus.py), puts into the bounded queue of every open      *)
(* stream, which api/events.py sends to its tab (eventStream.ts).  The tab *)
(* reloads the changed table's store after a debounce (eventHandlers.ts),  *)
(* unless the change is its own: the answer to its request already updated *)
(* the store.  A tab that loses its stream reconnects and reloads.         *)
(*                                                                         *)
(* One user; a store is the set of the changes it shows.  Changes do get   *)
(* lost: blind and missed are history variables, which no step depends on, *)
(* and record what each tab is not told of and never asks for again.       *)
(***************************************************************************)
EXTENDS Naturals, Sequences, FiniteSets

CONSTANTS Tabs,       \* the tabs that are watched
          Authors,    \* who makes changes: tabs, and clients of the API
          Tables,
          Capacity,   \* the maxsize of a stream's queue
          Changes,    \* bound: changes in a behaviour
          Outages,    \* bound: lost connections of the bus
          Drops,      \* bound: lost or refused streams
          Failures,   \* bound: loads that fail
          Sentinel, Asked

ASSUME BoundAssumption == /\ Capacity \in Nat \ {0}
                          /\ {Changes, Outages, Drops, Failures} \subseteq Nat

Change == [id : 1..Changes, table : Tables, tab : Authors]

VARIABLES made,     \* the number of changes made so far
          pending,  \* changes answered and not yet committed
          reply,    \* answers on their way to the tab that asked
          db,       \* committed changes
          bus,      \* "listening" or "lost"
          wire,     \* notifications on their way to the bus
          faults,   \* outages, drops and failures so far
          stream,   \* per tab: "connecting" or "open"
          again,    \* per tab: reconnectAttempt > 0
          queue,    \* per tab: the asyncio.Queue of its stream
          timer,    \* per tab: tables with a pending debounce timer
          loads,    \* per tab and table: loads in flight, Asked until read
          store,    \* per tab: the changes its stores show
          blind,    \* per tab: nothing tells it what is committed now
          missed    \* per tab: changes nothing will tell it of any more

server == <<made, pending, reply, db>>
streams == <<stream, again, queue>>
history == <<blind, missed>>
vars == <<server, bus, wire, faults, streams, timer, loads, store, history>>

TypeOK ==
    /\ made \in 0..Changes
    /\ pending \cup reply \cup db \subseteq Change
    /\ pending \cap db = {}
    /\ bus \in {"listening", "lost"}
    /\ bus = "lost" => wire = <<>>
    /\ \A t \in Tabs : /\ Len(queue[t]) <= Capacity
                       /\ stream[t] = "connecting" => queue[t] = <<>>
                       /\ timer[t] \subseteq Tables
                       /\ store[t] \cup missed[t] \subseteq Change

Elements(s) == {s[i] : i \in DOMAIN s}

-----------------------------------------------------------------------------
\* A page that has just asked for its tables and for its stream.
Init ==
    /\ made = 0 /\ pending = {} /\ reply = {} /\ db = {}
    /\ bus = "listening" /\ wire = <<>>
    /\ faults = [outages |-> 0, drops |-> 0, failures |-> 0]
    /\ stream = [t \in Tabs |-> "connecting"]
    /\ again = [t \in Tabs |-> FALSE]
    /\ queue = [t \in Tabs |-> <<>>]
    /\ timer = [t \in Tabs |-> {}]
    /\ loads = [t \in Tabs |-> [b \in Tables |-> <<Asked>>]]
    /\ store = [t \in Tabs |-> {}]
    /\ blind = [t \in Tabs |-> TRUE]
    /\ missed = [t \in Tabs |-> {}]

-----------------------------------------------------------------------------
\* Nothing tells the tab what is announced now: its stream was opened while the
\* bus was lost, or its queue is full.
Deaf(t) == blind[t] \/ (stream[t] = "open" /\ Len(queue[t]) >= Capacity)

Miss(t, C) == missed' = [missed EXCEPT ![t] = missed[t] \cup C]

-----------------------------------------------------------------------------
(***************************************************************************)
(* A change.  The answer is sent when the handler returns, the transaction *)
(* commits when get_db resumes, after that; the trigger's NOTIFY goes out  *)
(* with the commit.                                                        *)
(***************************************************************************)
Make(tab, table) ==
    LET c == [id |-> made + 1, table |-> table, tab |-> tab] IN
    /\ made < Changes
    /\ made' = made + 1
    /\ pending' = pending \cup {c}
    /\ reply' = IF tab \in Tabs THEN reply \cup {c} ELSE reply
    /\ UNCHANGED <<db, bus, wire, faults, streams, timer, loads, store, history>>

Commit(c) ==
    /\ c \in pending
    /\ pending' = pending \ {c}
    /\ db' = db \cup {c}
    /\ wire' = IF bus = "listening" THEN Append(wire, c) ELSE wire
    /\ missed' = [t \in Tabs |-> IF bus = "lost" /\ blind[t] THEN missed[t] \cup {c}
                                 ELSE missed[t]]
    /\ UNCHANGED <<made, reply, bus, faults, streams, timer, loads, store, blind>>

\* What the table holds by now will be read.
Ask(t, table) ==
    /\ loads' = [loads EXCEPT ![t][table] = Append(loads[t][table], Asked)]
    /\ missed' = [missed EXCEPT ![t] = {c \in missed[t] : c.table # table}]

\* The store takes the change over, and the page loads its table again.
Answer(c) ==
    /\ c \in reply
    /\ reply' = reply \ {c}
    /\ store' = [store EXCEPT ![c.tab] = store[c.tab] \cup {c}]
    /\ Ask(c.tab, c.table)
    /\ UNCHANGED <<made, pending, db, bus, wire, faults, streams, timer, blind>>

-----------------------------------------------------------------------------
(***************************************************************************)
(* The EventBus.                                                           *)
(***************************************************************************)
\* put_nowait; QueueFull is logged or suppressed.
Put(q, e) == IF Len(q) < Capacity THEN Append(q, e) ELSE q

PutInOpen(e) == queue' = [t \in Tabs |-> IF stream[t] = "open" THEN Put(queue[t], e)
                                         ELSE queue[t]]

Dispatch ==
    /\ wire # <<>>
    /\ PutInOpen(Head(wire))
    /\ wire' = Tail(wire)
    /\ missed' = [t \in Tabs |-> IF Deaf(t) THEN missed[t] \cup {Head(wire)}
                                 ELSE missed[t]]
    /\ UNCHANGED <<server, bus, faults, stream, again, timer, loads, store, blind>>

\* A mistake: nobody is told that the connection is lost.
ConnectionLostQuietly ==
    /\ bus = "listening"
    /\ faults.outages < Outages
    /\ bus' = "lost"
    /\ wire' = <<>>
    /\ faults' = [faults EXCEPT !.outages = faults.outages + 1]
    /\ UNCHANGED <<server, streams, timer, loads, store, history>>

\* The sentinel does not get into a full queue either.
ConnectionLost ==
    /\ bus = "listening"
    /\ faults.outages < Outages
    /\ bus' = "lost"
    /\ wire' = <<>>
    /\ PutInOpen(Sentinel)
    /\ faults' = [faults EXCEPT !.outages = faults.outages + 1]
    /\ blind' = [t \in Tabs |-> Deaf(t)]
    /\ missed' = [t \in Tabs |-> IF Deaf(t) THEN missed[t] \cup Elements(wire)
                                 ELSE missed[t]]
    /\ UNCHANGED <<server, stream, again, timer, loads, store>>

\* _reconnect_loop: it retries until it succeeds, and tells nobody.
Reconnect ==
    /\ bus = "lost"
    /\ bus' = "listening"
    /\ blind' = [t \in Tabs |-> blind[t] /\ stream[t] = "connecting"]
    /\ UNCHANGED <<server, wire, faults, streams, timer, loads, store, missed>>

-----------------------------------------------------------------------------
(***************************************************************************)
(* The stream of a tab: subscribe and onopen, the events, the end.         *)
(***************************************************************************)
ReloadAllStores(t) ==
    /\ loads' = [loads EXCEPT ![t] = [b \in Tables |-> Append(loads[t][b], Asked)]]
    /\ missed' = [missed EXCEPT ![t] = {}]

\* A mistake: the stores are reloaded when the page's first stream opens only.
ConnectWithoutReload(t) ==
    /\ stream[t] = "connecting"
    /\ stream' = [stream EXCEPT ![t] = "open"]
    /\ IF again[t] THEN UNCHANGED <<loads, missed>> ELSE ReloadAllStores(t)
    /\ blind' = [blind EXCEPT ![t] = bus = "lost"]
    /\ UNCHANGED <<server, bus, wire, faults, again, queue, timer, store>>

\* Nothing makes the tab wait for the bus.
Connect(t) ==
    /\ stream[t] = "connecting"
    /\ stream' = [stream EXCEPT ![t] = "open"]
    /\ IF again[t] THEN ReloadAllStores(t) ELSE UNCHANGED <<loads, missed>>
    /\ blind' = [blind EXCEPT ![t] = bus = "lost"]
    /\ UNCHANGED <<server, bus, wire, faults, again, queue, timer, store>>

\* A mistake: the queue stays when its stream ends.
LoseKeepingQueue(t) == /\ stream' = [stream EXCEPT ![t] = "connecting"]
                       /\ again' = [again EXCEPT ![t] = TRUE]
                       /\ queue' = queue
                       /\ blind' = [blind EXCEPT ![t] = FALSE]
                       /\ missed' = [missed EXCEPT ![t] = {}]

\* onerror: the stream is closed and connect() called again after a delay; the
\* generator's queue goes with it.
Lose(t) == /\ stream' = [stream EXCEPT ![t] = "connecting"]
           /\ again' = [again EXCEPT ![t] = TRUE]
           /\ queue' = [queue EXCEPT ![t] = <<>>]
           /\ blind' = [blind EXCEPT ![t] = FALSE]
           /\ missed' = [missed EXCEPT ![t] = {}]

Drop(t) ==
    /\ faults.drops < Drops
    /\ Lose(t)
    /\ faults' = [faults EXCEPT !.drops = faults.drops + 1]
    /\ UNCHANGED <<server, bus, wire, timer, loads, store>>

\* The generator ends at the sentinel, and with it the stream.
ReadSentinel(t) ==
    /\ queue[t] # <<>>
    /\ Head(queue[t]) = Sentinel
    /\ Lose(t)
    /\ UNCHANGED <<server, bus, wire, faults, timer, loads, store>>

Own(t, c) == c.tab = t

\* handleChangeEvent: own changes are ignored, the others start the timer.
ReadEvent(t) ==
    LET c == Head(queue[t]) IN
    /\ queue[t] # <<>>
    /\ c # Sentinel
    /\ queue' = [queue EXCEPT ![t] = Tail(queue[t])]
    /\ timer' = IF Own(t, c) THEN timer
                ELSE [timer EXCEPT ![t] = timer[t] \cup {c.table}]
    /\ UNCHANGED <<server, bus, wire, faults, stream, again, loads, store, history>>

-----------------------------------------------------------------------------
(***************************************************************************)
(* The stores.                                                             *)
(***************************************************************************)
Fire(t, table) ==
    /\ table \in timer[t]
    /\ timer' = [timer EXCEPT ![t] = timer[t] \ {table}]
    /\ Ask(t, table)
    /\ UNCHANGED <<server, bus, wire, faults, streams, store, blind>>

\* The server reads the table.
ReadTable(t, table, i) ==
    /\ i \in DOMAIN loads[t][table]
    /\ loads[t][table][i] = Asked
    /\ loads' = [loads EXCEPT ![t][table][i] = {c \in db : c.table = table}]
    /\ UNCHANGED <<server, bus, wire, faults, streams, timer, store, history>>

Without(s, i) == SubSeq(s, 1, i - 1) \o SubSeq(s, i + 1, Len(s))

Others(t, table) == {c \in db : c.table = table /\ c.tab # t}

\* The answer replaces the store's contents, whatever was shown meanwhile: an
\* answer that another one overtook takes back what that one showed.
Arrive(t, table, i) ==
    LET l == loads[t][table] IN
    /\ i \in DOMAIN l
    /\ l[i] # Asked
    /\ store' = [store EXCEPT ![t] = {c \in store[t] : c.table # table} \cup l[i]]
    /\ loads' = [loads EXCEPT ![t][table] = Without(l, i)]
    /\ Miss(t, (Others(t, table) \cap store[t]) \ l[i])
    /\ UNCHANGED <<server, bus, wire, faults, streams, timer, blind>>

\* An error of the request, before or after the server read the table, is
\* swallowed, and nothing asks again.
LoadFails(t, table, i) ==
    LET l == loads[t][table] IN
    /\ faults.failures < Failures
    /\ i \in DOMAIN l
    /\ loads' = [loads EXCEPT ![t][table] = Without(l, i)]
    /\ faults' = [faults EXCEPT !.failures = faults.failures + 1]
    /\ Miss(t, IF i = Len(l) THEN Others(t, table) ELSE {})
    /\ UNCHANGED <<server, bus, wire, streams, timer, store, blind>>

-----------------------------------------------------------------------------
\* Bound: the loads of a table in flight, one for each thing that asks for one.
Loads == 1..(1 + Changes + Outages + Drops)

TabStep(t) ==
    \/ Connect(t) \/ ReadSentinel(t) \/ ReadEvent(t)
    \/ \E table \in Tables :
         \/ Fire(t, table)
         \/ \E i \in Loads : ReadTable(t, table, i) \/ Arrive(t, table, i)

ServerStep == Dispatch \/ Reconnect \/ \E c \in Change : Commit(c) \/ Answer(c)

Fault ==
    \/ ConnectionLost
    \/ \E t \in Tabs : \/ Drop(t)
                      \/ \E table \in Tables, i \in Loads : LoadFails(t, table, i)

Next ==
    \/ \E tab \in Authors, table \in Tables : Make(tab, table)
    \/ ServerStep
    \/ \E t \in Tabs : TabStep(t)
    \/ Fault

\* Requests are finished, the bus retries for ever, a tab's timers and its
\* reconnection do too: none of them waits for ever once it can act.
Fairness == /\ WF_vars(ServerStep)
            /\ \A t \in Tabs : WF_vars(TabStep(t))

Spec == Init /\ [][Next]_vars
FairSpec == Spec /\ Fairness

-----------------------------------------------------------------------------
(***************************************************************************)
(* Properties.                                                             *)
(***************************************************************************)

\* A change another made that a tab does not show is on its way to it: on the
\* wire, in the queue, behind a timer, a load or a reload to come.
Coming(t, c) ==
    LET l == loads[t][c.table] IN
    \/ stream[t] = "connecting" /\ again[t]
    \/ c \in Elements(wire) \cup Elements(queue[t])
    \/ Sentinel \in Elements(queue[t])
    \/ c.table \in timer[t]
    \/ l # <<>> /\ (l[Len(l)] = Asked \/ c \in l[Len(l)])

Unseen(t) == {c \in db : c.tab # t} \ store[t]

\* A change of another that a tab does not show is on its way to it, unless since
\* the tab last asked for the table or lost its stream one of four things
\* happened: it was announced while the tab's stream was not heard (opened before
\* the bus was back, or not opened at all), or to a full queue, an older answer
\* took it back, or the last load of the table failed.  That a tab reloads "to catch
\* missed events" (eventStream.ts) does not help it if it reconnects before the bus.
NothingLost == \A t \in Tabs : \A c \in Unseen(t) : Coming(t, c) \/ c \in missed[t]

\* When the changes and the faults have ended, every tab shows in the end what
\* others changed, however often its stream and the bus were lost meanwhile,
\* except what it missed for good in one of those four ways.
ShownInTheEnd == <>[](\A t \in Tabs : Unseen(t) \subseteq missed[t])
=============================================================================
