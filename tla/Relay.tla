------------------------------- MODULE Relay -------------------------------
(***************************************************************************)
(* The relay over its in-memory MessageStore                               *)
(* (services/mcp-relay/mcp_relay/server.py).  The server is one asyncio    *)
(* loop and no method of the store suspends except wait_for_new, so every  *)
(* call is one action and a long poll is a sequence of them: it registers  *)
(* on the channel's asyncio.Event, is woken or times out, and reads again. *)
(*                                                                         *)
(* An id stands for the message's UUID and its timestamp, which one        *)
(* process hands out in ascending order.                                   *)
(***************************************************************************)
EXTENDS Naturals, Sequences, FiniteSets

CONSTANTS Channels,
          Senders,        \* OAuth client ids
          Waiters,        \* wait_for_message calls in flight
          Pagers,         \* clients that page through a channel
          Limits,         \* the limits pagers ask for
          MaxReadLimit,   \* MAX_READ_LIMIT
          MaxPerChannel, MaxChannels,
          MaxSends,       \* bound: messages sent in a behaviour
          None

Message == [id : 1..MaxSends, sender : Senders]

ASSUME RelayAssumption ==
    /\ Limits \subseteq Nat
    /\ {MaxReadLimit, MaxPerChannel, MaxChannels, MaxSends} \subseteq Nat \ {0}
    /\ None \notin Channels \cup Seq(Message)

VARIABLES channel,   \* _channels: a deque per channel
          sent,      \* the number of messages sent so far
          waiter,    \* each long poll, and whether its Event is still the channel's
          pager      \* what each pager was shown

vars == <<channel, sent, waiter, pager>>

Log == INSTANCE ChannelLog WITH log <- channel, Messages <- Message

NoWait == [pc |-> "idle", channel |-> None, since |-> 0]
NoPage == [channel |-> None, forward |-> TRUE, limit |-> 0, page |-> <<>>, shown |-> {}]

TypeOK ==
    /\ \A c \in Log!Open : /\ channel[c] \in Seq(Message)
                           /\ Len(channel[c]) <= MaxPerChannel
    /\ Cardinality(Log!Open) <= MaxChannels
    /\ sent \in 0..MaxSends
    /\ waiter \in [Waiters -> [pc : {"idle", "waiting", "stranded", "woken"},
                               channel : Channels \cup {None},
                               since : 0..MaxSends]]
    /\ \A p \in Pagers : /\ pager[p].channel \in Channels \cup {None}
                         /\ pager[p].limit \in Limits \cup {0}
                         /\ pager[p].shown \subseteq 1..MaxSends

-----------------------------------------------------------------------------
Init == /\ channel = [c \in Channels |-> None]
        /\ sent = 0
        /\ waiter = [w \in Waiters |-> NoWait]
        /\ pager = [p \in Pagers |-> NoPage]

\* Python's s[:n] and s[-n:]; the second is all of s when n is 0.
FirstOf(n, s) == SubSeq(s, 1, IF n < Len(s) THEN n ELSE Len(s))
LastOf(n, s)  == IF n = 0 \/ n >= Len(s) THEN s ELSE SubSeq(s, Len(s) - n + 1, Len(s))

Held(c) == IF channel[c] = None THEN <<>> ELSE channel[c]

News(c, since) == {m \in Log!Content(Held(c)) : m.id > since}

\* Mistakes: the Event is replaced before it is set; one channel too many; a
\* deque that holds one message too few.
SetNextEvent(c, pc) == waiter' = waiter
MayOpenOneMore == Cardinality(Log!Open) <= MaxChannels
StoredOneFewer(s, m) == Log!Newest(MaxPerChannel - 1, Append(s, m))

SetEvent(c, pc) ==
    waiter' = [w \in Waiters |->
                 IF waiter[w].pc = "waiting" /\ waiter[w].channel = c
                 THEN [waiter[w] EXCEPT !.pc = pc] ELSE waiter[w]]

MayOpen == Cardinality(Log!Open) < MaxChannels
Stored(s, m) == Log!Newest(MaxPerChannel, Append(s, m))

\* MessageStore.add: the deque, the message, and every waiter woken.
Send(c, s) ==
    LET m == [id |-> sent + 1, sender |-> s] IN
    /\ sent < MaxSends
    /\ channel[c] = None => MayOpen
    /\ channel' = [channel EXCEPT ![c] = Stored(Held(c), m)]
    /\ sent' = sent + 1
    /\ SetEvent(c, "woken")
    /\ UNCHANGED pager

\* A channel that is not there stays so.
Clear(c) ==
    /\ channel' = [channel EXCEPT ![c] = IF channel[c] = None THEN None ELSE <<>>]
    /\ UNCHANGED <<sent, waiter, pager>>

\* The Event is popped, not set: those who wait on it are never woken.
DeleteChannel(c) ==
    /\ channel[c] # None
    /\ channel' = [channel EXCEPT ![c] = None]
    /\ SetEvent(c, "stranded")
    /\ UNCHANGED <<sent, pager>>

\* The deque is rebuilt without the message with the id, for its sender only.  No two
\* have one id: it is the message in one place.
DeleteMessage(c, s, i) ==
    /\ i \in DOMAIN Held(c)
    /\ channel[c][i].sender = s
    /\ channel' = [channel EXCEPT ![c] = Log!Without(channel[c], i)]
    /\ UNCHANGED <<sent, waiter, pager>>

-----------------------------------------------------------------------------
(***************************************************************************)
(* wait_for_new.  A call that finds news at once returns and changes       *)
(* nothing; the others wait.                                               *)
(***************************************************************************)
Wait(w, c, since) ==
    /\ waiter[w].pc = "idle"
    /\ since <= sent
    /\ News(c, since) = {}
    /\ waiter' = [waiter EXCEPT ![w] = [pc |-> "waiting", channel |-> c,
                                        since |-> since]]
    /\ UNCHANGED <<channel, sent, pager>>

Return(w) == waiter' = [waiter EXCEPT ![w] = NoWait] /\ UNCHANGED <<channel, sent, pager>>

Woken(w) == waiter[w].pc = "woken" /\ Return(w)

\* The timer may also fire between set() and the task's next turn.
TimeOut(w) == waiter[w].pc # "idle" /\ Return(w)

-----------------------------------------------------------------------------
(***************************************************************************)
(* read_messages, page after page: forwards from the oldest page with      *)
(* after = the last id shown, backwards from the newest with before = the  *)
(* first.  A cursor that is gone is an error and ends the paging.          *)
(***************************************************************************)
Capped(limit) == IF limit < MaxReadLimit THEN limit ELSE MaxReadLimit

\* A mistake: the cursor's page is cut as sort_order 'desc' cuts it.
PageOfNewest(forward, limit, s) == LastOf(Capped(limit), s)

Page(forward, limit, s) ==
    IF forward THEN FirstOf(Capped(limit), s) ELSE LastOf(Capped(limit), s)

\* Strictly after or before the cursor.
Beyond(forward, cursor, s) ==
    LET at == CHOOSE i \in DOMAIN s : s[i].id = cursor
    IN IF forward THEN SubSeq(s, at + 1, Len(s)) ELSE SubSeq(s, 1, at - 1)

Ids(s) == {m.id : m \in Log!Content(s)}

Show(p, c, forward, limit, page) ==
    /\ pager' = [pager EXCEPT ![p] =
                   [channel |-> c, forward |-> forward, limit |-> limit,
                    page |-> page, shown |-> pager[p].shown \cup Ids(page)]]
    /\ UNCHANGED <<channel, sent, waiter>>

StartPaging(p, c, forward, limit) ==
    /\ pager[p].channel = None
    /\ channel[c] # None
    /\ Show(p, c, forward, limit, Page(forward, limit, channel[c]))

Cursor(p) == LET page == pager[p].page
             IN IF pager[p].forward THEN page[Len(page)].id ELSE page[1].id

NextPage(p) ==
    LET r == pager[p]
        s == Held(r.channel)
    IN /\ r.page # <<>>
       /\ Cursor(p) \in Ids(s)
       /\ Show(p, r.channel, r.forward, r.limit,
               Page(r.forward, r.limit, Beyond(r.forward, Cursor(p), s)))

StopPaging(p) ==
    /\ pager[p].channel # None
    /\ pager' = [pager EXCEPT ![p] = NoPage]
    /\ UNCHANGED <<channel, sent, waiter>>

-----------------------------------------------------------------------------
Next ==
    \/ \E c \in Channels :
         \/ \E s \in Senders : \/ Send(c, s)
                               \/ \E i \in 1..MaxPerChannel : DeleteMessage(c, s, i)
         \/ Clear(c) \/ DeleteChannel(c)
         \/ \E w \in Waiters, since \in 0..MaxSends : Wait(w, c, since)
         \/ \E p \in Pagers, forward \in BOOLEAN, limit \in Limits :
              StartPaging(p, c, forward, limit)
    \/ \E w \in Waiters : Woken(w) \/ TimeOut(w)
    \/ \E p \in Pagers : NextPage(p) \/ StopPaging(p)

Spec == Init /\ [][Next]_vars

-----------------------------------------------------------------------------
(***************************************************************************)
(* Properties.                                                             *)
(***************************************************************************)

\* The in-memory store implements the log: no call loses, reorders or
\* resurrects another's message, and the two maxima hold.
ImplementsLog == Log!Spec

\* A long poll that waits on its channel's Event has nothing to return: no
\* message newer than it asked for came between its check and its wait, and
\* every later one wakes it.  Of those on the Event of a deleted channel this
\* does not hold.
AttachedMissNothing ==
    \A w \in Waiters : waiter[w].pc = "waiting" =>
        News(waiter[w].channel, waiter[w].since) = {}

\* Pages leave no gap: a message that is still in the channel and lies between
\* two that the pager was shown was shown too, whatever was sent, evicted and
\* deleted between the pages.
PagesLeaveNoGap ==
    \A p \in Pagers : pager[p].channel # None =>
        \A id \in Ids(Held(pager[p].channel)) :
            (\E a, b \in pager[p].shown : a < id /\ id < b) => id \in pager[p].shown
=============================================================================
