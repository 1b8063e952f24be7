----------------------------- MODULE RedisRelay -----------------------------
(***************************************************************************)
(* The relay over RedisMessageStore                                        *)
(* (services/mcp-relay/mcp_relay/redis_store.py).  Every call to Redis is  *)
(* atomic there and an await here, so that the calls of concurrent tasks   *)
(* interleave between any two of them.  A pipeline is a MULTI/EXEC and one *)
(* action.  The first Redis call of an operation is also its beginning.    *)
(***************************************************************************)
EXTENDS Naturals, Sequences, FiniteSets

CONSTANTS Channels,
          Tasks,          \* clients: each does one operation at a time
          Kept,           \* channels whose clients only send and clear
          MaxPerChannel, MaxChannels,
          MaxSends,       \* bound: messages sent in a behaviour
          None            \* no channel, no message, no list

Message == [id : 1..MaxSends, sender : Tasks]

ASSUME RedisAssumption ==
    /\ Kept \subseteq Channels
    /\ None \notin Channels \cup Seq(Message)
    /\ {MaxPerChannel, MaxChannels, MaxSends} \subseteq Nat \ {0}

VARIABLES members,   \* the SET relay:channels
          list,      \* the LISTs relay:channel:<name>; an empty one is no key
          sent,      \* the number of messages created so far
          task       \* where each task is and what it holds

vars == <<members, list, sent, task>>

Idle == [pc |-> "idle", channel |-> None, msg |-> None, read |-> <<>>, since |-> 0]

Trimmed(s) == IF Len(s) <= MaxPerChannel THEN s
              ELSE SubSeq(s, Len(s) - MaxPerChannel + 1, Len(s))

Log == INSTANCE ChannelLog WITH
          Channels <- Kept, Messages <- Message,
          log <- [c \in Kept |-> IF c \in members THEN Trimmed(list[c])
                                 ELSE None]

-----------------------------------------------------------------------------
Init == /\ members = {}
        /\ list = [c \in Channels |-> <<>>]
        /\ sent = 0
        /\ task = [t \in Tasks |-> Idle]

At(t, pc) == task[t].pc = pc

Begin(t, c, pc) ==
    /\ At(t, "idle")
    /\ task' = [task EXCEPT ![t] = [Idle EXCEPT !.pc = pc, !.channel = c]]

\* SISMEMBER: an operation on a channel that is not there is over at once.
BeginIfMember(t, c, pc) ==
    IF c \in members THEN Begin(t, c, pc) ELSE At(t, "idle") /\ UNCHANGED task

Go(t, pc) == task' = [task EXCEPT ![t].pc = pc]

Done(t) == task' = [task EXCEPT ![t] = Idle]

Store == <<members, list>>

-----------------------------------------------------------------------------
(***************************************************************************)
(* add: SISMEMBER, then SCARD and SADD for a new channel, RPUSH, LTRIM and *)
(* the signal to the long polls of this process.                           *)
(***************************************************************************)
\* Bound: every send that begins has an id left to take.
MaySend == sent + Cardinality({t \in Tasks : task[t].pc \in {"count", "sadd", "create"}})
             < MaxSends

AddFindsChannel(t, c) ==
    /\ MaySend
    /\ Begin(t, c, IF c \in members THEN "create" ELSE "count")
    /\ UNCHANGED <<Store, sent>>

CountChannels(t) ==
    /\ At(t, "count")
    /\ IF Cardinality(members) >= MaxChannels THEN Done(t) ELSE Go(t, "sadd")
    /\ UNCHANGED <<Store, sent>>

AddChannel(t) ==
    /\ At(t, "sadd")
    /\ members' = members \cup {task[t].channel}
    /\ Go(t, "create")
    /\ UNCHANGED <<list, sent>>

\* The id and the timestamp are taken before the RPUSH is sent.
CreateMessage(t) ==
    /\ At(t, "create")
    /\ sent' = sent + 1
    /\ task' = [task EXCEPT ![t].pc = "push",
                            ![t].msg = [id |-> sent + 1, sender |-> t]]
    /\ UNCHANGED Store

\* Mistakes: LPUSH; an LTRIM that keeps one message too few.
PushLeft(s, m) == <<m>> \o s

TrimOneMore(t) ==
    LET c == task[t].channel
        s == Trimmed(list[c])
    IN /\ At(t, "trim")
       /\ list' = [list EXCEPT ![c] = IF Len(s) < MaxPerChannel THEN s ELSE Tail(s)]
       /\ Go(t, "signal")
       /\ UNCHANGED <<members, sent>>

PushRight(s, m) == Append(s, m)

Push(t) ==
    LET c == task[t].channel IN
    /\ At(t, "push")
    /\ list' = [list EXCEPT ![c] = PushRight(list[c], task[t].msg)]
    /\ Go(t, "trim")
    /\ UNCHANGED <<members, sent>>

Trim(t) ==
    LET c == task[t].channel IN
    /\ At(t, "trim")
    /\ list' = [list EXCEPT ![c] = Trimmed(list[c])]
    /\ Go(t, "signal")
    /\ UNCHANGED <<members, sent>>

\* The tasks that wait on the channel's Event go to pc, and t is done.
SetEvent(t, pc) ==
    task' = [s \in Tasks |->
               IF s = t THEN Idle
               ELSE IF task[s].pc = "waiting" /\ task[s].channel = task[t].channel
                    THEN [task[s] EXCEPT !.pc = pc] ELSE task[s]]

Signal(t) ==
    /\ At(t, "signal")
    /\ SetEvent(t, "woken")
    /\ UNCHANGED <<Store, sent>>

-----------------------------------------------------------------------------
(***************************************************************************)
(* clear, delete and delete_message.                                       *)
(***************************************************************************)
ClearFindsChannel(t, c) ==
    /\ BeginIfMember(t, c, "clear")
    /\ UNCHANGED <<Store, sent>>

Clear(t) ==
    /\ At(t, "clear")
    /\ list' = [list EXCEPT ![task[t].channel] = <<>>]
    /\ Done(t)
    /\ UNCHANGED <<members, sent>>

DeleteFindsChannel(t, c) ==
    /\ c \notin Kept
    /\ BeginIfMember(t, c, "del")
    /\ UNCHANGED <<Store, sent>>

DeleteList(t) ==
    /\ At(t, "del")
    /\ list' = [list EXCEPT ![task[t].channel] = <<>>]
    /\ Go(t, "srem")
    /\ UNCHANGED <<members, sent>>

DeleteMember(t) ==
    /\ At(t, "srem")
    /\ members' = members \ {task[t].channel}
    /\ Go(t, "pop")
    /\ UNCHANGED <<list, sent>>

\* The Event is popped, not set.
PopEvent(t) ==
    /\ At(t, "pop")
    /\ SetEvent(t, "stranded")
    /\ UNCHANGED <<Store, sent>>

DeleteMessageFindsChannel(t, c) ==
    /\ c \notin Kept
    /\ BeginIfMember(t, c, "find")
    /\ UNCHANGED <<Store, sent>>

\* LRANGE, and the check that the message is there and the caller sent it.
FindMessage(t, m) ==
    LET s == list[task[t].channel] IN
    /\ At(t, "find")
    /\ IF m.sender = t /\ \E i \in DOMAIN s : s[i] = m
       THEN task' = [task EXCEPT ![t].pc = "rewrite", ![t].msg = m, ![t].read = s]
       ELSE Done(t)
    /\ UNCHANGED <<Store, sent>>

\* MULTI, DEL, an RPUSH for every message read but this one, EXEC.
\* Ids are given out once, so that this is one place.
Rewrite(t) ==
    LET s == task[t].read IN
    /\ At(t, "rewrite")
    /\ \E i \in DOMAIN s :
         /\ s[i] = task[t].msg
         /\ list' = [list EXCEPT ![task[t].channel] = Log!Without(s, i)]
    /\ Done(t)
    /\ UNCHANGED <<members, sent>>

-----------------------------------------------------------------------------
(***************************************************************************)
(* wait_for_new: SISMEMBER, LRANGE, then the Event.                        *)
(***************************************************************************)
WaitFindsChannel(t, c, since) ==
    /\ At(t, "idle")
    /\ since <= sent
    /\ task' = [task EXCEPT ![t] = [Idle EXCEPT
                  !.pc = IF c \in members THEN "read" ELSE "register",
                  !.channel = c, !.since = since]]
    /\ UNCHANGED <<Store, sent>>

Read(t) ==
    /\ At(t, "read")
    /\ task' = [task EXCEPT ![t].pc = "register", ![t].read = list[task[t].channel]]
    /\ UNCHANGED <<Store, sent>>

News(s, since) == {i \in DOMAIN s : s[i].id > since}

Register(t) ==
    /\ At(t, "register")
    /\ IF News(task[t].read, task[t].since) = {} THEN Go(t, "waiting") ELSE Done(t)
    /\ UNCHANGED <<Store, sent>>

\* Woken, it reads once more and returns what it finds.
Woken(t) == At(t, "woken") /\ Done(t) /\ UNCHANGED <<Store, sent>>

TimeOut(t) ==
    /\ At(t, "waiting") \/ At(t, "stranded") \/ At(t, "woken")
    /\ Done(t)
    /\ UNCHANGED <<Store, sent>>

-----------------------------------------------------------------------------
Next == \E t \in Tasks :
    \/ \E c \in Channels :
         \/ AddFindsChannel(t, c) \/ ClearFindsChannel(t, c)
         \/ DeleteFindsChannel(t, c) \/ DeleteMessageFindsChannel(t, c)
         \/ \E since \in 0..MaxSends : WaitFindsChannel(t, c, since)
    \/ CountChannels(t) \/ AddChannel(t) \/ CreateMessage(t)
    \/ Push(t) \/ Trim(t) \/ Signal(t)
    \/ Clear(t) \/ DeleteList(t) \/ DeleteMember(t) \/ PopEvent(t)
    \/ \E m \in Message : FindMessage(t, m)
    \/ Rewrite(t)
    \/ Read(t) \/ Register(t) \/ Woken(t) \/ TimeOut(t)

Spec == Init /\ [][Next]_vars

-----------------------------------------------------------------------------
(***************************************************************************)
(* Properties.                                                             *)
(***************************************************************************)

\* On channels whose clients send and clear, long polls beside them, the store
\* implements the log, whatever is deleted in others.  A message is in it from
\* its RPUSH on; the LTRIM that comes later, and after other messages, removes only
\* what the log has forgotten.
ImplementsLog == Log!KeepSpec

\* A channel never holds two messages of one sender out of the order in which
\* it sent them, nor one of them twice, whatever is deleted and written back.
SenderOrderKept ==
    \A c \in Channels : \A i, j \in DOMAIN list[c] :
        i < j /\ list[c][i].sender = list[c][j].sender
            => list[c][i].id < list[c][j].id
=============================================================================
