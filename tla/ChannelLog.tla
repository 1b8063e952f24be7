----------------------------- MODULE ChannelLog -----------------------------
(***************************************************************************)
(* What a message store of services/mcp-relay promises, whichever backend  *)
(* create_store chooses: for each channel a log that keeps the order in    *)
(* which messages were sent and forgets the oldest beyond a maximum, from  *)
(* which nothing else disappears but what a client asks to remove.         *)
(* Relay (in memory) and RedisRelay are shown to implement it.             *)
(***************************************************************************)
EXTENDS Naturals, Sequences, FiniteSets

CONSTANTS Channels,       \* channel names
          Messages,
          MaxPerChannel,  \* MAX_MESSAGES_PER_CHANNEL
          MaxChannels,    \* MAX_CHANNELS
          None            \* the log of a channel that does not exist

VARIABLE log

Open == {c \in Channels : log[c] # None}

\* The k newest messages of s, as a deque of that length or LTRIM keeps them.
Newest(k, s) == IF Len(s) <= k THEN s ELSE SubSeq(s, Len(s) - k + 1, Len(s))

Without(s, i) == SubSeq(s, 1, i - 1) \o SubSeq(s, i + 1, Len(s))

Content(s) == {s[i] : i \in DOMAIN s}

-----------------------------------------------------------------------------
Init == log = [c \in Channels |-> None]

\* A channel comes into being with its first message or just before it.
Create(c, s) ==
    /\ c \notin Open
    /\ Cardinality(Open) < MaxChannels
    /\ log' = [log EXCEPT ![c] = s]

Post(c, m) ==
    /\ c \in Open
    /\ m \notin Content(log[c])
    /\ log' = [log EXCEPT ![c] = Newest(MaxPerChannel, Append(log[c], m))]

Remove(c) == c \in Open /\ \E i \in DOMAIN log[c] : log' = [log EXCEPT ![c] = Without(log[c], i)]

Clear(c) == c \in Open /\ log' = [log EXCEPT ![c] = <<>>]

Delete(c) == c \in Open /\ log' = [log EXCEPT ![c] = None]

Send(c) == \/ Create(c, <<>>)
           \/ \E m \in Messages : Create(c, <<m>>) \/ Post(c, m)

Next == \E c \in Channels : Send(c) \/ Remove(c) \/ Clear(c) \/ Delete(c)

Spec == Init /\ [][Next]_log

\* The log when no client deletes a message or a channel.
KeepSpec == Init /\ [][\E c \in Channels : Send(c) \/ Clear(c)]_log
=============================================================================
