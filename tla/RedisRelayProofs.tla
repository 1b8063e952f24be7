-------------------------- MODULE RedisRelayProofs --------------------------
(***************************************************************************)
(* Theorems about RedisRelay for any channels and clients, any limits and  *)
(* any number of messages: the order of each sender's messages, and that   *)
(* the store implements the log of ChannelLog on the channels whose        *)
(* clients only send and clear.                                            *)
(***************************************************************************)
EXTENDS RedisRelay, FiniteSetTheorems, TLAPS

Place == {"idle", "count", "sadd", "create", "push", "trim", "signal", "clear", "del", "srem",
          "pop", "find", "rewrite", "read", "register", "waiting", "woken", "stranded"}

Task == [pc : Place, channel : Channels \cup {None}, msg : Message \cup {None},
         read : Seq(Message), since : Nat]

Types == /\ members \subseteq Channels
         /\ list \in [Channels -> Seq(Message)]
         /\ sent \in Nat
         /\ task \in [Tasks -> Task]

\* The steps of delete and delete_message, and those of a send that has its channel.
Deleting == {"del", "srem", "pop", "find", "rewrite"}
Opened == {"create", "push", "trim", "signal"}

Busy(t) ==
    LET q == task[t] IN
    /\ q.pc # "idle" => q.channel \in Channels
    /\ q.pc = "push" => q.msg \in Message /\ q.msg.sender = t /\ q.msg.id <= sent
    /\ q.pc \in Deleting => q.channel \notin Kept
    /\ q.pc \in Opened /\ q.channel \in Kept => q.channel \in members

\* The sends that have no id yet, each of which has one left to take.
Adding == {t \in Tasks : task[t].pc \in {"count", "sadd", "create"}}

IdsLeft == IsFiniteSet(Adding) /\ sent + Cardinality(Adding) <= MaxSends

Ordered(s) == \A i, j \in DOMAIN s : i < j /\ s[i].sender = s[j].sender => s[i].id < s[j].id

\* A list, or a copy that a client has read and may write back: in order, and without a
\* message as new as the one its sender is about to push.
Sound(s) ==
    /\ Ordered(s)
    /\ \A i \in DOMAIN s : /\ s[i].id <= sent
                           /\ \A t \in Tasks : task[t].pc = "push" /\ s[i].sender = t
                                                 => s[i].id < task[t].msg.id

AllSound == /\ \A c \in Channels : Sound(list[c])
            /\ \A t \in Tasks : Sound(task[t].read)

\* Nobody pushes to a channel that is not there, where none is deleted.
EmptyBefore == \A c \in Kept \ members : list[c] = <<>>

Inv == Types /\ (\A t \in Tasks : Busy(t)) /\ IdsLeft /\ AllSound /\ EmptyBefore

-----------------------------------------------------------------------------
(* The sequences.                                                          *)

\* t has messages of s only, in the order in which s has them.
Within(t, s) ==
    \E f \in [DOMAIN t -> DOMAIN s] :
      /\ \A i \in DOMAIN t : t[i] = s[f[i]]
      /\ \A i, j \in DOMAIN t : i < j => f[i] < f[j]

LEMMA WithinSound ==
  ASSUME NEW s, NEW t, Sound(s), Within(t, s)
  PROVE  Sound(t)
  BY DEF Sound, Ordered, Within

LEMMA WithoutOne ==
  ASSUME NEW s \in Seq(Message), NEW i \in DOMAIN s
  PROVE  Log!Without(s, i) \in Seq(Message) /\ Within(Log!Without(s, i), s)
  <1> DEFINE a == SubSeq(s, 1, i - 1)
             b == SubSeq(s, i + 1, Len(s))
             f == [j \in 1..(Len(s) - 1) |-> IF j < i THEN j ELSE j + 1]
  <1>1. Len(s) \in Nat /\ DOMAIN s = 1..Len(s) /\ i \in 1..Len(s)
    OBVIOUS
  <1>2. a \in Seq(Message) /\ Len(a) = i - 1 /\ \A j \in 1..(i - 1) : a[j] = s[j]
    BY <1>1
  <1>3. /\ b \in Seq(Message) /\ Len(b) = Len(s) - i
        /\ \A j \in 1..(Len(s) - i) : b[j] = s[i + j]
    BY <1>1
  <1>4. \A x, y \in Seq(Message) :
          /\ x \o y \in Seq(Message) /\ Len(x \o y) = Len(x) + Len(y)
          /\ \A j \in 1..(Len(x) + Len(y)) :
               (x \o y)[j] = IF j <= Len(x) THEN x[j] ELSE y[j - Len(x)]
    OBVIOUS
  <1> HIDE DEF a, b
  <1>5. /\ a \o b \in Seq(Message) /\ Len(a \o b) = Len(s) - 1
        /\ \A j \in 1..(Len(s) - 1) : (a \o b)[j] = IF j < i THEN a[j] ELSE b[j - i + 1]
    <2>1. /\ a \o b \in Seq(Message) /\ Len(a \o b) = Len(a) + Len(b)
          /\ \A j \in 1..(Len(a) + Len(b)) :
               (a \o b)[j] = IF j <= Len(a) THEN a[j] ELSE b[j - Len(a)]
      BY <1>2, <1>3, <1>4
    <2>2. Len(a) + Len(b) = Len(s) - 1
      BY <1>1, <1>2, <1>3
    <2>3. \A j \in 1..(Len(s) - 1) : (j <= Len(a) <=> j < i) /\ j - Len(a) = j - i + 1
      BY <1>1, <1>2
    <2>4. QED
      BY <2>1, <2>2, <2>3
  <1>6. \A j \in 1..(Len(s) - 1) : f[j] \in 1..Len(s) /\ (a \o b)[j] = s[f[j]]
    <2>1. SUFFICES ASSUME NEW j \in 1..(Len(s) - 1)
                   PROVE  f[j] \in 1..Len(s) /\ (a \o b)[j] = s[f[j]]
      OBVIOUS
    <2>2. CASE j < i
      BY <1>1, <1>2, <1>5, <2>2
    <2>3. CASE ~(j < i)
      <3>1. j - i + 1 \in 1..(Len(s) - i) /\ i + (j - i + 1) = j + 1 /\ f[j] = j + 1
        BY <1>1, <2>3
      <3>2. QED
        BY <1>1, <1>3, <1>5, <2>3, <3>1
    <2>4. QED
      BY <2>2, <2>3
  <1>7. \A j, k \in 1..(Len(s) - 1) : j < k => f[j] < f[k]
    BY <1>1
  <1>8. f \in [1..(Len(s) - 1) -> 1..Len(s)]
    BY <1>6
  <1> HIDE DEF f
  <1>9. DOMAIN (a \o b) = 1..(Len(s) - 1)
    BY <1>5
  <1>10. Within(a \o b, s)
    BY <1>1, <1>6, <1>7, <1>8, <1>9 DEF Within
  <1>11. QED
    BY <1>5, <1>10 DEF Log!Without, a, b

\* What LTRIM keeps is the last part.
LEMMA TrimmedLast ==
  ASSUME NEW s \in Seq(Message)
  PROVE  /\ Trimmed(s) \in Seq(Message) /\ Within(Trimmed(s), s)
         /\ Len(Trimmed(s)) = IF Len(s) <= MaxPerChannel THEN Len(s) ELSE MaxPerChannel
         /\ \A j \in 1..Len(Trimmed(s)) : Trimmed(s)[j] = s[Len(s) - Len(Trimmed(s)) + j]
  <1>1. Len(s) \in Nat /\ DOMAIN s = 1..Len(s) /\ MaxPerChannel \in Nat \ {0}
    BY RedisAssumption
  <1>2. /\ Trimmed(s) \in Seq(Message)
        /\ Len(Trimmed(s)) = IF Len(s) <= MaxPerChannel THEN Len(s) ELSE MaxPerChannel
        /\ \A j \in 1..Len(Trimmed(s)) : Trimmed(s)[j] = s[Len(s) - Len(Trimmed(s)) + j]
    <2>1. CASE Len(s) <= MaxPerChannel
      BY <1>1, <2>1 DEF Trimmed
    <2>2. CASE ~(Len(s) <= MaxPerChannel)
      <3> DEFINE t == SubSeq(s, Len(s) - MaxPerChannel + 1, Len(s))
      <3>1. /\ t \in Seq(Message) /\ Len(t) = MaxPerChannel
            /\ \A j \in 1..MaxPerChannel : t[j] = s[Len(s) - MaxPerChannel + j]
        BY <1>1, <2>2
      <3>2. Trimmed(s) = t
        BY <2>2 DEF Trimmed
      <3> HIDE DEF t
      <3>3. QED
        BY <2>2, <3>1, <3>2
    <2>3. QED
      BY <2>1, <2>2
  <1> DEFINE n == Len(Trimmed(s))
             f == [j \in 1..n |-> Len(s) - n + j]
  <1>3. n \in Nat /\ n <= Len(s) /\ DOMAIN Trimmed(s) = 1..n
    BY <1>1, <1>2
  <1>4. \A j \in 1..n : f[j] \in 1..Len(s) /\ Trimmed(s)[j] = s[f[j]]
    <2>1. \A j \in 1..n : Trimmed(s)[j] = s[Len(s) - n + j]
      BY <1>2
    <2> HIDE DEF n
    <2>2. \A j \in 1..n : Len(s) - n + j \in 1..Len(s)
      BY <1>1, <1>3
    <2>3. QED
      BY <2>1, <2>2
  <1>5. \A j, k \in 1..n : j < k => f[j] < f[k]
    BY <1>1, <1>3
  <1>6. f \in [1..n -> 1..Len(s)]
    BY <1>4
  <1> HIDE DEF f, n
  <1>7. Within(Trimmed(s), s)
    BY <1>1, <1>3, <1>4, <1>5, <1>6 DEF Within
  <1>8. QED
    BY <1>2, <1>7

\* Trimming twice, or before a message is appended, makes no difference.
LEMMA TrimmedTwice ==
  ASSUME NEW s \in Seq(Message), NEW m \in Message
  PROVE  /\ Trimmed(Trimmed(s)) = Trimmed(s)
         /\ Trimmed(Append(s, m)) = Trimmed(Append(Trimmed(s), m))
  <1>1. Len(s) \in Nat /\ MaxPerChannel \in Nat \ {0}
    BY RedisAssumption
  <1>2. /\ Trimmed(s) \in Seq(Message)
        /\ Len(Trimmed(s)) = IF Len(s) <= MaxPerChannel THEN Len(s) ELSE MaxPerChannel
        /\ \A j \in 1..Len(Trimmed(s)) : Trimmed(s)[j] = s[Len(s) - Len(Trimmed(s)) + j]
    BY TrimmedLast
  <1>3. Trimmed(Trimmed(s)) = Trimmed(s)
    BY <1>1, <1>2 DEF Trimmed
  <1>4. CASE Len(s) <= MaxPerChannel
    BY <1>4 DEF Trimmed
  <1>5. CASE ~(Len(s) <= MaxPerChannel)
    <2> DEFINE u == Trimmed(s)
               a == Append(s, m)
               b == Append(u, m)
    <2>1. Len(u) = MaxPerChannel /\ u \in Seq(Message)
      BY <1>2, <1>5
    <2>2. /\ a \in Seq(Message) /\ Len(a) = Len(s) + 1 /\ a[Len(s) + 1] = m
          /\ \A j \in 1..Len(s) : a[j] = s[j]
      BY <1>1
    <2> HIDE DEF u
    <2>3. /\ b \in Seq(Message) /\ Len(b) = MaxPerChannel + 1 /\ b[MaxPerChannel + 1] = m
          /\ \A j \in 1..MaxPerChannel : b[j] = u[j]
      BY <1>1, <2>1
    <2> HIDE DEF a, b
    <2>4. /\ Trimmed(a) \in Seq(Message) /\ Len(Trimmed(a)) = MaxPerChannel
          /\ \A j \in 1..MaxPerChannel : Trimmed(a)[j] = a[Len(s) + 1 - MaxPerChannel + j]
      <3>1. ~(Len(a) <= MaxPerChannel)
        BY <1>1, <1>5, <2>2
      <3>2. /\ Trimmed(a) \in Seq(Message) /\ Len(Trimmed(a)) = MaxPerChannel
            /\ \A j \in 1..Len(Trimmed(a)) :
                 Trimmed(a)[j] = a[Len(a) - Len(Trimmed(a)) + j]
        BY <2>2, <3>1, TrimmedLast
      <3>3. Len(a) - Len(Trimmed(a)) = Len(s) + 1 - MaxPerChannel
        BY <2>2, <3>2
      <3>4. QED
        BY <3>2, <3>3
    <2>5. /\ Trimmed(b) \in Seq(Message) /\ Len(Trimmed(b)) = MaxPerChannel
          /\ \A j \in 1..MaxPerChannel : Trimmed(b)[j] = b[1 + j]
      <3>1. ~(Len(b) <= MaxPerChannel) /\ Len(b) - MaxPerChannel = 1
        BY <1>1, <2>3
      <3>2. /\ Trimmed(b) \in Seq(Message) /\ Len(Trimmed(b)) = MaxPerChannel
            /\ \A j \in 1..Len(Trimmed(b)) :
                 Trimmed(b)[j] = b[Len(b) - Len(Trimmed(b)) + j]
        BY <2>3, <3>1, TrimmedLast
      <3>3. Len(b) - Len(Trimmed(b)) = 1
        BY <1>1, <2>3, <3>2
      <3>4. QED
        BY <3>2, <3>3
    <2>6. ASSUME NEW j \in 1..MaxPerChannel
          PROVE  Trimmed(a)[j] = Trimmed(b)[j]
      <3>1. CASE j = MaxPerChannel
        <4>1. Trimmed(a)[j] = a[Len(s) + 1] /\ Trimmed(b)[j] = b[MaxPerChannel + 1]
          BY <1>1, <2>4, <2>5, <3>1
        <4>2. QED
          BY <2>2, <2>3, <4>1
      <3>2. CASE j # MaxPerChannel
        <4>1. 1 + j \in 1..MaxPerChannel /\ Len(s) + 1 - MaxPerChannel + j \in 1..Len(s)
          BY <1>1, <1>5, <3>2
        <4>2. Trimmed(a)[j] = s[Len(s) + 1 - MaxPerChannel + j]
          BY <2>2, <2>4, <4>1
        <4>3. Trimmed(b)[j] = u[1 + j]
          BY <2>3, <2>5, <4>1
        <4>4. u[1 + j] = s[Len(s) - MaxPerChannel + (1 + j)]
          BY <1>2, <2>1, <4>1 DEF u
        <4>5. Len(s) - MaxPerChannel + (1 + j) = Len(s) + 1 - MaxPerChannel + j
          BY <1>1
        <4>6. QED
          BY <4>2, <4>3, <4>4, <4>5
      <3>3. QED
        BY <3>1, <3>2
    <2>7. Trimmed(a) = Trimmed(b)
      <3>1. \A x, y \in Seq(Message) :
              Len(x) = Len(y) /\ (\A j \in 1..Len(x) : x[j] = y[j]) => x = y
        OBVIOUS
      <3>2. QED
        BY <2>4, <2>5, <2>6, <3>1
    <2>8. QED
      BY <1>3, <2>7 DEF a, b, u
  <1>6. QED
    BY <1>3, <1>4, <1>5

-----------------------------------------------------------------------------
(* A step of one client.                                                   *)

\* The others go on as they were, but for long polls that an Event has woken or left.
Others(t) ==
    \A u \in Tasks \ {t} :
      /\ task'[u].channel = task[u].channel /\ task'[u].msg = task[u].msg
      /\ task'[u].read = task[u].read
      /\ \/ task'[u].pc = task[u].pc
         \/ task[u].pc = "waiting" /\ task'[u].pc \in {"woken", "stranded"}

Goes(t, q) == q \in Task /\ task' = [task EXCEPT ![t] = q]

LEMMA GoesOthers ==
  ASSUME Types, NEW t \in Tasks, NEW q, Goes(t, q)
  PROVE  task' \in [Tasks -> Task] /\ task'[t] = q /\ Others(t)
  BY DEF Types, Goes, Others

\* What is sound stays so, until its sender pushes a new message.
LEMMA SoundKept ==
  ASSUME Types, NEW t \in Tasks, Others(t), sent' \in Nat, sent <= sent',
         task'[t].pc = "push" => sent < task'[t].msg.id /\ task'[t].msg \in Message,
         NEW s \in Seq(Message), Sound(s)
  PROVE  Sound(s)'
  <1>1. \A i \in DOMAIN s : s[i].id \in Nat /\ s[i].id <= sent
    <2>1. \A i \in DOMAIN s : s[i] \in Message
      OBVIOUS
    <2>2. QED
      BY <2>1 DEF Sound, Message
  <1>2. \A i \in DOMAIN s : s[i].id <= sent'
    BY <1>1 DEF Types
  <1>3. \A i \in DOMAIN s, u \in Tasks :
          task'[u].pc = "push" /\ s[i].sender = u => s[i].id < task'[u].msg.id
    <2>1. SUFFICES ASSUME NEW i \in DOMAIN s, NEW u \in Tasks,
                          task'[u].pc = "push", s[i].sender = u
                   PROVE  s[i].id < task'[u].msg.id
      OBVIOUS
    <2>2. CASE u = t
      <3>1. sent < task'[t].msg.id /\ task'[t].msg.id \in Nat
        BY <2>1, <2>2 DEF Message
      <3>2. QED
        BY <1>1, <2>2, <3>1 DEF Types
    <2>3. CASE u # t
      BY <2>1, <2>3 DEF Others, Sound
    <2>4. QED
      BY <2>2, <2>3
  <1>4. QED
    BY <1>2, <1>3 DEF Sound, Ordered

\* A step after which no more sends wait for an id than before.
LEMMA IdsKept ==
  ASSUME Types, IdsLeft, NEW t \in Tasks, Others(t), UNCHANGED sent,
         task'[t].pc \in {"count", "sadd", "create"} => task[t].pc \in {"count", "sadd", "create"}
  PROVE  IdsLeft'
  <1>1. Adding' \subseteq Adding
    BY DEF Adding, Others
  <1>2. /\ IsFiniteSet(Adding') /\ Cardinality(Adding') <= Cardinality(Adding)
        /\ Cardinality(Adding') \in Nat /\ Cardinality(Adding) \in Nat
    BY <1>1, FS_Subset, FS_CardinalityType DEF IdsLeft
  <1>3. QED
    BY <1>2, RedisAssumption DEF IdsLeft, Types

LEMMA TaskStep ==
  ASSUME Inv, NEW t \in Tasks, task' \in [Tasks -> Task], Others(t),
         sent' \in Nat, sent <= sent', Busy(t)', IdsLeft',
         task'[t].pc = "push" => sent < task'[t].msg.id /\ task'[t].msg \in Message,
         task'[t].read \in {<<>>, task[t].read} \cup {list[c] : c \in Channels},
         members' \subseteq Channels, Kept \cap members \subseteq members',
         list' \in [Channels -> Seq(Message)],
         \A c \in Channels : list'[c] = list[c] \/ Sound(list[c])',
         EmptyBefore'
  PROVE  Inv'
  <1>1. Types'
    BY DEF Types
  <1>2. \A u \in Tasks : Busy(u)'
    <2>1. SUFFICES ASSUME NEW u \in Tasks, u # t
                   PROVE  Busy(u)'
      OBVIOUS
    <2>2. Busy(u) /\ sent \in Nat
      BY DEF Inv, Types
    <2>3. task'[u].pc = "push" => task'[u].msg.id <= sent'
      BY <2>1, <2>2 DEF Busy, Others, Message
    <2>4. QED
      BY <2>1, <2>2, <2>3 DEF Busy, Others, Deleting, Opened
  <1>3. \A s \in Seq(Message) : Sound(s) => Sound(s)'
    BY SoundKept DEF Inv
  <1>4. Sound(<<>>)'
    BY DEF Sound, Ordered
  <1>5. \A c \in Channels : list[c] \in Seq(Message) /\ Sound(list[c])
    BY DEF Inv, Types, AllSound
  <1>6. \A u \in Tasks : task[u].read \in Seq(Message) /\ Sound(task[u].read)
    BY DEF Inv, Types, Task, AllSound
  <1>7. \A c \in Channels : Sound(list[c])'
    BY <1>3, <1>5
  <1>8. \A u \in Tasks : Sound(task[u].read)'
    BY <1>3, <1>4, <1>5, <1>6 DEF Others
  <1>9. AllSound'
    BY <1>7, <1>8 DEF AllSound
  <1>10. QED
    BY <1>1, <1>2, <1>9 DEF Inv

\* A step that moves one client, changes no list and takes no id.
LEMMA MoveStep ==
  ASSUME Inv, NEW t \in Tasks, NEW q \in Task, Goes(t, q), UNCHANGED <<list, sent>>,
         members' \subseteq Channels, Kept \cap members \subseteq members',
         Busy(t)', q.pc # "push", q.read \in {<<>>, task[t].read} \cup {list[c] : c \in Channels},
         q.pc \in {"count", "sadd", "create"} => task[t].pc \in {"count", "sadd", "create"}
  PROVE  Inv'
  <1>1. task' \in [Tasks -> Task] /\ task'[t] = q /\ Others(t)
    BY GoesOthers DEF Inv
  <1>2. IdsLeft'
    BY <1>1, IdsKept DEF Inv
  <1>3. EmptyBefore'
    BY DEF Inv, EmptyBefore
  <1>4. sent' \in Nat /\ sent <= sent' /\ list' \in [Channels -> Seq(Message)]
    BY DEF Inv, Types
  <1>5. QED
    BY <1>1, <1>2, <1>3, <1>4, TaskStep

\* A step that moves one client, and changes a list to one that is sound.
LEMMA ListStep ==
  ASSUME Inv, NEW t \in Tasks, NEW q \in Task, Goes(t, q), UNCHANGED <<members, sent>>,
         NEW c \in Channels, NEW s \in Seq(Message), list' = [list EXCEPT ![c] = s],
         Sound(s)', c \in Kept \ members => s = <<>>,
         Busy(t)', q.pc \notin {"push", "count", "sadd", "create"},
         q.read \in {<<>>, task[t].read}
  PROVE  Inv'
  <1>1. task' \in [Tasks -> Task] /\ task'[t] = q /\ Others(t)
    BY GoesOthers DEF Inv
  <1>2. IdsLeft'
    BY <1>1, IdsKept DEF Inv
  <1>3. \A d \in Channels : list'[d] = IF d = c THEN s ELSE list[d]
    BY DEF Inv, Types
  <1>4. EmptyBefore'
    BY <1>3, RedisAssumption DEF Inv, EmptyBefore
  <1>5. list' \in [Channels -> Seq(Message)]
    BY DEF Inv, Types
  <1>6. sent' \in Nat /\ sent <= sent' /\ members' \subseteq Channels
    BY DEF Inv, Types
  <1>7. \A d \in Channels : list'[d] = list[d] \/ Sound(list[d])'
    BY <1>3
  <1>8. QED
    BY <1>1, <1>2, <1>4, <1>5, <1>6, <1>7, TaskStep

-----------------------------------------------------------------------------
(* The invariant: one lemma for each operation.                            *)

LEMMA IdleTask ==
  /\ Idle \in Task /\ Idle.pc = "idle" /\ Idle.read = <<>> /\ Idle.channel = None
  /\ \A c \in Channels, pc \in Place :
       LET q == [Idle EXCEPT !.pc = pc, !.channel = c] IN
       q \in Task /\ q.pc = pc /\ q.channel = c /\ q.read = <<>>
  <1>1. <<>> \in Seq(Message) /\ 0 \in Nat
    OBVIOUS
  <1>2. Idle \in Task /\ Idle.pc = "idle" /\ Idle.read = <<>> /\ Idle.channel = None
    BY <1>1 DEF Idle, Task, Place
  <1>3. ASSUME NEW c \in Channels, NEW pc \in Place
        PROVE  LET q == [Idle EXCEPT !.pc = pc, !.channel = c] IN
               q \in Task /\ q.pc = pc /\ q.channel = c /\ q.read = <<>>
    BY <1>2 DEF Task
  <1>4. QED
    BY <1>2, <1>3

LEMMA InvInit == Init => Inv
  <1> SUFFICES ASSUME Init PROVE Inv
    OBVIOUS
  <1>1. Types
    <2>1. <<>> \in Seq(Message)
      OBVIOUS
    <2>2. QED
      BY <2>1, IdleTask DEF Init, Types
  <1>2. \A t \in Tasks : Busy(t)
    BY IdleTask DEF Init, Busy, Deleting, Opened
  <1>3. IdsLeft
    <2>1. Adding = {}
      BY IdleTask DEF Init, Adding
    <2>2. QED
      BY <2>1, FS_EmptySet, RedisAssumption DEF Init, IdsLeft
  <1>4. AllSound /\ EmptyBefore
    <2>1. Sound(<<>>)
      BY DEF Sound, Ordered
    <2>2. QED
      BY <2>1, IdleTask, RedisAssumption DEF Init, AllSound, EmptyBefore
  <1>5. QED
    BY <1>1, <1>2, <1>3, <1>4 DEF Inv

\* The operation ends, or another step of it follows.
LEMMA DoneInv ==
  ASSUME Inv, NEW t \in Tasks, Done(t), UNCHANGED <<list, sent>>,
         members' \subseteq Channels, Kept \cap members \subseteq members'
  PROVE  Inv'
  <1>1. Goes(t, Idle)
    BY IdleTask DEF Done, Goes
  <1>2. task'[t] = Idle
    BY <1>1, GoesOthers DEF Inv
  <1>3. Busy(t)'
    BY <1>2, IdleTask DEF Busy, Deleting, Opened
  <1>4. QED
    BY <1>1, <1>3, IdleTask, MoveStep

LEMMA GoInv ==
  ASSUME Inv, NEW t \in Tasks, NEW pc \in Place, Go(t, pc), UNCHANGED <<list, sent>>,
         members' \subseteq Channels, Kept \cap members \subseteq members',
         task[t].pc # "idle", pc # "push",
         pc \in {"count", "sadd", "create"} => task[t].pc \in {"count", "sadd", "create"},
         pc \in Deleting => task[t].pc \in Deleting,
         pc \in Opened => task[t].pc \in Opened \/ task[t].channel \in members'
  PROVE  Inv'
  <1> DEFINE q == [task[t] EXCEPT !.pc = pc]
  <1>1. /\ q \in Task /\ q.pc = pc /\ q.channel = task[t].channel /\ q.read = task[t].read
        /\ q.msg = task[t].msg /\ task' = [task EXCEPT ![t] = q]
    BY DEF Inv, Types, Task, Go
  <1> HIDE DEF q
  <1>2. Goes(t, q) /\ task'[t] = q
    BY <1>1, GoesOthers DEF Goes, Inv
  <1>3. Busy(t)'
    BY <1>1, <1>2 DEF Inv, Busy
  <1>4. QED
    BY <1>1, <1>2, <1>3, MoveStep

\* The first call of an operation, unless it is over with it.
LEMMA BeginInv ==
  ASSUME Inv, NEW t \in Tasks, NEW c \in Channels, NEW pc \in Place, Begin(t, c, pc),
         UNCHANGED <<members, list, sent>>, pc \notin {"push", "count", "sadd", "create"},
         pc \in Deleting => c \notin Kept, pc \notin Opened
  PROVE  Inv'
  <1> DEFINE q == [Idle EXCEPT !.pc = pc, !.channel = c]
  <1>1. q \in Task /\ q.pc = pc /\ q.channel = c /\ q.read = <<>> /\ Goes(t, q)
    BY IdleTask DEF Begin, Goes
  <1> HIDE DEF q
  <1>2. task'[t] = q
    BY <1>1, GoesOthers DEF Inv
  <1>3. Busy(t)'
    BY <1>1, <1>2 DEF Busy
  <1>4. members' \subseteq Channels /\ Kept \cap members \subseteq members'
    BY DEF Inv, Types
  <1>5. QED
    BY <1>1, <1>3, <1>4, MoveStep

LEMMA AddFindsChannelInv ==
  ASSUME Inv, NEW t \in Tasks, NEW c \in Channels, AddFindsChannel(t, c)
  PROVE  Inv'
  <1> DEFINE pc == IF c \in members THEN "create" ELSE "count"
             q == [Idle EXCEPT !.pc = pc, !.channel = c]
  <1>1. /\ pc \in Place /\ pc \in {"create", "count"} /\ (pc = "create" => c \in members)
        /\ task[t].pc = "idle" /\ UNCHANGED <<members, list, sent>> /\ MaySend
    <2>1. pc \in {"create", "count"} /\ (pc = "create" => c \in members)
      OBVIOUS
    <2>2. pc \in Place
      BY <2>1 DEF Place
    <2>3. task[t].pc = "idle" /\ UNCHANGED <<members, list, sent>> /\ MaySend
      BY DEF AddFindsChannel, Begin, At, Store
    <2>4. QED
      BY <2>1, <2>2, <2>3
  <1>2. q \in Task /\ q.pc = pc /\ q.channel = c /\ q.read = <<>> /\ Goes(t, q)
    BY <1>1, IdleTask DEF AddFindsChannel, Begin, Goes
  <1> HIDE DEF pc, q
  <1>3. task' \in [Tasks -> Task] /\ task'[t] = q /\ Others(t)
    BY <1>2, GoesOthers DEF Inv
  <1>4. Busy(t)'
    BY <1>1, <1>2, <1>3 DEF Busy, Deleting, Opened
  <1>5. IdsLeft'
    <2>1. Adding' = Adding \cup {t} /\ t \notin Adding
      BY <1>1, <1>2, <1>3 DEF Adding, Others
    <2>2. IsFiniteSet(Adding') /\ Cardinality(Adding') = Cardinality(Adding) + 1
      BY <2>1, FS_AddElement DEF Inv, IdsLeft
    <2>3. sent \in Nat /\ Cardinality(Adding) \in Nat /\ sent + Cardinality(Adding) < MaxSends
      BY <1>1, FS_CardinalityType DEF Inv, Types, IdsLeft, MaySend, Adding
    <2>4. QED
      BY <1>1, <2>2, <2>3, RedisAssumption DEF IdsLeft
  <1>6. sent' \in Nat /\ sent <= sent' /\ members' \subseteq Channels /\ EmptyBefore'
        /\ list' \in [Channels -> Seq(Message)]
    BY <1>1 DEF Inv, Types, EmptyBefore
  <1>7. QED
    BY <1>1, <1>2, <1>3, <1>4, <1>5, <1>6, TaskStep

LEMMA CreateMessageInv ==
  ASSUME Inv, NEW t \in Tasks, CreateMessage(t)
  PROVE  Inv'
  <1> DEFINE m == [id |-> sent + 1, sender |-> t]
             q == [task[t] EXCEPT !.pc = "push", !.msg = m]
  <1>1. /\ task[t].pc = "create" /\ sent' = sent + 1 /\ UNCHANGED <<members, list>>
        /\ task' = [task EXCEPT ![t] = q] /\ task[t] \in Task /\ sent \in Nat
    BY DEF CreateMessage, At, Store, Inv, Types
  <1>2. /\ IsFiniteSet(Adding) /\ t \in Adding /\ sent + Cardinality(Adding) <= MaxSends
        /\ Cardinality(Adding) \in Nat /\ Cardinality(Adding \ {t}) \in Nat
        /\ IsFiniteSet(Adding \ {t}) /\ Cardinality(Adding \ {t}) = Cardinality(Adding) - 1
    BY <1>1, FS_RemoveElement, FS_CardinalityType DEF Inv, IdsLeft, Adding
  <1>3. m \in Message /\ m.id = sent + 1 /\ m.sender = t
    <2>1. sent + 1 \in 1..MaxSends
      BY <1>1, <1>2, RedisAssumption
    <2>2. QED
      BY <2>1 DEF Message
  <1> HIDE DEF m
  <1>4. /\ q \in Task /\ q.pc = "push" /\ q.msg = m /\ q.channel = task[t].channel
        /\ q.read = task[t].read
    <2>1. task[t] \in Task /\ m \in Message /\ "push" \in Place
      BY <1>1, <1>3 DEF Place
    <2>2. QED
      BY <2>1 DEF Task
  <1> HIDE DEF q
  <1>5. task' \in [Tasks -> Task] /\ task'[t] = q /\ Others(t)
    BY <1>1, <1>4, GoesOthers DEF Inv, Goes
  <1>6. Busy(t)'
    <2>1. q.msg.id <= sent'
      BY <1>1, <1>3, <1>4
    <2>2. Busy(t)
      BY DEF Inv
    <2>3. QED
      BY <1>1, <1>3, <1>4, <1>5, <2>1, <2>2 DEF Busy, Deleting, Opened
  <1>7. IdsLeft'
    <2>1. Adding' = Adding \ {t}
      BY <1>4, <1>5 DEF Adding, Others
    <2>2. QED
      BY <1>1, <1>2, <2>1, RedisAssumption DEF IdsLeft
  <1>8. /\ sent' \in Nat /\ sent <= sent' /\ sent < q.msg.id /\ EmptyBefore'
        /\ members' \subseteq Channels /\ list' \in [Channels -> Seq(Message)]
    BY <1>1, <1>3, <1>4 DEF Inv, Types, EmptyBefore
  <1>9. QED
    BY <1>1, <1>3, <1>4, <1>5, <1>6, <1>7, <1>8, TaskStep

\* The pushed message is newer than those of its sender in every list and copy.
LEMMA PushInv ==
  ASSUME Inv, NEW t \in Tasks, Push(t)
  PROVE  Inv'
  <1> DEFINE c == task[t].channel
             m == task[t].msg
             q == [task[t] EXCEPT !.pc = "trim"]
  <1>1. /\ task[t].pc = "push" /\ c \in Channels /\ m \in Message /\ m.sender = t
        /\ m.id <= sent /\ (c \in Kept => c \in members)
        /\ list' = [list EXCEPT ![c] = Append(list[c], m)] /\ UNCHANGED <<members, sent>>
        /\ task' = [task EXCEPT ![t] = q] /\ list[c] \in Seq(Message)
        /\ q \in Task /\ q.pc = "trim" /\ q.channel = c /\ q.read = task[t].read
    <2>1. task[t].pc = "push" /\ Busy(t) /\ task[t] \in Task
      BY DEF Push, At, Inv, Types
    <2>2. /\ c \in Channels /\ m \in Message /\ m.sender = t /\ m.id <= sent
          /\ c \in Kept => c \in members
      BY <2>1 DEF Busy, Opened
    <2>3. /\ list' = [list EXCEPT ![c] = Append(list[c], m)] /\ UNCHANGED <<members, sent>>
          /\ task' = [task EXCEPT ![t] = q]
      BY DEF Push, PushRight, Go
    <2>4. list[c] \in Seq(Message)
      BY <2>2 DEF Inv, Types
    <2>5. q \in Task /\ q.pc = "trim" /\ q.channel = c /\ q.read = task[t].read
      BY <2>1 DEF Task, Place
    <2> HIDE DEF c, m, q
    <2>6. QED
      BY <2>1, <2>2, <2>3, <2>4, <2>5
  <1> HIDE DEF c, m, q
  <1>2. PICK s \in Seq(Message) : s = Append(list[c], m)
    <2>1. Append(list[c], m) \in Seq(Message)
      BY <1>1
    <2>2. QED
      BY <2>1
  <1>3. Goes(t, q) /\ task'[t] = q /\ Others(t)
    BY <1>1, GoesOthers DEF Goes, Inv
  <1>4. Sound(s)'
    <2> DEFINE n == Len(list[c]) + 1
    <2>1. /\ DOMAIN s = DOMAIN list[c] \cup {n} /\ s[n] = m
          /\ \A i \in DOMAIN list[c] : s[i] = list[c][i] /\ i < n /\ i \in Nat /\ n \in Nat
      BY <1>1, <1>2
    <2> HIDE DEF n
    <2>2. Sound(list[c])
      BY <1>1 DEF Inv, AllSound
    <2>3. \A i \in DOMAIN list[c] : list[c][i].sender = t => list[c][i].id < m.id
      BY <1>1, <2>2 DEF Sound, m
    <2>4. Ordered(s)
      <3>1. SUFFICES ASSUME NEW i \in DOMAIN s, NEW j \in DOMAIN s, i < j,
                            s[i].sender = s[j].sender
                     PROVE  s[i].id < s[j].id
        BY DEF Ordered
      <3>2. i \in DOMAIN list[c]
        BY <2>1, <3>1
      <3>3. CASE j = n
        BY <1>1, <2>1, <2>3, <3>1, <3>2, <3>3
      <3>4. CASE j \in DOMAIN list[c]
        BY <2>1, <2>2, <3>1, <3>2, <3>4 DEF Sound, Ordered
      <3>5. QED
        BY <2>1, <3>3, <3>4
    <2>5. \A i \in DOMAIN s : s[i].id <= sent'
      BY <1>1, <2>1, <2>2 DEF Sound
    <2>6. ASSUME NEW i \in DOMAIN s, NEW u \in Tasks, task'[u].pc = "push", s[i].sender = u
          PROVE  s[i].id < task'[u].msg.id
      <3>1. u # t /\ task[u].pc = "push" /\ task'[u].msg = task[u].msg
        BY <1>1, <1>3, <2>6 DEF Others
      <3>2. i \in DOMAIN list[c]
        BY <1>1, <2>1, <2>6, <3>1
      <3>3. QED
        BY <2>1, <2>2, <2>6, <3>1, <3>2 DEF Sound
    <2>7. QED
      BY <2>4, <2>5, <2>6 DEF Sound, Ordered
  <1>5. Busy(t)'
    BY <1>1, <1>3 DEF Busy, Deleting, Opened
  <1>6. QED
    BY <1>1, <1>2, <1>3, <1>4, <1>5, ListStep

LEMMA TrimInv ==
  ASSUME Inv, NEW t \in Tasks, Trim(t)
  PROVE  Inv'
  <1> DEFINE c == task[t].channel
             q == [task[t] EXCEPT !.pc = "signal"]
  <1>1. /\ task[t].pc = "trim" /\ c \in Channels /\ (c \in Kept => c \in members)
        /\ task[t] \in Task
    BY DEF Trim, At, Inv, Types, Busy, Opened
  <1>2. /\ list' = [list EXCEPT ![c] = Trimmed(list[c])] /\ UNCHANGED <<members, sent>>
        /\ task' = [task EXCEPT ![t] = q]
    BY DEF Trim, Go
  <1>3. q \in Task /\ q.pc = "signal" /\ q.channel = c /\ q.read = task[t].read
    BY <1>1 DEF Task, Place
  <1> HIDE DEF c, q
  <1>4. list[c] \in Seq(Message) /\ Sound(list[c])
    BY <1>1 DEF Inv, Types, AllSound
  <1>5. Trimmed(list[c]) \in Seq(Message) /\ Sound(Trimmed(list[c]))
    BY <1>4, TrimmedLast, WithinSound
  <1>6. PICK s \in Seq(Message) : s = Trimmed(list[c])
    BY <1>5
  <1>7. Goes(t, q) /\ task'[t] = q /\ Others(t)
    BY <1>2, <1>3, GoesOthers DEF Goes, Inv
  <1>8. Sound(s)'
    BY <1>2, <1>3, <1>5, <1>6, <1>7, SoundKept DEF Inv, Types
  <1>9. Busy(t)'
    BY <1>1, <1>2, <1>3, <1>7 DEF Busy, Deleting, Opened
  <1>10. QED
    BY <1>1, <1>2, <1>3, <1>6, <1>7, <1>8, <1>9, ListStep

\* Clear and the first step of delete: the list is gone.
LEMMA EmptiedInv ==
  ASSUME Inv, NEW t \in Tasks, NEW q \in Task, Goes(t, q), UNCHANGED <<members, sent>>,
         task[t].pc # "idle", list' = [list EXCEPT ![task[t].channel] = <<>>],
         q.pc \in {"idle", "srem"}, q.read \in {<<>>, task[t].read},
         q.pc = "srem" => q.channel = task[t].channel /\ task[t].pc \in Deleting
  PROVE  Inv'
  <1>1. task[t].channel \in Channels /\ Busy(t)
    BY DEF Inv, Busy
  <1>2. <<>> \in Seq(Message)
    OBVIOUS
  <1>3. Sound(<<>>)'
    BY DEF Sound, Ordered
  <1>4. task'[t] = q
    BY GoesOthers DEF Inv
  <1>5. Busy(t)'
    BY <1>1, <1>4 DEF Busy, Deleting, Opened
  <1>6. QED
    BY <1>1, <1>2, <1>3, <1>5, ListStep

LEMMA ClearInv ==
  ASSUME Inv, NEW t \in Tasks, Clear(t)
  PROVE  Inv'
  <1>1. Goes(t, Idle) /\ task[t].pc = "clear" /\ UNCHANGED <<members, sent>>
        /\ list' = [list EXCEPT ![task[t].channel] = <<>>]
    BY IdleTask DEF Clear, Done, Goes, At
  <1>2. QED
    BY <1>1, IdleTask, EmptiedInv

LEMMA DeleteListInv ==
  ASSUME Inv, NEW t \in Tasks, DeleteList(t)
  PROVE  Inv'
  <1> DEFINE q == [task[t] EXCEPT !.pc = "srem"]
  <1>1. /\ task[t].pc = "del" /\ task[t] \in Task /\ UNCHANGED <<members, sent>>
        /\ task' = [task EXCEPT ![t] = q]
        /\ list' = [list EXCEPT ![task[t].channel] = <<>>]
    BY DEF DeleteList, At, Go, Inv, Types
  <1>2. q \in Task /\ q.pc = "srem" /\ q.channel = task[t].channel /\ q.read = task[t].read
    BY <1>1 DEF Task, Place
  <1> HIDE DEF q
  <1>3. QED
    BY <1>1, <1>2, EmptiedInv DEF Goes, Deleting

\* The signal: the Event is set, or popped with the channel.
LEMMA SetEventInv ==
  ASSUME Inv, NEW t \in Tasks, NEW pc \in {"woken", "stranded"}, SetEvent(t, pc),
         UNCHANGED <<members, list, sent>>
  PROVE  Inv'
  <1>1. \A u \in Tasks : task[u] \in Task
    BY DEF Inv, Types
  <1>2. \A u \in Tasks :
          LET q == [task[u] EXCEPT !.pc = pc] IN
          /\ q \in Task /\ q.pc = pc /\ q.channel = task[u].channel /\ q.msg = task[u].msg
          /\ q.read = task[u].read
    BY <1>1 DEF Task, Place
  <1>3. \A u \in Tasks :
          task'[u] = IF u = t THEN Idle
                     ELSE IF task[u].pc = "waiting" /\ task[u].channel = task[t].channel
                          THEN [task[u] EXCEPT !.pc = pc] ELSE task[u]
    BY DEF SetEvent
  <1>4. \A u \in Tasks : task'[u] \in Task
    BY <1>1, <1>2, <1>3, IdleTask
  <1>5. task' \in [Tasks -> Task]
    BY <1>4 DEF SetEvent
  <1>6. Others(t)
    BY <1>2, <1>3 DEF Others
  <1>7. task'[t] = Idle /\ Busy(t)'
    BY <1>3, IdleTask DEF Busy, Deleting, Opened
  <1>8. IdsLeft'
    BY <1>6, <1>7, IdleTask, IdsKept DEF Inv
  <1>9. /\ sent' \in Nat /\ sent <= sent' /\ members' \subseteq Channels /\ EmptyBefore'
        /\ list' \in [Channels -> Seq(Message)]
    BY DEF Inv, Types, EmptyBefore
  <1>10. QED
    BY <1>5, <1>6, <1>7, <1>8, <1>9, IdleTask, TaskStep

LEMMA FindMessageInv ==
  ASSUME Inv, NEW t \in Tasks, NEW m \in Message, FindMessage(t, m)
  PROVE  Inv'
  <1> DEFINE q == [task[t] EXCEPT !.pc = "rewrite", !.msg = m, !.read = list[task[t].channel]]
  <1>1. /\ task[t].pc = "find" /\ UNCHANGED <<members, list, sent>> /\ task[t] \in Task
        /\ Done(t) \/ task' = [task EXCEPT ![t] = q]
    BY DEF FindMessage, At, Store, Inv, Types
  <1>2. task[t].channel \in Channels /\ task[t].channel \notin Kept
    BY <1>1 DEF Inv, Busy, Deleting
  <1>3. list[task[t].channel] \in Seq(Message)
    BY <1>2 DEF Inv, Types
  <1>4. /\ q \in Task /\ q.pc = "rewrite" /\ q.channel = task[t].channel
        /\ q.read = list[task[t].channel]
    BY <1>1, <1>3 DEF Task, Place
  <1> HIDE DEF q
  <1>5. CASE Done(t)
    BY <1>1, <1>5, DoneInv DEF Inv, Types
  <1>6. CASE task' = [task EXCEPT ![t] = q]
    <2>1. Goes(t, q) /\ task'[t] = q
      BY <1>4, <1>6, GoesOthers DEF Goes, Inv
    <2>2. Busy(t)'
      BY <1>2, <1>4, <2>1 DEF Busy, Opened
    <2>3. QED
      BY <1>1, <1>2, <1>4, <2>1, <2>2, MoveStep DEF Inv, Types
  <1>7. QED
    BY <1>1, <1>5, <1>6

\* What was read before other clients sent and deleted is written back, less one message.
LEMMA RewriteInv ==
  ASSUME Inv, NEW t \in Tasks, Rewrite(t)
  PROVE  Inv'
  <1> DEFINE c == task[t].channel
             r == task[t].read
  <1>1. /\ task[t].pc = "rewrite" /\ Done(t) /\ UNCHANGED <<members, sent>>
        /\ \E i \in DOMAIN r : list' = [list EXCEPT ![c] = Log!Without(r, i)]
    BY DEF Rewrite, At
  <1>2. c \in Channels /\ c \notin Kept /\ r \in Seq(Message) /\ Sound(r)
    BY <1>1 DEF Inv, Busy, Deleting, Types, Task, AllSound
  <1> HIDE DEF c, r
  <1>3. PICK i \in DOMAIN r : list' = [list EXCEPT ![c] = Log!Without(r, i)]
    BY <1>1
  <1>4. Log!Without(r, i) \in Seq(Message) /\ Sound(Log!Without(r, i))
    BY <1>2, WithoutOne, WithinSound
  <1>5. PICK s \in Seq(Message) : s = Log!Without(r, i)
    BY <1>4
  <1>6. Goes(t, Idle)
    BY <1>1, IdleTask DEF Done, Goes
  <1>7. task'[t] = Idle /\ Others(t)
    BY <1>6, GoesOthers DEF Inv
  <1>8. Sound(s)'
    <2>1. Sound(s)
      BY <1>4, <1>5
    <2>2. Types /\ sent \in Nat /\ sent' = sent
      BY <1>1 DEF Inv, Types
    <2>3. sent' \in Nat /\ sent <= sent'
      BY <2>2
    <2>4. task'[t].pc # "push"
      BY <1>7, IdleTask
    <2>5. QED
      BY <1>7, <2>1, <2>2, <2>3, <2>4, SoundKept
  <1>9. Busy(t)'
    BY <1>7, IdleTask DEF Busy, Deleting, Opened
  <1>10. QED
    BY <1>1, <1>2, <1>3, <1>5, <1>6, <1>8, <1>9, IdleTask, ListStep

\* A long poll asks for what came since, and reads the list.
LEMMA WaitInv ==
  ASSUME Inv, NEW t \in Tasks, NEW c \in Channels, NEW since \in 0..MaxSends,
         WaitFindsChannel(t, c, since)
  PROVE  Inv'
  <1> DEFINE pc == IF c \in members THEN "read" ELSE "register"
             q == [Idle EXCEPT !.pc = pc, !.channel = c, !.since = since]
  <1>1. UNCHANGED <<members, list, sent>> /\ task' = [task EXCEPT ![t] = q]
    BY DEF WaitFindsChannel, Store
  <1>2. pc \in {"read", "register"} /\ pc \in Place /\ since \in Nat
    BY RedisAssumption DEF Place
  <1> HIDE DEF pc
  <1>3. q \in Task /\ q.pc = pc /\ q.channel = c /\ q.read = <<>>
    BY <1>2, IdleTask DEF Task
  <1> HIDE DEF q
  <1>4. Goes(t, q) /\ task'[t] = q
    BY <1>1, <1>3, GoesOthers DEF Goes, Inv
  <1>5. Busy(t)'
    BY <1>2, <1>3, <1>4 DEF Busy, Deleting, Opened
  <1>6. QED
    BY <1>1, <1>2, <1>3, <1>4, <1>5, MoveStep DEF Inv, Types

LEMMA ReadInv ==
  ASSUME Inv, NEW t \in Tasks, Read(t)
  PROVE  Inv'
  <1> DEFINE q == [task[t] EXCEPT !.pc = "register", !.read = list[task[t].channel]]
  <1>1. /\ task[t].pc = "read" /\ UNCHANGED <<members, list, sent>> /\ task[t] \in Task
        /\ task' = [task EXCEPT ![t] = q]
    BY DEF Read, At, Store, Inv, Types
  <1>2. task[t].channel \in Channels
    BY <1>1 DEF Inv, Busy
  <1>3. list[task[t].channel] \in Seq(Message)
    BY <1>2 DEF Inv, Types
  <1>4. /\ q \in Task /\ q.pc = "register" /\ q.channel = task[t].channel
        /\ q.read = list[task[t].channel]
    BY <1>1, <1>3 DEF Task, Place
  <1> HIDE DEF q
  <1>5. Goes(t, q) /\ task'[t] = q
    BY <1>1, <1>4, GoesOthers DEF Goes, Inv
  <1>6. Busy(t)'
    BY <1>2, <1>4, <1>5 DEF Busy, Deleting, Opened
  <1>7. QED
    BY <1>1, <1>2, <1>4, <1>5, <1>6, MoveStep DEF Inv, Types

\* The other steps begin an operation, go on with it or end it, and change no list.
LEMMA PlainInv ==
  ASSUME Inv, NEW t \in Tasks,
         \/ \E c \in Channels : \/ ClearFindsChannel(t, c) \/ DeleteFindsChannel(t, c)
                                \/ DeleteMessageFindsChannel(t, c)
         \/ CountChannels(t) \/ AddChannel(t) \/ DeleteMember(t)
         \/ Register(t) \/ Woken(t) \/ TimeOut(t)
  PROVE  Inv'
  <1>1. members \subseteq Channels
    BY DEF Inv, Types
  <1>2. ASSUME UNCHANGED vars
        PROVE  Inv'
    BY <1>2 DEF vars, Inv, Types, Busy, IdsLeft, Adding, AllSound, Sound, EmptyBefore
  <1>3. ASSUME NEW c \in Channels, NEW pc \in {"clear", "del", "find"},
               BeginIfMember(t, c, pc), UNCHANGED <<members, list, sent>>,
               pc = "clear" \/ c \notin Kept
        PROVE  Inv'
    <2>1. CASE Begin(t, c, pc)
      <3>1. pc \in Place /\ pc \notin Opened
        BY DEF Place, Opened
      <3>2. QED
        BY <1>3, <2>1, <3>1, BeginInv DEF Deleting
    <2>2. CASE UNCHANGED task
      BY <1>2, <1>3, <2>2 DEF vars
    <2>3. QED
      BY <1>3, <2>1, <2>2 DEF BeginIfMember
  <1>4. ASSUME \E c \in Channels : \/ ClearFindsChannel(t, c) \/ DeleteFindsChannel(t, c)
                                   \/ DeleteMessageFindsChannel(t, c)
        PROVE  Inv'
    BY <1>3, <1>4 DEF ClearFindsChannel, DeleteFindsChannel, DeleteMessageFindsChannel, Store
  <1>5. CASE CountChannels(t)
    <2>1. task[t].pc = "count" /\ UNCHANGED <<members, list, sent>> /\ (Done(t) \/ Go(t, "sadd"))
      BY <1>5 DEF CountChannels, At, Store
    <2>2. "sadd" \in Place /\ "sadd" \notin Deleting /\ "sadd" \notin Opened
      BY DEF Place, Deleting, Opened
    <2>3. QED
      BY <1>1, <2>1, <2>2, DoneInv, GoInv
  <1>6. CASE AddChannel(t)
    <2>1. /\ task[t].pc = "sadd" /\ members' = members \cup {task[t].channel}
          /\ UNCHANGED <<list, sent>> /\ Go(t, "create")
      BY <1>6 DEF AddChannel, At
    <2>2. task[t].channel \in Channels
      BY <2>1 DEF Inv, Busy
    <2>3. "create" \in Place /\ "create" \notin Deleting
      BY DEF Place, Deleting
    <2>4. members' \subseteq Channels /\ Kept \cap members \subseteq members'
      BY <1>1, <2>1, <2>2
    <2>5. QED
      BY <2>1, <2>2, <2>3, <2>4, GoInv
  <1>7. CASE DeleteMember(t)
    <2>1. /\ task[t].pc = "srem" /\ members' = members \ {task[t].channel}
          /\ UNCHANGED <<list, sent>> /\ Go(t, "pop")
      BY <1>7 DEF DeleteMember, At
    <2>2. task[t].channel \notin Kept
      BY <2>1 DEF Inv, Busy, Deleting
    <2>3. "pop" \in Place /\ "pop" \notin Opened /\ "srem" \in Deleting
      BY DEF Place, Opened, Deleting
    <2>4. members' \subseteq Channels /\ Kept \cap members \subseteq members'
      BY <1>1, <2>1, <2>2
    <2>5. QED
      BY <2>1, <2>3, <2>4, GoInv
  <1>8. CASE Register(t)
    <2>1. task[t].pc = "register" /\ UNCHANGED <<members, list, sent>> /\ (Done(t) \/ Go(t, "waiting"))
      BY <1>8 DEF Register, At, Store
    <2>2. "waiting" \in Place /\ "waiting" \notin Deleting /\ "waiting" \notin Opened
      BY DEF Place, Deleting, Opened
    <2>3. QED
      BY <1>1, <2>1, <2>2, DoneInv, GoInv
  <1>9. CASE Woken(t) \/ TimeOut(t)
    BY <1>1, <1>9, DoneInv DEF Woken, TimeOut, Store
  <1>10. QED
    BY <1>4, <1>5, <1>6, <1>7, <1>8, <1>9

LEMMA InvNext == Inv /\ [Next]_vars => Inv'
  <1> SUFFICES ASSUME Inv, [Next]_vars PROVE Inv'
    OBVIOUS
  <1>1. CASE UNCHANGED vars
    BY <1>1 DEF vars, Inv, Types, Busy, IdsLeft, Adding, AllSound, Sound, EmptyBefore
  <1>2. CASE \E t \in Tasks : Signal(t) \/ PopEvent(t)
    BY <1>2, SetEventInv DEF Signal, PopEvent, Store
  <1>3. QED
    BY <1>1, <1>2, AddFindsChannelInv, CreateMessageInv, PushInv, TrimInv, ClearInv,
       DeleteListInv, FindMessageInv, RewriteInv, WaitInv, ReadInv, PlainInv DEF Next

\* The strengthening holds initially and every call to Redis keeps it.
THEOREM RedisInv == Spec => []Inv
  BY InvInit, InvNext, PTL DEF Spec

\* However the calls of overlapping operations interleave, and whatever old copy of a list
\* a deletion writes back: no list has two messages of a sender out of order, or one twice.
THEOREM SendersKeepOrder == Spec => []SenderOrderKept
  <1>1. Inv => SenderOrderKept
    BY DEF Inv, AllSound, Sound, Ordered, SenderOrderKept
  <1>2. QED
    BY <1>1, RedisInv, PTL

-----------------------------------------------------------------------------
(* The store implements the log on the channels that keep their messages.  *)

Logs == [c \in Kept |-> IF c \in members THEN Trimmed(list[c]) ELSE None]

\* A step that the log does not see.
LEMMA Unseen ==
  ASSUME \A c \in Kept : /\ c \in members' <=> c \in members
                         /\ c \in members => Trimmed(list'[c]) = Trimmed(list[c])
  PROVE  UNCHANGED Logs
  BY DEF Logs

\* One channel of the log changes.
LEMMA Seen ==
  ASSUME NEW c \in Kept, NEW s, c \in members', Trimmed(list'[c]) = s,
         \A d \in Kept \ {c} : (d \in members' <=> d \in members) /\ list'[d] = list[d]
  PROVE  Logs' = [Logs EXCEPT ![c] = s]
  BY DEF Logs

LEMMA EmptyTrimmed == Trimmed(<<>>) = <<>>
  BY RedisAssumption DEF Trimmed

\* SADD, which finds room where the channels that are kept are no more than the maximum.
LEMMA AddChannelSends ==
  ASSUME Inv, IsFiniteSet(Kept), Cardinality(Kept) <= MaxChannels,
         NEW t \in Tasks, AddChannel(t), NEW c \in Kept \ members, c = task[t].channel
  PROVE  Log!Send(c)
  <1> DEFINE open == {d \in Kept : Logs[d] # None}
  <1>1. c \in Kept /\ c \notin members /\ members' = members \cup {c} /\ list' = list
    BY DEF AddChannel
  <1>2. list[c] = <<>>
    BY <1>1 DEF Inv, EmptyBefore
  <1>3. c \notin open
    BY <1>1 DEF Logs
  <1>4. Cardinality(open) < MaxChannels
    <2>1. open \subseteq Kept \ {c}
      BY <1>3
    <2>2. IsFiniteSet(Kept \ {c}) /\ Cardinality(Kept \ {c}) = Cardinality(Kept) - 1
      BY <1>1, FS_RemoveElement
    <2>3. Cardinality(open) <= Cardinality(Kept \ {c}) /\ IsFiniteSet(open)
      BY <2>1, <2>2, FS_Subset
    <2>4. Cardinality(open) \in Nat /\ Cardinality(Kept) \in Nat /\ MaxChannels \in Nat
      BY <2>3, FS_CardinalityType, RedisAssumption
    <2>5. QED
      BY <2>2, <2>3, <2>4
  <1>5. Logs' = [Logs EXCEPT ![c] = <<>>]
    BY <1>1, <1>2, EmptyTrimmed, Seen
  <1>6. Log!Open = open
    BY DEF Log!Open, Logs
  <1> HIDE DEF open
  <1>7. Log!Create(c, <<>>)
    BY <1>3, <1>4, <1>5, <1>6 DEF Log!Create, Logs, Log!Cardinality, Cardinality
  <1>8. QED
    BY <1>7 DEF Log!Send

\* RPUSH: a message that the log does not hold.
LEMMA PushSends ==
  ASSUME Inv, NEW t \in Tasks, Push(t), NEW c \in Kept, c = task[t].channel
  PROVE  Log!Send(c)
  <1>1. PICK m \in Message : m = task[t].msg
    BY DEF Push, At, Inv, Busy
  <1>2. /\ task[t].pc = "push" /\ m \in Message /\ m.sender = t /\ c \in members /\ c \in Channels
    BY <1>1 DEF Push, At, Inv, Busy, Opened
  <1>3. list' = [list EXCEPT ![c] = Append(list[c], m)] /\ members' = members
    BY <1>1 DEF Push, PushRight
  <1>4. list[c] \in Seq(Message) /\ Sound(list[c])
    BY <1>2 DEF Inv, Types, AllSound
  <1>5. /\ list'[c] = Append(list[c], m)
        /\ \A d \in Kept \ {c} : list'[d] = list[d]
    BY <1>2, <1>3, RedisAssumption DEF Inv, Types
  <1>6. /\ Trimmed(list[c]) \in Seq(Message) /\ Sound(Trimmed(list[c]))
        /\ Trimmed(Append(list[c], m)) = Trimmed(Append(Trimmed(list[c]), m))
    BY <1>2, <1>4, TrimmedLast, TrimmedTwice, WithinSound
  <1>7. Trimmed(list'[c]) = Log!Newest(MaxPerChannel, Append(Trimmed(list[c]), m))
    BY <1>5, <1>6 DEF Trimmed, Log!Newest
  <1>8. Logs' = [Logs EXCEPT ![c] = Log!Newest(MaxPerChannel, Append(Trimmed(list[c]), m))]
    BY <1>2, <1>3, <1>5, <1>7, Seen
  <1>9. Logs[c] = Trimmed(list[c]) /\ Logs[c] # None
    BY <1>2, <1>6, RedisAssumption DEF Logs
  <1>10. m \notin Log!Content(Trimmed(list[c]))
    <2>1. \A i \in DOMAIN Trimmed(list[c]) :
            Trimmed(list[c])[i].sender = t => Trimmed(list[c])[i].id < m.id
      BY <1>1, <1>2, <1>6 DEF Sound
    <2>2. m.id \in Nat
      BY <1>2, RedisAssumption DEF Message
    <2>3. QED
      BY <1>2, <2>1, <2>2 DEF Log!Content
  <1>11. Log!Post(c, m)
    BY <1>8, <1>9, <1>10 DEF Log!Post, Log!Open, Logs
  <1>12. QED
    BY <1>11 DEF Log!Send

LEMMA ClearClears ==
  ASSUME Inv, NEW t \in Tasks, Clear(t), NEW c \in Kept \cap members, c = task[t].channel
  PROVE  Log!Clear(c)
  <1>1. /\ c \in Kept /\ c \in members /\ members' = members
        /\ list' = [list EXCEPT ![c] = <<>>]
    BY DEF Clear
  <1>2. list'[c] = <<>> /\ \A d \in Kept \ {c} : list'[d] = list[d]
    BY <1>1, RedisAssumption DEF Inv, Types
  <1>3. Logs' = [Logs EXCEPT ![c] = <<>>]
    BY <1>1, <1>2, EmptyTrimmed, Seen
  <1>4. Logs[c] # None
    <2>1. Trimmed(list[c]) \in Seq(Message)
      BY <1>1, TrimmedLast DEF Inv, Types
    <2>2. QED
      BY <1>1, <2>1, RedisAssumption DEF Logs
  <1>5. QED
    BY <1>1, <1>3, <1>4 DEF Log!Clear, Log!Open, Logs

LEMMA LogStep ==
  ASSUME IsFiniteSet(Kept), Cardinality(Kept) <= MaxChannels
  PROVE  Inv /\ [Next]_vars => [\E c \in Kept : Log!Send(c) \/ Log!Clear(c)]_Logs
  <1> DEFINE Step == \E c \in Kept : Log!Send(c) \/ Log!Clear(c)
  <1> SUFFICES ASSUME Inv, [Next]_vars PROVE Step \/ UNCHANGED Logs
    OBVIOUS
  <1> HIDE DEF Step
  <1>1. ASSUME UNCHANGED <<members, list>>
        PROVE  UNCHANGED Logs
    BY <1>1, Unseen
  <1>2. list \in [Channels -> Seq(Message)] /\ \A t \in Tasks : Busy(t)
    BY DEF Inv, Types
  <1>3. \A t \in Tasks : task[t].pc \in Deleting => task[t].channel \notin Kept
    BY <1>2 DEF Busy
  <1>4. ASSUME NEW t \in Tasks, AddChannel(t)
        PROVE  Step \/ UNCHANGED Logs
    <2>1. CASE task[t].channel \in Kept \ members
      <3>1. PICK c \in Kept \ members : c = task[t].channel
        BY <2>1
      <3>2. Log!Send(c)
        BY <1>4, <3>1, AddChannelSends
      <3>3. QED
        BY <3>2 DEF Step
    <2>2. CASE task[t].channel \notin Kept \ members
      BY <1>4, <2>2, Unseen DEF AddChannel
    <2>3. QED
      BY <2>1, <2>2
  <1>5. ASSUME NEW t \in Tasks, Push(t)
        PROVE  Step \/ UNCHANGED Logs
    <2>1. CASE task[t].channel \in Kept
      <3>1. PICK c \in Kept : c = task[t].channel
        BY <2>1
      <3>2. Log!Send(c)
        BY <1>5, <3>1, PushSends
      <3>3. QED
        BY <3>2 DEF Step
    <2>2. CASE task[t].channel \notin Kept
      BY <1>2, <1>5, <2>2, Unseen, RedisAssumption DEF Push
    <2>3. QED
      BY <2>1, <2>2
  <1>6. ASSUME NEW t \in Tasks, Trim(t)
        PROVE  UNCHANGED Logs
    <2>1. members' = members /\ list' = [list EXCEPT ![task[t].channel] = Trimmed(list[task[t].channel])]
      BY <1>6 DEF Trim
    <2>2. \A c \in Kept : list[c] \in Seq(Message)
      BY <1>2, RedisAssumption
    <2>3. \A c \in Kept : list'[c] = list[c] \/ list'[c] = Trimmed(list[c])
      BY <1>2, <2>1, RedisAssumption
    <2>4. \A c \in Kept : Trimmed(Trimmed(list[c])) = Trimmed(list[c])
      <3>1. SUFFICES ASSUME NEW c \in Kept PROVE Trimmed(Trimmed(list[c])) = Trimmed(list[c])
        OBVIOUS
      <3>2. Trimmed(list[c]) \in Seq(Message)
            /\ Len(Trimmed(list[c])) <= MaxPerChannel
        BY <2>2, TrimmedLast, RedisAssumption
      <3>3. QED
        BY <3>2 DEF Trimmed
    <2>5. QED
      BY <2>1, <2>3, <2>4, Unseen
  <1>7. ASSUME NEW t \in Tasks, Clear(t)
        PROVE  Step \/ UNCHANGED Logs
    <2>1. CASE task[t].channel \in Kept \cap members
      <3>1. PICK c \in Kept \cap members : c = task[t].channel
        BY <2>1
      <3>2. Log!Clear(c)
        BY <1>7, <3>1, ClearClears
      <3>3. QED
        BY <3>2 DEF Step
    <2>2. CASE task[t].channel \notin Kept \cap members
      <3>1. \A c \in Kept \cap members : list'[c] = list[c]
        BY <1>2, <1>7, <2>2, RedisAssumption DEF Clear
      <3>2. QED
        BY <1>7, <3>1, Unseen DEF Clear
    <2>3. QED
      BY <2>1, <2>2
  <1>8. ASSUME NEW t \in Tasks, DeleteList(t) \/ DeleteMember(t) \/ Rewrite(t)
        PROVE  UNCHANGED Logs
    <2>1. task[t].channel \notin Kept
      BY <1>3, <1>8 DEF DeleteList, DeleteMember, Rewrite, At, Deleting
    <2>2. /\ \A c \in Kept : c \in members' <=> c \in members
          /\ \A c \in Kept : list'[c] = list[c]
      BY <1>2, <1>8, <2>1, RedisAssumption DEF DeleteList, DeleteMember, Rewrite
    <2>3. QED
      BY <2>2, Unseen
  <1>9. CASE UNCHANGED vars
    BY <1>1, <1>9 DEF vars
  <1>10. CASE \E t \in Tasks :
           \/ \E c \in Channels :
                \/ AddFindsChannel(t, c) \/ ClearFindsChannel(t, c)
                \/ DeleteFindsChannel(t, c) \/ DeleteMessageFindsChannel(t, c)
                \/ \E since \in 0..MaxSends : WaitFindsChannel(t, c, since)
           \/ CountChannels(t) \/ CreateMessage(t) \/ Signal(t) \/ PopEvent(t)
           \/ \E m \in Message : FindMessage(t, m)
           \/ Read(t) \/ Register(t) \/ Woken(t) \/ TimeOut(t)
    BY <1>1, <1>10 DEF AddFindsChannel, ClearFindsChannel, DeleteFindsChannel,
       DeleteMessageFindsChannel, WaitFindsChannel, CountChannels, CreateMessage, Signal,
       PopEvent, FindMessage, Read, Register, Woken, TimeOut, Store
  <1>11. QED
    BY <1>4, <1>5, <1>6, <1>7, <1>8, <1>9, <1>10 DEF Next

\* Where the channels that clients only send to and clear are no more than the maximum,
\* the store on Redis implements the log of ChannelLog on them, whatever happens on the
\* others: every call to Redis is a step of the log, or none.
THEOREM RedisImplementsLog ==
  ASSUME IsFiniteSet(Kept), Cardinality(Kept) <= MaxChannels
  PROVE  Spec => ImplementsLog
  <1>1. Init => Log!Init
    BY DEF Init, Log!Init
  <1>2. QED
    BY <1>1, LogStep, RedisInv, PTL DEF Spec, ImplementsLog, Log!KeepSpec, Logs
=============================================================================
