------------------------- MODULE GatewayBufferProofs -------------------------
(***************************************************************************)
(* Theorems about GatewayBuffer, for any queues, polls, limits and numbers *)
(* of messages, late answers, lost connections and restarts.               *)
(***************************************************************************)
EXTENDS GatewayBuffer, SequenceTheorems, FiniteSetTheorems, TLAPS

(* A message that is not followed by a later one was delivered again.      *)
Before(X, Y, again) == \A x \in X, y \in Y : x >= y => y \in again

Ordered(s, again) ==
  \A i, j \in DOMAIN s : i < j /\ s[i] >= s[j] => s[j] \in again

(* More messages delivered again make it easier to be in order.            *)
LEMMA MoreAgain ==
  ASSUME NEW R, NEW T, R \subseteq T
  PROVE  /\ \A s : Ordered(s, R) => Ordered(s, T)
         /\ \A X, Y : Before(X, Y, R) => Before(X, Y, T)
BY DEF Ordered, Before

(* The empty list.                                                         *)
LEMMA EmptyList ==
  /\ <<>> \in Seq(Message) /\ Elements(<<>>) = {}
  /\ \A R : Ordered(<<>>, R)
BY DEF Elements, Ordered

(* The elements of a list of messages are messages.                        *)
LEMMA ElementsType ==
  ASSUME NEW s \in Seq(Message)
  PROVE  Elements(s) \subseteq Message
<1>1. \A i \in DOMAIN s : s[i] \in Message
  OBVIOUS
<1> QED
  BY <1>1 DEF Elements

(* Two lists, one after the other.                                         *)
LEMMA ConcatList ==
  ASSUME NEW s \in Seq(Message), NEW t \in Seq(Message)
  PROVE  /\ s \o t \in Seq(Message)
         /\ Elements(s \o t) = Elements(s) \cup Elements(t)
         /\ \A R : Ordered(s, R) /\ Ordered(t, R)
                     /\ Before(Elements(s), Elements(t), R)
                   => Ordered(s \o t, R)
<1> DEFINE u == s \o t
           n == Len(s)
<1>1. /\ u \in Seq(Message) /\ Len(u) = n + Len(t)
      /\ \A i \in 1 .. n : u[i] = s[i]
      /\ \A i \in 1 .. Len(u) : i > n => u[i] = t[i - n]
      /\ \A i \in 1 .. Len(t) : u[i + n] = t[i]
  OBVIOUS
<1>2. /\ DOMAIN s = 1 .. n /\ DOMAIN t = 1 .. Len(t)
      /\ DOMAIN u = 1 .. Len(u) /\ n \in Nat /\ Len(t) \in Nat
  BY <1>1
<1> HIDE DEF u, n
<1>3. \A i \in DOMAIN u : \/ i \in DOMAIN s /\ i <= n /\ u[i] = s[i]
                          \/ /\ i > n /\ i - n \in DOMAIN t
                             /\ u[i] = t[i - n]
  BY <1>1, <1>2
<1>4. \A i \in DOMAIN t : i + n \in DOMAIN u /\ u[i + n] = t[i]
  BY <1>1, <1>2
<1>5. \A i \in DOMAIN s : i \in DOMAIN u /\ u[i] = s[i]
  BY <1>1, <1>2
<1>6. Elements(u) = Elements(s) \cup Elements(t)
  <2>1. \A i \in DOMAIN u : u[i] \in Elements(s) \cup Elements(t)
    BY <1>3 DEF Elements
  <2>2. \A i \in DOMAIN s : s[i] \in Elements(u)
    BY <1>5 DEF Elements
  <2>3. \A i \in DOMAIN t : t[i] \in Elements(u)
    BY <1>4 DEF Elements
  <2> QED
    BY <2>1, <2>2, <2>3 DEF Elements
<1>7. ASSUME NEW R, Ordered(s, R), Ordered(t, R),
             Before(Elements(s), Elements(t), R)
      PROVE  Ordered(u, R)
  <2> SUFFICES ASSUME NEW i \in DOMAIN u, NEW j \in DOMAIN u,
                      i < j, u[i] >= u[j]
               PROVE  u[j] \in R
    BY DEF Ordered
  <2>1. i \in Int /\ j \in Int /\ n \in Int
    BY <1>2
  <2>2. CASE i <= n /\ j <= n
    BY <1>2, <1>3, <1>7, <2>1, <2>2 DEF Ordered
  <2>3. CASE i <= n /\ j > n
    <3>1. u[i] \in Elements(s) /\ u[j] \in Elements(t)
      BY <1>3, <2>1, <2>3 DEF Elements
    <3> QED
      BY <3>1, <1>7 DEF Before
  <2>4. CASE i > n /\ j > n
    <3> DEFINE a == i - n
               b == j - n
    <3>1. /\ a \in DOMAIN t /\ b \in DOMAIN t /\ a < b
          /\ u[i] = t[a] /\ u[j] = t[b]
      BY <1>3, <2>1, <2>4
    <3> HIDE DEF a, b
    <3> QED
      BY <3>1, <1>7 DEF Ordered
  <2> QED
    BY <2>1, <2>2, <2>3, <2>4
<1> QED
  BY <1>1, <1>6, <1>7 DEF u

(* One more message at the end.                                            *)
LEMMA AppendList ==
  ASSUME NEW s \in Seq(Message), NEW m \in Message
  PROVE  /\ Append(s, m) \in Seq(Message)
         /\ Elements(Append(s, m)) = Elements(s) \cup {m}
         /\ \A R : Ordered(s, R) /\ Before(Elements(s), {m}, R)
                   => Ordered(Append(s, m), R)
<1> DEFINE t == <<m>>
<1>1. t \in Seq(Message) /\ Append(s, m) = s \o t /\ DOMAIN t = {1} /\ t[1] = m
  OBVIOUS
<1>2. Elements(t) = {m} /\ \A R : Ordered(t, R)
  BY <1>1 DEF Elements, Ordered
<1> HIDE DEF t
<1> QED
  BY <1>1, <1>2, ConcatList

(* The part of a list between two positions.                               *)
LEMMA PartOfList ==
  ASSUME NEW s \in Seq(Message), NEW m \in Nat \ {0}, NEW n \in 0 .. Len(s)
  PROVE  /\ SubSeq(s, m, n) \in Seq(Message)
         /\ Elements(SubSeq(s, m, n)) = {s[i] : i \in m .. n}
         /\ \A R : Ordered(s, R) => Ordered(SubSeq(s, m, n), R)
<1> DEFINE t == SubSeq(s, m, n)
           d == m - 1
<1>1. Len(s) \in Nat /\ DOMAIN s = 1 .. Len(s) /\ \A i \in 1 .. Len(s) : s[i] \in Message
  OBVIOUS
<1>2. /\ t \in Seq(Message) /\ Len(t) = IF m <= n THEN n - m + 1 ELSE 0
      /\ \A i \in 1 .. n - m + 1 : t[i] = s[m + i - 1]
  <2>1. \A i \in m .. n : s[i] \in Message
    BY <1>1
  <2>2. m \in Int /\ n \in Int
    BY <1>1
  <2> QED
    BY <2>1, <2>2, SubSeqProperties
<1>3. DOMAIN t = 1 .. n - d /\ d \in Nat
  <2>1. DOMAIN t = 1 .. Len(t)
    BY <1>2
  <2> QED
    BY <1>1, <1>2, <2>1
<1> HIDE DEF t
<1>4. \A i \in DOMAIN t : i + d \in m .. n /\ i + d \in DOMAIN s /\ t[i] = s[i + d]
  BY <1>1, <1>2, <1>3
<1>5. \A i \in m .. n : i - d \in DOMAIN t /\ s[i] = t[i - d]
  <2> SUFFICES ASSUME NEW i \in m .. n
               PROVE  i - d \in DOMAIN t /\ s[i] = t[i - d]
    OBVIOUS
  <2> DEFINE a == i - d
  <2>1. a \in 1 .. n - m + 1 /\ a \in DOMAIN t /\ m + a - 1 = i
    BY <1>1, <1>3
  <2> HIDE DEF a
  <2>2. t[a] = s[m + a - 1]
    BY <1>2, <2>1
  <2> QED
    BY <2>1, <2>2 DEF a
<1> HIDE DEF d
<1>6. Elements(t) = {s[i] : i \in m .. n}
  <2>1. \A i \in DOMAIN t : t[i] \in {s[k] : k \in m .. n}
    BY <1>4
  <2>2. \A i \in m .. n : s[i] \in Elements(t)
    BY <1>5 DEF Elements
  <2> QED
    BY <2>1, <2>2 DEF Elements
<1>7. ASSUME NEW R, Ordered(s, R) PROVE Ordered(t, R)
  <2> SUFFICES ASSUME NEW i \in DOMAIN t, NEW j \in DOMAIN t,
                      i < j, t[i] >= t[j]
               PROVE  t[j] \in R
    BY DEF Ordered
  <2> DEFINE a == i + d
             b == j + d
  <2>1. /\ a \in DOMAIN s /\ b \in DOMAIN s /\ a < b
        /\ t[i] = s[a] /\ t[j] = s[b]
    BY <1>3, <1>4
  <2> HIDE DEF a, b
  <2> QED
    BY <2>1, <1>7 DEF Ordered
<1> QED
  BY <1>2, <1>6, <1>7 DEF t

(* The first message and the others.                                       *)
LEMMA HeadTailList ==
  ASSUME NEW s \in Seq(Message), s # <<>>
  PROVE  /\ Head(s) \in Message /\ Tail(s) \in Seq(Message)
         /\ Elements(s) = {Head(s)} \cup Elements(Tail(s))
         /\ \A R : Ordered(s, R) => /\ Ordered(Tail(s), R)
                                    /\ Before({Head(s)}, Elements(Tail(s)), R)
<1>1. /\ Head(s) \in Message /\ Head(s) = s[1] /\ Len(s) \in Nat \ {0}
      /\ Tail(s) = SubSeq(s, 2, Len(s)) /\ DOMAIN s = 1 .. Len(s)
  BY TailIsSubSeq
<1>2. /\ Tail(s) \in Seq(Message)
      /\ Elements(Tail(s)) = {s[i] : i \in 2 .. Len(s)}
      /\ \A R : Ordered(s, R) => Ordered(Tail(s), R)
  <2>1. 2 \in Nat \ {0} /\ Len(s) \in 0 .. Len(s)
    BY <1>1
  <2> QED
    BY <1>1, <2>1, PartOfList
<1>3. Elements(s) = {Head(s)} \cup Elements(Tail(s))
  <2>1. 1 .. Len(s) = {1} \cup 2 .. Len(s)
    BY <1>1
  <2> QED
    BY <1>1, <1>2, <2>1 DEF Elements
<1>4. ASSUME NEW R, Ordered(s, R) PROVE Before({Head(s)}, Elements(Tail(s)), R)
  <2>1. \A i \in 2 .. Len(s) : i \in DOMAIN s /\ 1 < i
    BY <1>1
  <2>2. 1 \in DOMAIN s
    BY <1>1
  <2> QED
    BY <1>1, <1>2, <1>4, <2>1, <2>2 DEF Before, Ordered
<1> QED
  BY <1>1, <1>2, <1>3, <1>4

(* What a drain hands out comes before what it leaves in the buffer.       *)
LEMMA DrainedList ==
  ASSUME NEW s \in Seq(Message)
  PROVE  /\ Out(s) \in Seq(Message) /\ Kept(s) \in Seq(Message)
         /\ Elements(s) = Elements(Out(s)) \cup Elements(Kept(s))
         /\ \A R : Ordered(s, R) =>
              /\ Ordered(Out(s), R) /\ Ordered(Kept(s), R)
              /\ Before(Elements(Out(s)), Elements(Kept(s)), R)
<1> DEFINE n == IF Len(s) < Limit THEN Len(s) ELSE Limit
<1>1. n \in 0 .. Len(s) /\ Len(s) \in Nat /\ DOMAIN s = 1 .. Len(s)
  BY GBAssumption
<1>2. Out(s) = SubSeq(s, 1, n)
  BY DEF Out
<1>3. Len(Out(s)) = n
  <2>1. \A i \in 1 .. n : s[i] \in Message
    BY <1>1
  <2> HIDE DEF n
  <2> QED
    BY <1>1, <1>2, <2>1, SubSeqProperties
<1> HIDE DEF n
<1>4. Kept(s) = SubSeq(s, n + 1, Len(s))
  BY <1>3 DEF Kept
<1>5. /\ Out(s) \in Seq(Message) /\ Elements(Out(s)) = {s[i] : i \in 1 .. n}
      /\ \A R : Ordered(s, R) => Ordered(Out(s), R)
  BY <1>1, <1>2, PartOfList
<1>6. /\ Kept(s) \in Seq(Message)
      /\ Elements(Kept(s)) = {s[i] : i \in n + 1 .. Len(s)}
      /\ \A R : Ordered(s, R) => Ordered(Kept(s), R)
  BY <1>1, <1>4, PartOfList
<1>7. Elements(s) = Elements(Out(s)) \cup Elements(Kept(s))
  <2>1. 1 .. Len(s) = (1 .. n) \cup (n + 1 .. Len(s))
    BY <1>1
  <2> QED
    BY <1>1, <1>5, <1>6, <2>1 DEF Elements
<1>8. ASSUME NEW R, Ordered(s, R)
      PROVE  Before(Elements(Out(s)), Elements(Kept(s)), R)
  <2>1. \A i \in 1 .. n, j \in n + 1 .. Len(s) :
           i \in DOMAIN s /\ j \in DOMAIN s /\ i < j
    BY <1>1
  <2> QED
    BY <1>5, <1>6, <1>8, <2>1 DEF Before, Ordered
<1> QED
  BY <1>5, <1>6, <1>7, <1>8

-----------------------------------------------------------------------------
(* The consumers of a queue that have a tag, that a start has registered   *)
(* and not yet tagged, and that is being cancelled, are different ones: a  *)
(* cancellation never finds that there is none.  Those that starts have    *)
(* still to register have been allowed for.                                *)
Declaring(q) == {p \in Polls : poll[p].q = q /\ poll[p].at = "declaring"}
Consuming(q) == {p \in Polls : poll[p].q = q /\ poll[p].at = "consuming"}

Flags(q) == (IF tagged[q] THEN 1 ELSE 0) + (IF Stopping(q) THEN 1 ELSE 0)
Promised(q) == Flags(q) + Cardinality(Consuming(q))

Counted ==
  \A q \in Queues :
    /\ IsFiniteSet(Starting(q))
    /\ Promised(q) <= consumers[q]
    /\ consumers[q] + Cardinality(Declaring(q)) <= MaxConsumers

PollState ==
  [q : Queues, late : BOOLEAN,
   at : {"idle", "called", "declaring", "consuming", "failed"}]
WorkerState ==
  [at : {"off", "asleep", "stopping"}, q : Queues, rest : SUBSET Queues]

(* What a step does to the parts of the state that starts and stops change *)
(* and to the messages is proved separately.                               *)
ControlOK ==
  /\ consumers \in [Queues -> 0..MaxConsumers]
  /\ tagged \in [Queues -> BOOLEAN]
  /\ lastUsed \in [Queues -> {"none", "recent", "old"}]
  /\ poll \in [Polls -> PollState] /\ worker \in WorkerState
  /\ faults \in 0..MaxFaults /\ orphans \in [Queues -> BOOLEAN]

LinesOK ==
  /\ sent \in [Queues -> 0..MaxMessages]
  /\ queue \in [Queues -> Seq(Message)] /\ unacked \in [Queues -> Seq(Message)]
  /\ buffer \in [Queues -> Seq(Message)]
  /\ answered \in [Queues -> Seq(Message)]
  /\ exposed \in [Queues -> SUBSET Message]
  /\ unread \in [Queues -> SUBSET Message]
  /\ returned \in [Queues -> SUBSET Message]

(* The two parts are the type invariant.                                   *)
LEMMA TypeParts == TypeOK <=> ControlOK /\ LinesOK
BY DEF TypeOK, ControlOK, LinesOK, PollState, WorkerState

(* The messages that a step moves are messages.                            *)
LEMMA DrainLines ==
  ASSUME LinesOK, ControlOK, NEW p \in Polls, Drain(p),
         UNCHANGED <<sent, queue, unacked, exposed, returned>>
  PROVE  LinesOK'
<1> DEFINE q == poll[p].q
<1>1. /\ q \in Queues
      /\ Out(buffer[q]) \in Seq(Message) /\ Kept(buffer[q]) \in Seq(Message)
  BY DrainedList DEF ControlOK, LinesOK, PollState
<1>2. buffer' = [buffer EXCEPT ![q] = Kept(buffer[q])]
  BY DEF Drain
<1>3. CASE poll[p].late
  <2>1. /\ unread' = [unread EXCEPT ![q] =
                        unread[q] \cup Elements(Out(buffer[q]))]
        /\ answered' = answered
    BY <1>3 DEF Drain
  <2>2. Elements(Out(buffer[q])) \subseteq Message
    BY <1>1, ElementsType
  <2> QED
    BY <1>1, <1>2, <2>1, <2>2 DEF LinesOK
<1>4. CASE ~poll[p].late
  <2>1. /\ answered' = [answered EXCEPT ![q] = answered[q] \o Out(buffer[q])]
        /\ unread' = unread
    BY <1>4 DEF Drain
  <2>2. answered[q] \o Out(buffer[q]) \in Seq(Message)
    BY <1>1, ConcatList DEF LinesOK
  <2> QED
    BY <1>1, <1>2, <2>1, <2>2 DEF LinesOK
<1> QED
  BY <1>3, <1>4

(* What the broker takes back are messages.                                *)
LEMMA RequeueLines ==
  ASSUME LinesOK, Requeue, Returned, unacked' = [q \in Queues |-> <<>>]
  PROVE  /\ queue' \in [Queues -> Seq(Message)]
         /\ unacked' \in [Queues -> Seq(Message)]
         /\ returned' \in [Queues -> SUBSET Message]
<1>1. \A q \in Queues : /\ unacked[q] \o queue[q] \in Seq(Message)
                        /\ returned[q] \cup Elements(unacked[q]) \subseteq Message
  BY ConcatList, ElementsType DEF LinesOK
<1>2. /\ [q \in Queues |-> unacked[q] \o queue[q]] \in [Queues -> Seq(Message)]
      /\ [q \in Queues |-> returned[q] \cup Elements(unacked[q])]
           \in [Queues -> SUBSET Message]
      /\ [q \in Queues |-> <<>>] \in [Queues -> Seq(Message)]
  BY <1>1, EmptyList
<1> QED
  BY <1>2 DEF Requeue, Returned

(* Every step keeps the shapes of what holds messages.                     *)
LEMMA LinesStep == LinesOK /\ ControlOK /\ [Next]_vars => LinesOK'
<1> SUFFICES ASSUME LinesOK, ControlOK, [Next]_vars PROVE LinesOK'
  OBVIOUS
<1>1. ASSUME NEW q \in Queues, Publish(q) PROVE LinesOK'
  <2>1. sent[q] + 1 \in Message /\ sent' = [sent EXCEPT ![q] = sent[q] + 1]
    BY <1>1, GBAssumption DEF Publish, LinesOK, Message
  <2>2. queue' = [queue EXCEPT ![q] = Append(queue[q], sent[q] + 1)]
    BY <1>1, <2>1 DEF Publish, LinesOK
  <2>3. Append(queue[q], sent[q] + 1) \in Seq(Message)
    BY <2>1, AppendList DEF LinesOK
  <2>4. sent[q] + 1 \in 0..MaxMessages
    BY <2>1, GBAssumption DEF Message
  <2>5. sent' \in [Queues -> 0..MaxMessages] /\ queue' \in [Queues -> Seq(Message)]
    BY <2>1, <2>2, <2>3, <2>4 DEF LinesOK
  <2> QED
    BY <1>1, <2>5 DEF Publish, LinesOK, gateway, history
<1>2. ASSUME NEW q \in Queues, Deliver(q) PROVE LinesOK'
  <2> DEFINE m == Head(queue[q])
  <2>1. m \in Message /\ Tail(queue[q]) \in Seq(Message)
    BY <1>2, HeadTailList DEF Deliver, LinesOK
  <2>2. /\ queue' = [queue EXCEPT ![q] = Tail(queue[q])]
        /\ unacked' = [unacked EXCEPT ![q] = Append(unacked[q], m)]
        /\ buffer' = [buffer EXCEPT ![q] = Append(buffer[q], m)]
        /\ exposed' = [exposed EXCEPT ![q] =
                         IF FoundIdle(q) THEN exposed[q] \cup {m} ELSE exposed[q]]
        /\ UNCHANGED <<sent, answered, unread, returned>>
    BY <1>2 DEF Deliver
  <2> HIDE DEF m
  <2>3. Append(unacked[q], m) \in Seq(Message) /\ Append(buffer[q], m) \in Seq(Message)
    BY <2>1, AppendList DEF LinesOK
  <2> QED
    BY <2>1, <2>2, <2>3 DEF LinesOK
<1>3. ASSUME NEW q \in Queues, Ack(q) PROVE LinesOK'
  <2>1. Tail(unacked[q]) \in Seq(Message)
    BY <1>3, HeadTailList DEF Ack, LinesOK
  <2> QED
    BY <1>3, <2>1 DEF Ack, LinesOK, gateway, history
<1>4. ASSUME NEW q \in Queues, Called(q) \/ Age(q) PROVE LinesOK'
  BY <1>4 DEF Called, Call, Age, LinesOK, broker, history
<1>5. ASSUME NEW p \in Polls, TimeOut(p) \/ StartConsumer(p) \/ Consume(p)
      PROVE  LinesOK'
  BY <1>5 DEF TimeOut, StartConsumer, Consume, LinesOK, broker, history
<1>6. ASSUME NEW p \in Polls, DrainBuffer(p) \/ ConsumerStarted(p) \/ StartFailed(p)
      PROVE  LinesOK'
  BY <1>6, DrainLines DEF DrainBuffer, ConsumerStarted, StartFailed, broker
<1>7. CASE WakeWorker
  BY <1>7 DEF WakeWorker, LinesOK, broker, history
<1>8. CASE StopDone
  BY <1>8, EmptyList DEF StopDone, LinesOK, ControlOK, WorkerState, history
<1>9. CASE Reconnect
  BY <1>9, RequeueLines DEF Reconnect, LinesOK
<1>10. CASE Restart
  <2>1. \A q \in Queues : unread[q] \cup Elements(buffer[q]) \subseteq Message
    BY ElementsType DEF LinesOK
  <2>2. unread' \in [Queues -> SUBSET Message]
    BY <1>10, <2>1 DEF Restart
  <2>3. buffer' \in [Queues -> Seq(Message)]
    BY <1>10, EmptyList DEF Restart
  <2> QED
    BY <1>10, <2>2, <2>3, RequeueLines DEF Restart, LinesOK
<1>11. CASE UNCHANGED vars
  BY <1>11 DEF vars, broker, gateway, history, LinesOK
<1> QED
  BY <1>1, <1>2, <1>3, <1>4, <1>5, <1>6, <1>7, <1>8, <1>9, <1>10, <1>11
  DEF Next, Coroutine

-----------------------------------------------------------------------------
(* Starts that have registered a consumer or not are starts.               *)
LEMMA StartingParts ==
  ASSUME NEW q, IsFiniteSet(Starting(q))
  PROVE  /\ IsFiniteSet(Declaring(q)) /\ Cardinality(Declaring(q)) \in Nat
         /\ IsFiniteSet(Consuming(q)) /\ Cardinality(Consuming(q)) \in Nat
         /\ Cardinality(Declaring(q)) <= Cardinality(Starting(q))
         /\ Cardinality(Starting(q)) \in Nat
<1>1. Declaring(q) \in SUBSET Starting(q) /\ Consuming(q) \in SUBSET Starting(q)
  BY DEF Declaring, Consuming, Starting
<1> QED
  BY <1>1, FS_Subset, FS_CardinalityType

(* What a step of one poll does to the sets of starts.                     *)
LEMMA PollEffect ==
  ASSUME NEW p \in Polls, \A o \in Polls \ {p} : poll'[o] = poll[o]
  PROVE  /\ \A q \in Queues :
              Declaring(q)' = IF poll'[p].q = q /\ poll'[p].at = "declaring"
                              THEN Declaring(q) \cup {p}
                              ELSE Declaring(q) \ {p}
         /\ \A q \in Queues :
              Consuming(q)' = IF poll'[p].q = q /\ poll'[p].at = "consuming"
                              THEN Consuming(q) \cup {p}
                              ELSE Consuming(q) \ {p}
         /\ \A q \in Queues : Starting(q)' \subseteq Starting(q) \cup {p}
BY DEF Declaring, Consuming, Starting

(* A step that promises no more than before and starts nothing.            *)
LEMMA CountedFrame ==
  ASSUME Counted, ControlOK, consumers' = consumers,
         \A q \in Queues : Flags(q)' <= Flags(q),
         \A q \in Queues : /\ Declaring(q)' \subseteq Declaring(q)
                           /\ Consuming(q)' \subseteq Consuming(q)
  PROVE  Counted'
<1> SUFFICES ASSUME NEW q \in Queues
             PROVE  /\ IsFiniteSet(Starting(q)')
                    /\ Promised(q)' <= consumers'[q]
                    /\ consumers'[q] + Cardinality(Declaring(q)')
                         <= MaxConsumers
  BY DEF Counted
<1>1. /\ IsFiniteSet(Starting(q)) /\ Promised(q) <= consumers[q]
      /\ consumers[q] + Cardinality(Declaring(q)) <= MaxConsumers
  BY DEF Counted
<1>2. Starting(q)' \in SUBSET Starting(q)
  BY DEF Starting, Declaring, Consuming
<1>3. /\ Cardinality(Declaring(q)) \in Nat /\ Cardinality(Consuming(q)) \in Nat
      /\ Cardinality(Declaring(q)') \in Nat /\ Cardinality(Consuming(q)') \in Nat
      /\ Cardinality(Declaring(q)') <= Cardinality(Declaring(q))
      /\ Cardinality(Consuming(q)') <= Cardinality(Consuming(q))
  <2>1. /\ IsFiniteSet(Declaring(q)) /\ Cardinality(Declaring(q)) \in Nat
        /\ IsFiniteSet(Consuming(q)) /\ Cardinality(Consuming(q)) \in Nat
    BY <1>1, StartingParts
  <2>2. Declaring(q)' \in SUBSET Declaring(q) /\ Consuming(q)' \in SUBSET Consuming(q)
    OBVIOUS
  <2> QED
    BY <2>1, <2>2, FS_Subset, FS_CardinalityType
<1>4. IsFiniteSet(Starting(q)')
  BY <1>1, <1>2, FS_Subset
<1>5. Flags(q) \in 0 .. 2 /\ Flags(q)' \in 0 .. 2 /\ consumers[q] \in Nat
  BY GBAssumption DEF Flags, ControlOK
<1>6. Flags(q)' <= Flags(q) /\ MaxConsumers \in Nat
  BY GBAssumption
<1> HIDE DEF Flags
<1> QED
  BY <1>1, <1>3, <1>4, <1>5, <1>6 DEF Promised

(* What becomes of the tags when the background task stops the next queue. *)
LEMMA StopEffect ==
  ASSUME ControlOK, NEW found, found \subseteq Queues, StopNext(found)
  PROVE  /\ tagged' \in [Queues -> BOOLEAN] /\ worker' \in WorkerState
         /\ \A q \in Queues : Flags(q)' = IF tagged[q] THEN 1 ELSE 0
<1>1. CASE /\ worker' = [worker EXCEPT !.at = "asleep", !.rest = {}]
           /\ UNCHANGED tagged
  <2>1. worker' \in WorkerState /\ worker'.at = "asleep"
    BY <1>1 DEF ControlOK, WorkerState
  <2>2. \A q \in Queues : ~ Stopping(q)'
    BY <2>1 DEF Stopping
  <2> QED
    BY <1>1, <2>1, <2>2 DEF ControlOK, Flags
<1>2. ASSUME NEW r \in found, tagged[r],
             worker' = [at |-> "stopping", q |-> r, rest |-> found \ {r}],
             tagged' = [tagged EXCEPT ![r] = FALSE]
      PROVE  /\ tagged' \in [Queues -> BOOLEAN] /\ worker' \in WorkerState
             /\ \A q \in Queues : Flags(q)' = IF tagged[q] THEN 1 ELSE 0
  BY <1>2 DEF ControlOK, WorkerState, Flags, Stopping
<1> QED
  BY <1>1, <1>2 DEF StopNext

(* A start that is one step further.                                       *)
LEMMA StartStep ==
  ASSUME ControlOK, Counted, NEW p \in Polls, StartConsumer(p) \/ Consume(p)
  PROVE  ControlOK' /\ Counted'
<1>0. PICK q \in Queues : q = poll[p].q
  BY DEF ControlOK, PollState
<1>1. /\ q \in Queues /\ MaxConsumers \in Nat
      /\ IsFiniteSet(Starting(q)) /\ Promised(q) <= consumers[q]
      /\ consumers[q] + Cardinality(Declaring(q)) <= MaxConsumers
      /\ consumers[q] \in Nat
  BY GBAssumption DEF ControlOK, Counted, PollState
<1>2. \A r \in Queues :
        /\ IsFiniteSet(Starting(r))
        /\ IsFiniteSet(Declaring(r)) /\ Cardinality(Declaring(r)) \in Nat
        /\ IsFiniteSet(Consuming(r)) /\ Cardinality(Consuming(r)) \in Nat
        /\ Cardinality(Declaring(r)) <= Cardinality(Starting(r))
        /\ Cardinality(Starting(r)) \in Nat
  BY StartingParts DEF Counted
<1>3. CASE StartConsumer(p)
  <2> DEFINE r == [poll[p] EXCEPT !.at = "declaring"]
  <2>1. /\ r \in PollState /\ r.q = q /\ r.at = "declaring"
        /\ poll[p].at = "called" /\ poll' = [poll EXCEPT ![p] = r]
        /\ consumers[q] + Cardinality(Starting(q)) < MaxConsumers
        /\ UNCHANGED <<consumers, tagged, worker, lastUsed, faults>>
    BY <1>0, <1>3 DEF StartConsumer, ControlOK, PollState, broker
  <2>2. orphans' \in [Queues -> BOOLEAN]
    <3>1. orphans' = [orphans EXCEPT ![q] =
                        orphans[q] \/ Starting(q) # {} \/ Stopping(q)]
      BY <1>0, <1>3 DEF StartConsumer
    <3>2. (orphans[q] \/ Starting(q) # {} \/ Stopping(q)) \in BOOLEAN
      BY <1>1 DEF ControlOK, Stopping
    <3> QED
      BY <3>1, <3>2 DEF ControlOK
  <2> HIDE DEF r
  <2>3. /\ poll' \in [Polls -> PollState]
        /\ poll'[p].q = q /\ poll'[p].at = "declaring"
        /\ \A o \in Polls \ {p} : poll'[o] = poll[o]
    BY <2>1 DEF ControlOK
  <2>0. /\ \A s \in Queues : s = q => Declaring(s)' = Declaring(s) \cup {p}
        /\ \A s \in Queues : s # q => Declaring(s)' = Declaring(s) \ {p}
        /\ \A s \in Queues : Consuming(s)' = Consuming(s) \ {p}
        /\ \A s \in Queues : Starting(s)' \subseteq Starting(s) \cup {p}
    BY <2>3, PollEffect
  <2>4. \A s \in Queues : p \notin Declaring(s) /\ p \notin Consuming(s)
    BY <2>1 DEF Declaring, Consuming
  <2>5. ControlOK'
    BY <2>1, <2>2, <2>3 DEF ControlOK
  <2> SUFFICES ASSUME NEW s \in Queues
               PROVE  /\ IsFiniteSet(Starting(s)')
                      /\ Promised(s)' <= consumers'[s]
                      /\ consumers'[s] + Cardinality(Declaring(s)')
                           <= MaxConsumers
    BY <2>5 DEF Counted
  <2>6. IsFiniteSet(Starting(s)')
    <3>1. IsFiniteSet(Starting(s) \cup {p})
      BY <1>2, FS_AddElement
    <3> QED
      BY <2>0, <3>1, FS_Subset
  <2>7. Consuming(s)' = Consuming(s) /\ Flags(s)' = Flags(s)
    <3>1. Consuming(s)' = Consuming(s) \ {p} /\ p \notin Consuming(s)
      BY <2>4, <2>0
    <3>2. Flags(s)' = Flags(s)
      BY <2>1 DEF Flags, Stopping
    <3> QED
      BY <3>1, <3>2
  <2>8. Promised(s)' <= consumers'[s]
    BY <2>1, <2>7 DEF Promised, Counted
  <2>9. CASE s = q
    <3>1. Cardinality(Declaring(q)') = Cardinality(Declaring(q)) + 1
      <4>1. /\ Declaring(q)' = Declaring(q) \cup {p}
            /\ p \notin Declaring(q) /\ IsFiniteSet(Declaring(q))
        BY <1>1, <1>2, <2>4, <2>0
      <4> QED
        BY <4>1, FS_AddElement
    <3>2. /\ Cardinality(Declaring(q)) <= Cardinality(Starting(q))
          /\ Cardinality(Declaring(q)) \in Nat
          /\ Cardinality(Starting(q)) \in Nat
      BY <1>1, <1>2
    <3> QED
      BY <1>1, <2>1, <2>6, <2>8, <2>9, <3>1, <3>2
  <2>10. CASE s # q
    <3>1. Declaring(s)' = Declaring(s)
      <4>1. Declaring(s)' = Declaring(s) \ {p} /\ p \notin Declaring(s)
        BY <2>4, <2>10, <2>0
      <4> QED
        BY <4>1
    <3> QED
      BY <2>1, <2>6, <2>8, <3>1 DEF Counted
  <2> QED
    BY <2>9, <2>10
<1>4. CASE Consume(p)
  <2> DEFINE r == [poll[p] EXCEPT !.at = "consuming"]
  <2>1. /\ r \in PollState /\ r.q = q /\ r.at = "consuming"
        /\ poll[p].at = "declaring" /\ poll' = [poll EXCEPT ![p] = r]
        /\ consumers' = [consumers EXCEPT ![q] = consumers[q] + 1]
        /\ UNCHANGED <<tagged, worker, lastUsed, faults, orphans>>
    BY <1>0, <1>4 DEF Consume, ControlOK, PollState, history
  <2> HIDE DEF r
  <2>2. /\ poll' \in [Polls -> PollState]
        /\ poll'[p].q = q /\ poll'[p].at = "consuming"
        /\ \A o \in Polls \ {p} : poll'[o] = poll[o]
    BY <2>1 DEF ControlOK
  <2>0. /\ \A s \in Queues : s = q => Consuming(s)' = Consuming(s) \cup {p}
        /\ \A s \in Queues : s # q => Consuming(s)' = Consuming(s) \ {p}
        /\ \A s \in Queues : Declaring(s)' = Declaring(s) \ {p}
        /\ \A s \in Queues : Starting(s)' \subseteq Starting(s) \cup {p}
    BY <2>2, PollEffect
  <2>3. /\ p \in Declaring(q) /\ p \notin Consuming(q)
        /\ \A s \in Queues \ {q} : p \notin Declaring(s) /\ p \notin Consuming(s)
    BY <1>0, <2>1 DEF Declaring, Consuming
  <2>4. /\ Cardinality(Declaring(q)') = Cardinality(Declaring(q)) - 1
        /\ Cardinality(Declaring(q)) >= 1
        /\ Cardinality(Consuming(q)') = Cardinality(Consuming(q)) + 1
    <3>1. /\ Declaring(q)' = Declaring(q) \ {p}
          /\ Consuming(q)' = Consuming(q) \cup {p}
      BY <2>0
    <3>2. IsFiniteSet(Declaring(q)) /\ IsFiniteSet(Consuming(q))
      BY <1>1, <1>2
    <3>3. Declaring(q) # {} /\ Cardinality(Declaring(q)) \in Nat
      BY <1>1, <1>2, <2>3
    <3>4. Cardinality(Declaring(q)) # 0
      BY <3>2, <3>3, FS_EmptySet
    <3>5. /\ Cardinality(Declaring(q) \ {p}) = Cardinality(Declaring(q)) - 1
          /\ Cardinality(Consuming(q) \cup {p}) = Cardinality(Consuming(q)) + 1
      BY <2>3, <3>2, FS_AddElement, FS_RemoveElement
    <3> QED
      BY <3>1, <3>3, <3>4, <3>5
  <2>5. consumers[q] + 1 <= MaxConsumers
    BY <1>1, <2>4, <1>2
  <2>6. ControlOK'
    <3>1. consumers' \in [Queues -> 0..MaxConsumers]
      BY <1>1, <2>1, <2>5 DEF ControlOK
    <3> QED
      BY <2>1, <2>2, <3>1 DEF ControlOK
  <2> SUFFICES ASSUME NEW s \in Queues
               PROVE  /\ IsFiniteSet(Starting(s)')
                      /\ Promised(s)' <= consumers'[s]
                      /\ consumers'[s] + Cardinality(Declaring(s)')
                           <= MaxConsumers
    BY <2>6 DEF Counted
  <2>7. IsFiniteSet(Starting(s)')
    <3>1. IsFiniteSet(Starting(s) \cup {p})
      BY <1>2, FS_AddElement
    <3> QED
      BY <2>0, <3>1, FS_Subset
  <2>8. Flags(s)' = Flags(s) /\ Flags(s) \in 0 .. 2
    BY <2>1 DEF Flags, Stopping
  <2>9. CASE s = q
    <3>1. consumers'[q] = consumers[q] + 1
      BY <1>1, <2>1 DEF ControlOK
    <3>2. /\ Cardinality(Declaring(q)) \in Nat
          /\ Cardinality(Consuming(q)) \in Nat
      BY <1>1, <1>2
    <3> HIDE DEF Flags
    <3> QED
      BY <1>1, <2>4, <2>7, <2>8, <2>9, <3>1, <3>2 DEF Promised
  <2>10. CASE s # q
    <3>1. /\ Declaring(s)' = Declaring(s)
          /\ Consuming(s)' = Consuming(s)
      <4>1. /\ Declaring(s)' = Declaring(s) \ {p} /\ p \notin Declaring(s)
            /\ Consuming(s)' = Consuming(s) \ {p} /\ p \notin Consuming(s)
        BY <2>3, <2>10, <2>0
      <4> QED
        BY <4>1
    <3>2. consumers'[s] = consumers[s]
      BY <2>1, <2>10 DEF ControlOK
    <3> QED
      BY <2>7, <2>8, <3>1, <3>2 DEF Counted, Promised
  <2> QED
    BY <2>9, <2>10
<1> QED
  BY <1>3, <1>4

(* The end of a poll: nobody starts for it any more.                       *)
LEMMA DrainControl ==
  ASSUME ControlOK, NEW p \in Polls, Drain(p)
  PROVE  /\ poll' \in [Polls -> PollState]
         /\ lastUsed' \in [Queues -> {"none", "recent", "old"}]
         /\ \A q \in Queues : /\ Declaring(q)' = Declaring(q) \ {p}
                              /\ Consuming(q)' = Consuming(q) \ {p}
<1>1. /\ poll[p].q \in Queues /\ Idle(poll[p].q) \in PollState
      /\ Idle(poll[p].q).at = "idle"
  BY DEF ControlOK, PollState, Idle
<1>2. /\ poll' \in [Polls -> PollState] /\ poll'[p].at = "idle"
      /\ \A o \in Polls \ {p} : poll'[o] = poll[o]
  BY <1>1 DEF Drain, ControlOK
<1>3. \A q \in Queues : /\ Declaring(q)' = Declaring(q) \ {p}
                        /\ Consuming(q)' = Consuming(q) \ {p}
  BY <1>2, PollEffect
<1>4. lastUsed' \in [Queues -> {"none", "recent", "old"}]
  BY <1>1 DEF Drain, ControlOK
<1> QED
  BY <1>2, <1>3, <1>4

(* A start that ends gives its consumer the tag.                           *)
LEMMA StartedStep ==
  ASSUME ControlOK, Counted, NEW p \in Polls, ConsumerStarted(p)
  PROVE  ControlOK' /\ Counted'
<1>0. PICK q \in Queues : q = poll[p].q
  BY DEF ControlOK, PollState
<1>1. /\ q \in Queues /\ p \in Consuming(q)
      /\ tagged' = [tagged EXCEPT ![q] = TRUE] /\ consumers' = consumers
      /\ worker' = IF worker.at = "off" THEN [worker EXCEPT !.at = "asleep"]
                   ELSE worker
      /\ Drain(p) /\ UNCHANGED <<faults, orphans>>
  BY <1>0 DEF ConsumerStarted, Consuming, broker
<1>2. /\ poll' \in [Polls -> PollState]
      /\ lastUsed' \in [Queues -> {"none", "recent", "old"}]
      /\ \A s \in Queues : /\ Declaring(s)' = Declaring(s) \ {p}
                           /\ Consuming(s)' = Consuming(s) \ {p}
  BY <1>1, DrainControl
<1>3. \A s \in Queues \ {q} : p \notin Declaring(s) /\ p \notin Consuming(s)
  BY <1>0 DEF Declaring, Consuming
<1>4. p \notin Declaring(q)
  BY DEF Declaring, ConsumerStarted
<1>5. ControlOK'
  <2>1. worker' \in WorkerState /\ tagged' \in [Queues -> BOOLEAN]
    BY <1>1 DEF ControlOK, WorkerState
  <2> QED
    BY <1>1, <1>2, <2>1 DEF ControlOK
<1> SUFFICES ASSUME NEW s \in Queues
             PROVE  /\ IsFiniteSet(Starting(s)')
                    /\ Promised(s)' <= consumers'[s]
                    /\ consumers'[s] + Cardinality(Declaring(s)')
                         <= MaxConsumers
  BY <1>5 DEF Counted
<1>6. /\ IsFiniteSet(Starting(s)) /\ Promised(s) <= consumers[s]
      /\ consumers[s] + Cardinality(Declaring(s)) <= MaxConsumers
  BY DEF Counted
<1>7. IsFiniteSet(Starting(s)')
  <2>1. Starting(s)' \in SUBSET Starting(s)
    <3>1. \A r : Starting(r) = Declaring(r) \cup Consuming(r)
      BY DEF Starting, Declaring, Consuming
    <3>2. Starting(s)' = Declaring(s)' \cup Consuming(s)'
      BY DEF Starting, Declaring, Consuming
    <3> QED
      BY <1>2, <3>1, <3>2
  <2> QED
    BY <1>6, <2>1, FS_Subset
<1>8. Declaring(s)' = Declaring(s)
  BY <1>2, <1>3, <1>4
<1>9. Flags(s) \in Nat /\ consumers[s] \in Nat
  BY GBAssumption DEF Flags, ControlOK
<1>10. CASE s = q
  <2>1. Consuming(q)' = Consuming(q) \ {p}
    BY <1>2
  <2>2. /\ IsFiniteSet(Consuming(q))
        /\ Cardinality(Consuming(q)) \in Nat
    BY <1>6, <1>10, StartingParts
  <2>3. Cardinality(Consuming(q)') = Cardinality(Consuming(q)) - 1
    BY <1>1, <2>1, <2>2, FS_RemoveElement
  <2>4. Flags(q)' <= Flags(q) + 1 /\ Flags(q)' \in Nat
    BY <1>1 DEF Flags, Stopping, ControlOK, WorkerState
  <2> HIDE DEF Flags
  <2> QED
    BY <1>1, <1>6, <1>7, <1>8, <1>9, <1>10, <2>2, <2>3, <2>4 DEF Promised
<1>11. CASE s # q
  <2>1. Consuming(s)' = Consuming(s)
    BY <1>2, <1>3, <1>11
  <2>2. Flags(s)' = Flags(s)
    BY <1>1, <1>11 DEF Flags, Stopping, ControlOK, WorkerState
  <2> QED
    BY <1>1, <1>6, <1>7, <1>8, <2>1, <2>2 DEF Promised
<1> QED
  BY <1>10, <1>11

(* A cancelled consumer was there.                                         *)
LEMMA StopStep ==
  ASSUME ControlOK, Counted, StopDone
  PROVE  ControlOK' /\ Counted'
<1>0. PICK q \in Queues : q = worker.q
  BY DEF ControlOK, WorkerState
<1>1. /\ q \in Queues /\ worker.rest \subseteq Queues /\ Stopping(q)
      /\ consumers' = [consumers EXCEPT ![q] = consumers[q] - 1]
      /\ lastUsed' = [lastUsed EXCEPT ![q] = "none"]
      /\ StopNext(worker.rest) /\ UNCHANGED <<poll, faults, orphans>>
  BY <1>0 DEF StopDone, ControlOK, WorkerState, Stopping, history
<1>2. /\ tagged' \in [Queues -> BOOLEAN] /\ worker' \in WorkerState
      /\ \A s \in Queues : Flags(s)' = IF tagged[s] THEN 1 ELSE 0
  BY <1>1, StopEffect
<1>3. \A s \in Queues : /\ Declaring(s)' = Declaring(s)
                        /\ Consuming(s)' = Consuming(s)
  BY <1>1 DEF Declaring, Consuming
<1>4. \A s : Starting(s)' = Starting(s)
  BY <1>1 DEF Starting
<1>5. \A s \in Queues :
        /\ IsFiniteSet(Starting(s)) /\ Promised(s) <= consumers[s]
        /\ consumers[s] + Cardinality(Declaring(s)) <= MaxConsumers
        /\ Cardinality(Declaring(s)) \in Nat
        /\ Cardinality(Consuming(s)) \in Nat
        /\ consumers[s] \in 0 .. MaxConsumers
  BY StartingParts DEF Counted, ControlOK
<1>6. /\ Flags(q) = Flags(q)' + 1 /\ Flags(q)' \in Nat
      /\ \A s \in Queues \ {q} : Flags(s)' <= Flags(s) /\ Flags(s)' \in Nat
                                 /\ Flags(s) \in Nat
  BY <1>1, <1>2 DEF Flags, Stopping
<1> HIDE DEF Flags
<1>7. consumers[q] >= 1 /\ MaxConsumers \in Nat
  BY <1>1, <1>5, <1>6, GBAssumption DEF Promised
<1>8. ControlOK'
  <2>1. consumers' \in [Queues -> 0..MaxConsumers]
    BY <1>1, <1>7 DEF ControlOK
  <2> QED
    BY <1>1, <1>2, <2>1 DEF ControlOK
<1>9. Counted'
  <2> SUFFICES ASSUME NEW s \in Queues
               PROVE  /\ IsFiniteSet(Starting(s)')
                      /\ Promised(s)' <= consumers'[s]
                      /\ consumers'[s] + Cardinality(Declaring(s)')
                           <= MaxConsumers
    BY DEF Counted
  <2>1. CASE s = q
    <3>1. consumers'[q] = consumers[q] - 1
      BY <1>1 DEF ControlOK
    <3> QED
      BY <1>1, <1>3, <1>4, <1>5, <1>6, <1>7, <2>1, <3>1 DEF Promised
  <2>2. CASE s # q
    <3>1. consumers'[s] = consumers[s]
      BY <1>1, <2>2 DEF ControlOK
    <3> QED
      BY <1>3, <1>4, <1>5, <1>6, <1>7, <2>2, <3>1 DEF Promised
  <2> QED
    BY <2>1, <2>2
<1> QED
  BY <1>8, <1>9

(* Every step counts the consumers right.                                  *)
LEMMA ControlStep == ControlOK /\ Counted /\ [Next]_vars => ControlOK' /\ Counted'
<1> SUFFICES ASSUME ControlOK, Counted, [Next]_vars
             PROVE  ControlOK' /\ Counted'
  OBVIOUS
<1> DEFINE Same == /\ UNCHANGED <<consumers, tagged, worker>>
                   /\ \A s \in Queues : /\ Declaring(s)' \subseteq Declaring(s)
                                        /\ Consuming(s)' \subseteq Consuming(s)
<1>1. Same => Counted'
  <2>1. UNCHANGED <<tagged, worker>> => \A s \in Queues : Flags(s)' <= Flags(s)
    BY DEF Flags, Stopping
  <2> QED
    BY <2>1, CountedFrame
<1>2. ASSUME NEW q \in Queues, Publish(q) \/ Deliver(q) \/ Ack(q) \/ Age(q)
      PROVE  ControlOK' /\ Counted'
  <2>1. UNCHANGED <<consumers, tagged, worker, poll, faults, orphans>>
    BY <1>2 DEF Publish, Deliver, Ack, Age, broker, gateway, history
  <2>2. lastUsed' \in [Queues -> {"none", "recent", "old"}]
    BY <1>2 DEF Publish, Deliver, Ack, Age, gateway, ControlOK
  <2>3. Same
    BY <2>1 DEF Declaring, Consuming
  <2> QED
    BY <1>1, <2>1, <2>2, <2>3 DEF ControlOK
<1>3. ASSUME NEW q \in Queues, NEW p \in Polls, Call(p, q)
      PROVE  ControlOK' /\ Counted'
  <2>1. /\ poll[p].at = "idle"
        /\ poll' = [poll EXCEPT ![p] = [q |-> q, at |-> "called", late |-> FALSE]]
        /\ UNCHANGED <<consumers, tagged, worker, lastUsed, faults, orphans>>
    BY <1>3 DEF Call, broker, history
  <2>2. /\ poll' \in [Polls -> PollState] /\ poll'[p].at = "called"
        /\ \A o \in Polls \ {p} : poll'[o] = poll[o]
    BY <2>1 DEF ControlOK, PollState
  <2>3. Same
    BY <2>1, <2>2 DEF Declaring, Consuming
  <2> QED
    BY <1>1, <2>1, <2>2, <2>3 DEF ControlOK
<1>4. ASSUME NEW p \in Polls, TimeOut(p) PROVE ControlOK' /\ Counted'
  <2>1. /\ poll' = [poll EXCEPT ![p].late = TRUE] /\ faults' \in 0 .. MaxFaults
        /\ UNCHANGED <<consumers, tagged, worker, lastUsed, orphans>>
    BY <1>4, GBAssumption DEF TimeOut, broker, history, ControlOK
  <2>2. /\ poll' \in [Polls -> PollState]
        /\ \A o \in Polls : poll'[o].at = poll[o].at /\ poll'[o].q = poll[o].q
    BY <2>1 DEF ControlOK, PollState
  <2>3. Same
    BY <2>1, <2>2 DEF Declaring, Consuming
  <2> QED
    BY <1>1, <2>1, <2>2, <2>3 DEF ControlOK
<1>5. ASSUME NEW p \in Polls, DrainBuffer(p) \/ StartFailed(p)
      PROVE  ControlOK' /\ Counted'
  <2>1. Drain(p) /\ UNCHANGED <<consumers, tagged, worker, faults, orphans>>
    BY <1>5 DEF DrainBuffer, StartFailed, broker
  <2>2. /\ poll' \in [Polls -> PollState]
        /\ lastUsed' \in [Queues -> {"none", "recent", "old"}]
        /\ \A q \in Queues : /\ Declaring(q)' = Declaring(q) \ {p}
                             /\ Consuming(q)' = Consuming(q) \ {p}
    BY <2>1, DrainControl
  <2> QED
    BY <1>1, <2>1, <2>2 DEF ControlOK
<1>6. CASE WakeWorker
  <2>1. UNCHANGED <<consumers, poll, lastUsed, faults, orphans>>
    BY <1>6 DEF WakeWorker, broker, history
  <2>2. /\ tagged' \in [Queues -> BOOLEAN] /\ worker' \in WorkerState
        /\ \A q \in Queues : Flags(q)' <= Flags(q)
    <3>1. CASE \A q \in Queues : ~tagged[q]
      <4>1. worker' = [worker EXCEPT !.at = "off"] /\ tagged' = tagged
        BY <1>6, <3>1 DEF WakeWorker
      <4>2. worker' \in WorkerState /\ worker'.at = "off"
        BY <4>1 DEF ControlOK, WorkerState
      <4>3. \A q \in Queues : Flags(q)' <= Flags(q)
        BY <4>1, <4>2 DEF Flags, Stopping
      <4> QED
        BY <4>1, <4>2, <4>3 DEF ControlOK
    <3>2. CASE ~ \A q \in Queues : ~tagged[q]
      <4>1. StopNext(IdleQueues) /\ IdleQueues \subseteq Queues
        BY <1>6, <3>2 DEF WakeWorker, IdleQueues
      <4>2. \A q \in Queues : (IF tagged[q] THEN 1 ELSE 0) <= Flags(q)
        BY DEF Flags
      <4>3. /\ tagged' \in [Queues -> BOOLEAN] /\ worker' \in WorkerState
            /\ \A q \in Queues : Flags(q)' = IF tagged[q] THEN 1 ELSE 0
        BY <4>1, StopEffect
      <4> QED
        BY <4>2, <4>3
    <3> QED
      BY <3>1, <3>2
  <2>3. \A q \in Queues : /\ Declaring(q)' \subseteq Declaring(q)
                          /\ Consuming(q)' \subseteq Consuming(q)
    BY <2>1 DEF Declaring, Consuming
  <2> QED
    BY <2>1, <2>2, <2>3, CountedFrame DEF ControlOK
<1>7. CASE Reconnect
  <2>1. /\ faults' \in 0 .. MaxFaults /\ UNCHANGED <<consumers, lastUsed>>
        /\ poll' = [p \in Polls |-> IF poll[p].at = "declaring"
                                    THEN [poll[p] EXCEPT !.at = "failed"]
                                    ELSE poll[p]]
        /\ orphans' = [q \in Queues |-> orphans[q] \/ Stopping(q)]
    BY <1>7, GBAssumption DEF Reconnect, ControlOK
  <2>2. /\ poll' \in [Polls -> PollState]
        /\ \A p \in Polls : /\ poll'[p].at # "declaring"
                            /\ poll'[p].at = "consuming" => poll'[p] = poll[p]
    BY <2>1 DEF ControlOK, PollState
  <2>3. /\ tagged' \in [Queues -> BOOLEAN] /\ worker' \in WorkerState
        /\ \A q \in Queues : Flags(q)' <= Flags(q)
    <3>1. CASE worker.at = "stopping"
      <4>1. StopNext(worker.rest) /\ worker.rest \subseteq Queues
        BY <1>7, <3>1 DEF Reconnect, ControlOK, WorkerState
      <4>2. \A q \in Queues : (IF tagged[q] THEN 1 ELSE 0) <= Flags(q)
        BY DEF Flags
      <4>3. /\ tagged' \in [Queues -> BOOLEAN] /\ worker' \in WorkerState
            /\ \A q \in Queues : Flags(q)' = IF tagged[q] THEN 1 ELSE 0
        BY <4>1, StopEffect
      <4> QED
        BY <4>2, <4>3
    <3>2. CASE worker.at # "stopping"
      BY <1>7, <3>2 DEF Reconnect, ControlOK, Flags, Stopping
    <3> QED
      BY <3>1, <3>2
  <2>4. orphans' \in [Queues -> BOOLEAN]
    <3>1. \A q \in Queues : (orphans[q] \/ Stopping(q)) \in BOOLEAN
      BY DEF ControlOK, Stopping
    <3> QED
      BY <2>1, <3>1
  <2>5. \A q \in Queues : /\ Declaring(q)' \subseteq Declaring(q)
                          /\ Consuming(q)' \subseteq Consuming(q)
    BY <2>2 DEF Declaring, Consuming
  <2>6. Counted'
    BY <2>1, <2>3, <2>5, CountedFrame
  <2> QED
    BY <2>1, <2>2, <2>3, <2>4, <2>6 DEF ControlOK
<1>8. CASE Restart
  <2>1. /\ faults' \in 0 .. MaxFaults /\ orphans' = orphans
        /\ consumers' = [q \in Queues |-> 0] /\ tagged' = [q \in Queues |-> FALSE]
        /\ lastUsed' = [q \in Queues |-> "none"] /\ worker' = Off
        /\ poll' = [p \in Polls |-> Idle(poll[p].q)]
    BY <1>8, GBAssumption DEF Restart, ControlOK
  <2>2. worker' \in WorkerState /\ worker'.at = "off"
    BY <2>1, GBAssumption DEF Off, WorkerState
  <2>3. poll' \in [Polls -> PollState] /\ \A p \in Polls : poll'[p].at = "idle"
    BY <2>1 DEF Idle, ControlOK, PollState
  <2>4. ControlOK'
    BY <2>1, <2>2, <2>3, GBAssumption DEF ControlOK
  <2>5. \A q \in Queues : /\ Declaring(q)' = {} /\ Consuming(q)' = {}
                          /\ Starting(q)' = {}
    BY <2>3 DEF Declaring, Consuming, Starting
  <2>6. \A q \in Queues : Flags(q)' = 0 /\ consumers'[q] = 0
    BY <2>1, <2>2 DEF Flags, Stopping
  <2> QED
    BY <2>4, <2>5, <2>6, FS_EmptySet, GBAssumption DEF Counted, Promised
<1>9. CASE UNCHANGED vars
  <2>1. UNCHANGED <<consumers, tagged, worker, poll, lastUsed, faults, orphans>>
    BY <1>9 DEF vars, broker, gateway, history
  <2>2. Same
    BY <2>1 DEF Declaring, Consuming
  <2> QED
    BY <1>1, <2>1, <2>2 DEF ControlOK
<1> QED
  BY <1>2, <1>3, <1>4, <1>5, <1>6, <1>7, <1>8, <1>9, StartStep, StartedStep,
     StopStep
  DEF Next, Coroutine, Called

(* At the start there is no consumer and no message.                       *)
LEMMA InitControl == Init => LinesOK /\ ControlOK /\ Counted
<1> SUFFICES ASSUME Init PROVE LinesOK /\ ControlOK /\ Counted
  OBVIOUS
<1>1. Off \in WorkerState /\ Off.at = "off"
  BY GBAssumption DEF Off, WorkerState
<1>2. Idle(Off.q) \in PollState /\ Idle(Off.q).at = "idle"
  BY <1>1 DEF Idle, PollState, WorkerState
<1>3. LinesOK
  <2>1. [q \in Queues |-> <<>>] \in [Queues -> Seq(Message)]
    BY EmptyList
  <2>2. /\ queue \in [Queues -> Seq(Message)] /\ unacked \in [Queues -> Seq(Message)]
        /\ buffer \in [Queues -> Seq(Message)]
        /\ answered \in [Queues -> Seq(Message)]
    BY <2>1 DEF Init
  <2> QED
    BY <2>2, GBAssumption DEF Init, LinesOK
<1>4. ControlOK
  BY <1>1, <1>2, GBAssumption DEF Init, ControlOK
<1>5. \A q \in Queues : /\ Declaring(q) = {} /\ Consuming(q) = {}
                        /\ Starting(q) = {}
  BY <1>2 DEF Init, Declaring, Consuming, Starting
<1>6. \A q \in Queues : Flags(q) = 0 /\ consumers[q] = 0
  BY <1>1 DEF Init, Flags, Stopping
<1>7. Counted
  BY <1>5, <1>6, FS_EmptySet, GBAssumption DEF Counted, Promised
<1> QED
  BY <1>3, <1>4, <1>7

Shapes == LinesOK /\ ControlOK /\ Counted

(* Every step keeps the shapes.                                            *)
LEMMA ShapesStep == Shapes /\ [Next]_vars => Shapes'
BY LinesStep, ControlStep DEF Shapes

(* The state keeps its shapes; in particular the broker never has fewer    *)
(* consumers of a queue than the gateway counts on, so that a cancellation *)
(* always has one to cancel (start_consumer_for_queue,                     *)
(* stop_consumer_for_queue).                                               *)
THEOREM TypeCorrect == Spec => []TypeOK
<1>1. Init => Shapes
  BY InitControl DEF Shapes
<1>2. Shapes => TypeOK
  BY TypeParts DEF Shapes
<1> QED
  BY <1>1, <1>2, ShapesStep, PTL DEF Spec

-----------------------------------------------------------------------------
(* On its way from the broker to the client a message is nowhere behind a  *)
(* later one, unless the broker delivers it again.                         *)
OrderAt(q) ==
  /\ Ordered(answered[q], returned[q])
  /\ Ordered(buffer[q], returned[q])
  /\ Ordered(queue[q], returned[q])
  /\ Before(Elements(answered[q]), Elements(buffer[q]), returned[q])
  /\ Before(Elements(answered[q]), Elements(queue[q]), returned[q])
  /\ Before(Elements(buffer[q]), Elements(queue[q]), returned[q])
  /\ Before(Elements(unacked[q]), Elements(queue[q]), returned[q])
  /\ Elements(answered[q]) \cup Elements(buffer[q]) \subseteq 1 .. sent[q]
  /\ Elements(queue[q]) \cup Elements(unacked[q]) \subseteq 1 .. sent[q]

InOrder == \A q \in Queues : OrderAt(q)

(* What is in the buffer of a queue that was found idle came afterwards.   *)
KeptAt(q) ==
  /\ FoundIdle(q) => Elements(buffer[q]) \subseteq exposed[q]
  /\ \A m \in 1 .. sent[q] :
       m \in Elements(queue[q]) \cup Elements(buffer[q]) \cup Elements(answered[q])
               \cup exposed[q] \cup unread[q]

AllKept == \A q \in Queues : KeptAt(q)

(* Whether the queue was found idle is all that a step changes which moves *)
(* none of its messages.                                                   *)
LEMMA LineFrame ==
  ASSUME NEW q \in Queues,
         sent'[q] = sent[q], queue'[q] = queue[q], unacked'[q] = unacked[q],
         buffer'[q] = buffer[q], answered'[q] = answered[q],
         exposed'[q] = exposed[q], unread'[q] = unread[q],
         returned'[q] = returned[q]
  PROVE  /\ OrderAt(q) => OrderAt(q)'
         /\ KeptAt(q) /\ (FoundIdle(q)' => FoundIdle(q) \/ buffer[q] = <<>>)
              => KeptAt(q)'
<1>1. OrderAt(q) => OrderAt(q)'
  BY DEF OrderAt
<1>2. Elements(<<>>) = {}
  BY EmptyList
<1> QED
  BY <1>1, <1>2 DEF KeptAt

(* A new message is behind all others.                                     *)
LEMMA PublishLine ==
  ASSUME LinesOK, NEW q \in Queues, OrderAt(q), KeptAt(q), Publish(q)
  PROVE  OrderAt(q)' /\ KeptAt(q)'
<1> DEFINE m == sent[q] + 1
<1>1. /\ m \in Message /\ sent[q] \in Nat /\ sent'[q] = m
      /\ queue'[q] = Append(queue[q], m) /\ queue[q] \in Seq(Message)
      /\ UNCHANGED <<unacked, buffer, worker, answered, exposed, unread, returned>>
  BY GBAssumption DEF Publish, LinesOK, Message, gateway, history
<1>2. Elements(queue'[q]) = Elements(queue[q]) \cup {m}
  BY <1>1, AppendList
<1>3. 1 .. m = (1 .. sent[q]) \cup {m} /\ \A x \in 1 .. sent[q] : ~ x >= m
  BY <1>1
<1>4. /\ Elements(answered[q]) \cup Elements(buffer[q]) \subseteq 1 .. sent[q]
      /\ Elements(queue[q]) \cup Elements(unacked[q]) \subseteq 1 .. sent[q]
  BY DEF OrderAt
<1>5. /\ Before(Elements(answered[q]), {m}, returned[q])
      /\ Before(Elements(buffer[q]), {m}, returned[q])
      /\ Before(Elements(queue[q]), {m}, returned[q])
      /\ Before(Elements(unacked[q]), {m}, returned[q])
  BY <1>3, <1>4 DEF Before
<1>6. Ordered(queue'[q], returned[q])
  BY <1>1, <1>5, AppendList DEF OrderAt
<1>7. \A X : Before(X, Elements(queue[q]), returned[q]) /\ Before(X, {m}, returned[q])
               => Before(X, Elements(queue'[q]), returned[q])
  BY <1>2 DEF Before
<1> HIDE DEF m
<1>8. OrderAt(q)'
  BY <1>1, <1>2, <1>3, <1>4, <1>5, <1>6, <1>7 DEF OrderAt
<1>9. KeptAt(q)'
  BY <1>1, <1>2, <1>3 DEF KeptAt, FoundIdle
<1> QED
  BY <1>8, <1>9

(* A delivered message is behind those in the buffer.                      *)
LEMMA DeliverLine ==
  ASSUME LinesOK, NEW q \in Queues, OrderAt(q), KeptAt(q), Deliver(q)
  PROVE  OrderAt(q)' /\ KeptAt(q)'
<1> DEFINE m == Head(queue[q])
           R == returned[q]
<1>1. /\ queue[q] \in Seq(Message) /\ queue[q] # <<>>
      /\ buffer[q] \in Seq(Message) /\ unacked[q] \in Seq(Message)
  BY DEF Deliver, LinesOK
<1>2. /\ queue'[q] = Tail(queue[q]) /\ unacked'[q] = Append(unacked[q], m)
      /\ buffer'[q] = Append(buffer[q], m)
      /\ exposed'[q] = IF FoundIdle(q) THEN exposed[q] \cup {m} ELSE exposed[q]
      /\ UNCHANGED <<sent, worker, answered, unread, returned>>
  BY DEF Deliver, LinesOK
<1>3. /\ m \in Message /\ Elements(queue[q]) = {m} \cup Elements(queue'[q])
      /\ Ordered(queue'[q], R) /\ Before({m}, Elements(queue'[q]), R)
  BY <1>1, <1>2, HeadTailList DEF OrderAt
<1>4. Elements(unacked'[q]) = Elements(unacked[q]) \cup {m}
  BY <1>1, <1>2, <1>3, AppendList
<1>5. Elements(buffer'[q]) = Elements(buffer[q]) \cup {m}
  BY <1>1, <1>2, <1>3, AppendList
<1>6. \A X : Before(X, Elements(queue[q]), R) =>
               Before(X, {m}, R) /\ Before(X, Elements(queue'[q]), R)
  BY <1>3 DEF Before
<1>7. Ordered(buffer'[q], R)
  <2>1. Ordered(buffer[q], R) /\ Before(Elements(buffer[q]), {m}, R)
    <3>1. Ordered(buffer[q], R) /\ Before(Elements(buffer[q]), Elements(queue[q]), R)
      BY DEF OrderAt
    <3> HIDE DEF m, R
    <3> QED
      BY <1>6, <3>1
  <2> HIDE DEF m, R
  <2> QED
    BY <1>1, <1>2, <1>3, <2>1, AppendList
<1>8. \A X, Y : Before(X, Y, R) /\ Before({m}, Y, R) => Before(X \cup {m}, Y, R)
  BY DEF Before
<1>9. \A X, Y : Before(X, Y, R) /\ Before(X, {m}, R) => Before(X, Y \cup {m}, R)
  BY DEF Before
<1> HIDE DEF m
<1>10. OrderAt(q)'
  <2>1. /\ Before(Elements(answered[q]), Elements(buffer'[q]), R)
        /\ Before(Elements(answered[q]), Elements(queue'[q]), R)
        /\ Before(Elements(buffer'[q]), Elements(queue'[q]), R)
        /\ Before(Elements(unacked'[q]), Elements(queue'[q]), R)
    <3>1. /\ Before(Elements(answered[q]), Elements(buffer[q]), R)
          /\ Before(Elements(answered[q]), Elements(queue[q]), R)
          /\ Before(Elements(buffer[q]), Elements(queue[q]), R)
          /\ Before(Elements(unacked[q]), Elements(queue[q]), R)
      BY DEF OrderAt
    <3> HIDE DEF R
    <3>2. /\ Before(Elements(answered[q]), {m}, R)
          /\ Before(Elements(answered[q]), Elements(queue'[q]), R)
          /\ Before(Elements(buffer[q]), Elements(queue'[q]), R)
          /\ Before(Elements(unacked[q]), Elements(queue'[q]), R)
      BY <1>6, <3>1
    <3>3. Before({m}, Elements(queue'[q]), R)
      BY <1>3
    <3>4. Before(Elements(answered[q]), Elements(buffer'[q]), R)
      BY <1>5, <1>9, <3>1, <3>2
    <3>5. Before(Elements(buffer'[q]), Elements(queue'[q]), R)
      BY <1>5, <1>8, <3>2, <3>3
    <3>6. Before(Elements(unacked'[q]), Elements(queue'[q]), R)
      BY <1>4, <1>8, <3>2, <3>3
    <3> QED
      BY <3>2, <3>4, <3>5, <3>6
  <2>2. /\ Elements(answered[q]) \cup Elements(buffer'[q]) \subseteq 1 .. sent[q]
        /\ Elements(queue'[q]) \cup Elements(unacked'[q]) \subseteq 1 .. sent[q]
    BY <1>3, <1>4, <1>5 DEF OrderAt
  <2>3. Ordered(answered[q], R)
    BY DEF OrderAt
  <2> QED
    BY <1>2, <1>3, <1>7, <2>1, <2>2, <2>3 DEF OrderAt
<1>11. KeptAt(q)'
  <2>1. FoundIdle(q)' <=> FoundIdle(q)
    BY <1>2 DEF FoundIdle
  <2> QED
    BY <1>2, <1>3, <1>5, <2>1 DEF KeptAt
<1> QED
  BY <1>10, <1>11

(* An acknowledged message is in the buffer already.                       *)
LEMMA AckLine ==
  ASSUME LinesOK, NEW q \in Queues, OrderAt(q), KeptAt(q), Ack(q)
  PROVE  OrderAt(q)' /\ KeptAt(q)'
<1>1. /\ unacked'[q] = Tail(unacked[q])
      /\ unacked[q] \in Seq(Message) /\ unacked[q] # <<>>
      /\ UNCHANGED <<sent, queue, buffer, worker, answered, exposed, unread, returned>>
  BY DEF Ack, LinesOK, gateway, history
<1>2. Elements(unacked'[q]) \subseteq Elements(unacked[q])
  BY <1>1, HeadTailList
<1> QED
  BY <1>1, <1>2 DEF OrderAt, KeptAt, FoundIdle, Before

(* A drain takes the front of the buffer.                                  *)
LEMMA DrainLine ==
  ASSUME LinesOK, NEW q \in Queues, OrderAt(q), KeptAt(q),
         NEW p \in Polls, poll[p].q = q, Drain(p),
         FoundIdle(q)' => FoundIdle(q),
         UNCHANGED <<sent, queue, unacked, exposed, returned>>
  PROVE  OrderAt(q)' /\ KeptAt(q)'
<1> DEFINE out == Out(buffer[q])
           R == returned[q]
<1>1. /\ answered[q] \in Seq(Message) /\ buffer[q] \in Seq(Message)
      /\ Ordered(buffer[q], R)
  BY DEF LinesOK, OrderAt
<1>2. buffer'[q] = Kept(buffer[q])
  BY DEF Drain, LinesOK
<1>3. /\ out \in Seq(Message)
      /\ Elements(buffer[q]) = Elements(out) \cup Elements(buffer'[q])
      /\ Ordered(out, R) /\ Ordered(buffer'[q], R)
      /\ Before(Elements(out), Elements(buffer'[q]), R)
  BY <1>1, <1>2, DrainedList
<1>4. \A X, Y : Before(X, Elements(buffer[q]), R) =>
                  Before(X, Elements(out), R) /\ Before(X, Elements(buffer'[q]), R)
  BY <1>3 DEF Before
<1>5. \A Y : Before(Elements(buffer[q]), Y, R) =>
               Before(Elements(out), Y, R) /\ Before(Elements(buffer'[q]), Y, R)
  BY <1>3 DEF Before
<1>6. CASE poll[p].late
  <2>1. /\ answered'[q] = answered[q]
        /\ unread'[q] = unread[q] \cup Elements(out)
    BY <1>6 DEF Drain, LinesOK
  <2> HIDE DEF out
  <2>2. OrderAt(q)'
    BY <1>3, <1>4, <1>5, <2>1 DEF OrderAt
  <2>3. KeptAt(q)'
    BY <1>3, <2>1 DEF KeptAt
  <2> QED
    BY <2>2, <2>3
<1>7. CASE ~poll[p].late
  <2>1. /\ answered'[q] = answered[q] \o out
        /\ unread'[q] = unread[q]
    BY <1>7 DEF Drain, LinesOK
  <2> HIDE DEF out
  <2>2. /\ Elements(answered'[q]) = Elements(answered[q]) \cup Elements(out)
        /\ Ordered(answered'[q], R)
    BY <1>1, <1>3, <1>4, <2>1, ConcatList DEF OrderAt
  <2>3. \A Y : /\ Before(Elements(answered[q]), Y, R)
               /\ Before(Elements(out), Y, R)
               => Before(Elements(answered'[q]), Y, R)
    BY <2>2 DEF Before
  <2>4. /\ Before(Elements(answered'[q]), Elements(buffer'[q]), R)
        /\ Before(Elements(answered'[q]), Elements(queue[q]), R)
        /\ Before(Elements(buffer'[q]), Elements(queue[q]), R)
        /\ Before(Elements(unacked[q]), Elements(queue[q]), R)
        /\ Ordered(queue[q], R)
    BY <1>3, <1>4, <1>5, <2>3 DEF OrderAt
  <2>5. /\ Elements(answered'[q]) \cup Elements(buffer'[q]) \subseteq 1 .. sent[q]
        /\ Elements(queue[q]) \cup Elements(unacked[q]) \subseteq 1 .. sent[q]
    BY <1>3, <2>2 DEF OrderAt
  <2>6. OrderAt(q)'
    BY <1>3, <2>2, <2>4, <2>5 DEF OrderAt
  <2>7. KeptAt(q)'
    BY <1>3, <2>1, <2>2 DEF KeptAt
  <2> QED
    BY <2>6, <2>7
<1> QED
  BY <1>6, <1>7

(* The buffer of a queue is discarded; what was in it is accounted for.    *)
LEMMA DiscardLine ==
  ASSUME LinesOK, NEW q \in Queues, OrderAt(q), KeptAt(q), buffer'[q] = <<>>,
         exposed[q] \cup unread[q] \cup Elements(buffer[q])
           \subseteq exposed'[q] \cup unread'[q],
         UNCHANGED <<sent, queue, unacked, answered, returned>>
  PROVE  OrderAt(q)' /\ KeptAt(q)'
<1>1. Elements(buffer'[q]) = {} /\ \A R : Ordered(buffer'[q], R)
  BY EmptyList
<1>2. \A X, R : Before(X, {}, R) /\ Before({}, X, R)
  BY DEF Before
<1>3. OrderAt(q)'
  BY <1>1, <1>2 DEF OrderAt
<1>4. KeptAt(q)'
  BY <1>1 DEF KeptAt
<1> QED
  BY <1>3, <1>4

(* What is requeued is in front of the queue, and may be delivered twice.  *)
(* With a restart the buffer is lost.                                      *)
LEMMA RequeueLine ==
  ASSUME LinesOK, NEW q \in Queues, OrderAt(q), KeptAt(q),
         queue'[q] = unacked[q] \o queue[q], unacked'[q] = <<>>,
         returned'[q] = returned[q] \cup Elements(unacked[q]),
         FoundIdle(q)' => FoundIdle(q),
         \/ buffer'[q] = buffer[q] /\ unread'[q] = unread[q]
         \/ /\ buffer'[q] = <<>>
            /\ unread'[q] = unread[q] \cup Elements(buffer[q]),
         UNCHANGED <<sent, answered, exposed>>
  PROVE  OrderAt(q)' /\ KeptAt(q)'
<1> DEFINE R == returned[q]
           T == returned'[q]
<1>1. /\ unacked[q] \in Seq(Message) /\ queue[q] \in Seq(Message)
      /\ R \subseteq T /\ Elements(unacked[q]) \subseteq T
  BY DEF LinesOK
<1>2. \A X : Before(X, Elements(unacked[q]), T)
  BY <1>1 DEF Before
<1>3. Ordered(unacked[q], T)
  BY <1>1 DEF Ordered, Elements
<1>4. /\ \A s : Ordered(s, R) => Ordered(s, T)
      /\ \A X, Y : Before(X, Y, R) => Before(X, Y, T)
  BY <1>1, MoreAgain
<1>5. /\ Elements(queue'[q]) = Elements(unacked[q]) \cup Elements(queue[q])
      /\ Ordered(queue'[q], T)
  BY <1>1, <1>2, <1>3, <1>4, ConcatList DEF OrderAt
<1>6. \A X : Before(X, Elements(queue[q]), T) => Before(X, Elements(queue'[q]), T)
  BY <1>2, <1>5 DEF Before
<1>7. /\ Elements(unacked'[q]) = {} /\ \A X : Before({}, X, T) /\ Before(X, {}, T)
      /\ buffer'[q] = buffer[q] \/ Elements(buffer'[q]) = {}
      /\ Ordered(buffer[q], T) => Ordered(buffer'[q], T)
  BY EmptyList DEF Before
<1> HIDE DEF R, T
<1>8. OrderAt(q)'
  <2>1. /\ Ordered(answered[q], T) /\ Ordered(buffer[q], T)
        /\ Before(Elements(answered[q]), Elements(buffer[q]), T)
        /\ Before(Elements(answered[q]), Elements(queue'[q]), T)
        /\ Before(Elements(buffer[q]), Elements(queue'[q]), T)
    BY <1>4, <1>6 DEF OrderAt, R
  <2>2. /\ Ordered(buffer'[q], T)
        /\ Before(Elements(answered[q]), Elements(buffer'[q]), T)
        /\ Before(Elements(buffer'[q]), Elements(queue'[q]), T)
    BY <1>7, <2>1
  <2>3. /\ Elements(answered[q]) \cup Elements(buffer'[q]) \subseteq 1 .. sent[q]
        /\ Elements(queue'[q]) \cup Elements(unacked'[q]) \subseteq 1 .. sent[q]
    BY <1>5, <1>7 DEF OrderAt
  <2> QED
    BY <1>5, <1>7, <2>1, <2>2, <2>3 DEF OrderAt, T
<1>9. KeptAt(q)'
  BY <1>5, EmptyList DEF KeptAt
<1> QED
  BY <1>8, <1>9

(* The next queue to be stopped is one that was found idle.                *)
LEMMA FoundBefore ==
  ASSUME ControlOK, NEW found, found \subseteq Queues, StopNext(found),
         NEW q \in Queues, FoundIdle(q)'
  PROVE  q \in found
<1>1. CASE worker' = [worker EXCEPT !.at = "asleep", !.rest = {}]
  <2>1. worker'.at = "asleep"
    BY <1>1 DEF ControlOK, WorkerState
  <2> QED
    BY <2>1 DEF FoundIdle
<1>2. ASSUME NEW r \in found,
             worker' = [at |-> "stopping", q |-> r, rest |-> found \ {r}]
      PROVE  q \in found
  BY <1>2 DEF FoundIdle
<1> QED
  BY <1>1, <1>2 DEF StopNext

(* Every step keeps the order and the messages of every queue.             *)
LEMMA LineStep ==
  ASSUME LinesOK, ControlOK, InOrder, AllKept, [Next]_vars
  PROVE  InOrder' /\ AllKept'
<1> SUFFICES ASSUME NEW q \in Queues PROVE OrderAt(q)' /\ KeptAt(q)'
  BY DEF InOrder, AllKept
<1>0. OrderAt(q) /\ KeptAt(q)
  BY DEF InOrder, AllKept
<1>1. ASSUME NEW r \in Queues, Publish(r) PROVE OrderAt(q)' /\ KeptAt(q)'
  <2>1. CASE r = q
    BY <1>0, <1>1, <2>1, PublishLine
  <2>2. CASE r # q
    <3>1. /\ sent'[q] = sent[q] /\ queue'[q] = queue[q]
          /\ UNCHANGED <<unacked, buffer, worker, answered, exposed, unread,
                         returned>>
      BY <1>1, <2>2 DEF Publish, LinesOK, gateway, history
    <3> QED
      BY <1>0, <3>1, LineFrame DEF FoundIdle
  <2> QED
    BY <2>1, <2>2
<1>2. ASSUME NEW r \in Queues, Deliver(r) PROVE OrderAt(q)' /\ KeptAt(q)'
  <2>1. CASE r = q
    BY <1>0, <1>2, <2>1, DeliverLine
  <2>2. CASE r # q
    <3>1. /\ queue'[q] = queue[q] /\ unacked'[q] = unacked[q]
          /\ buffer'[q] = buffer[q] /\ exposed'[q] = exposed[q]
          /\ UNCHANGED <<sent, worker, answered, unread, returned>>
      BY <1>2, <2>2 DEF Deliver, LinesOK
    <3> QED
      BY <1>0, <3>1, LineFrame DEF FoundIdle
  <2> QED
    BY <2>1, <2>2
<1>3. ASSUME NEW r \in Queues, Ack(r) PROVE OrderAt(q)' /\ KeptAt(q)'
  <2>1. CASE r = q
    BY <1>0, <1>3, <2>1, AckLine
  <2>2. CASE r # q
    <3>1. /\ unacked'[q] = unacked[q]
          /\ UNCHANGED <<sent, queue, buffer, worker, answered, exposed, unread,
                         returned>>
      BY <1>3, <2>2 DEF Ack, LinesOK, gateway, history
    <3> QED
      BY <1>0, <3>1, LineFrame DEF FoundIdle
  <2> QED
    BY <2>1, <2>2
<1>4. ASSUME NEW r \in Queues, Called(r) \/ Age(r) PROVE OrderAt(q)' /\ KeptAt(q)'
  BY <1>0, <1>4, LineFrame DEF Called, Call, Age, broker, history, FoundIdle
<1>5. ASSUME NEW p \in Polls, TimeOut(p) \/ StartConsumer(p) \/ Consume(p)
      PROVE  OrderAt(q)' /\ KeptAt(q)'
  <2>1. UNCHANGED <<sent, queue, unacked, buffer, worker, answered, exposed,
                    unread, returned>>
    BY <1>5 DEF TimeOut, StartConsumer, Consume, broker, history
  <2> QED
    BY <1>0, <2>1, LineFrame DEF FoundIdle
<1>6. ASSUME NEW p \in Polls, DrainBuffer(p) \/ ConsumerStarted(p) \/ StartFailed(p)
      PROVE  OrderAt(q)' /\ KeptAt(q)'
  <2>1. /\ Drain(p) /\ UNCHANGED <<sent, queue, unacked, exposed, returned>>
        /\ \/ worker' = worker
           \/ worker.at = "off" /\ worker' = [worker EXCEPT !.at = "asleep"]
    BY <1>6 DEF DrainBuffer, ConsumerStarted, StartFailed, broker
  <2>2. FoundIdle(q)' => FoundIdle(q)
    BY <2>1 DEF FoundIdle, ControlOK, WorkerState
  <2>3. CASE poll[p].q = q
    BY <1>0, <2>1, <2>2, <2>3, DrainLine
  <2>4. CASE poll[p].q # q
    <3>1. /\ buffer'[q] = buffer[q] /\ answered'[q] = answered[q]
          /\ unread'[q] = unread[q]
      BY <2>1, <2>4 DEF Drain, LinesOK
    <3> QED
      BY <1>0, <2>1, <2>2, <3>1, LineFrame
  <2> QED
    BY <2>3, <2>4
<1>7. CASE WakeWorker
  <2>1. UNCHANGED <<sent, queue, unacked, buffer, answered, exposed, unread,
                    returned>>
    BY <1>7 DEF WakeWorker, broker, history
  <2>2. FoundIdle(q)' => buffer[q] = <<>>
    <3>1. CASE worker' = [worker EXCEPT !.at = "off"]
      <4>1. worker'.at = "off"
        BY <3>1 DEF ControlOK, WorkerState
      <4> QED
        BY <4>1 DEF FoundIdle
    <3>2. CASE StopNext(IdleQueues)
      <4>1. IdleQueues \subseteq Queues
        BY DEF IdleQueues
      <4> QED
        BY <3>2, <4>1, FoundBefore DEF IdleQueues
    <3> QED
      BY <1>7, <3>1, <3>2 DEF WakeWorker
  <2> QED
    BY <1>0, <2>1, <2>2, LineFrame
<1>8. CASE StopDone
  <2>1. /\ worker.at = "stopping" /\ worker.rest \subseteq Queues
        /\ StopNext(worker.rest)
        /\ buffer' = [buffer EXCEPT ![worker.q] = <<>>]
        /\ UNCHANGED <<sent, queue, unacked, answered, exposed, unread, returned>>
    BY <1>8 DEF StopDone, history, ControlOK, WorkerState
  <2>2. CASE q = worker.q
    <3>1. Elements(buffer[q]) \subseteq exposed[q]
      BY <1>0, <2>1, <2>2 DEF KeptAt, FoundIdle
    <3>2. buffer'[q] = <<>>
      BY <2>1, <2>2 DEF LinesOK
    <3> QED
      BY <1>0, <2>1, <3>1, <3>2, DiscardLine
  <2>3. CASE q # worker.q
    <3>1. buffer'[q] = buffer[q]
      BY <2>1, <2>3 DEF LinesOK
    <3>2. FoundIdle(q)' => FoundIdle(q)
      <4>1. FoundIdle(q)' => q \in worker.rest
        BY <2>1, FoundBefore
      <4> QED
        BY <2>1, <4>1 DEF FoundIdle
    <3> QED
      BY <1>0, <2>1, <3>1, <3>2, LineFrame
  <2> QED
    BY <2>2, <2>3
<1>9. CASE Reconnect
  <2>1. FoundIdle(q)' => FoundIdle(q)
    <3>1. CASE worker.at = "stopping"
      <4>1. StopNext(worker.rest) /\ worker.rest \subseteq Queues
        BY <1>9, <3>1 DEF Reconnect, ControlOK, WorkerState
      <4>2. FoundIdle(q)' => q \in worker.rest
        BY <4>1, FoundBefore
      <4> QED
        BY <3>1, <4>2 DEF FoundIdle
    <3>2. CASE worker.at # "stopping"
      BY <1>9, <3>2 DEF Reconnect, FoundIdle
    <3> QED
      BY <3>1, <3>2
  <2>2. /\ queue'[q] = unacked[q] \o queue[q] /\ unacked'[q] = <<>>
        /\ returned'[q] = returned[q] \cup Elements(unacked[q])
        /\ UNCHANGED <<sent, answered, exposed, buffer, unread>>
    BY <1>9 DEF Reconnect, Requeue, Returned
  <2> QED
    BY <1>0, <2>1, <2>2, RequeueLine
<1>10. CASE Restart
  <2>1. /\ queue'[q] = unacked[q] \o queue[q] /\ unacked'[q] = <<>>
        /\ returned'[q] = returned[q] \cup Elements(unacked[q])
        /\ buffer'[q] = <<>> /\ unread'[q] = unread[q] \cup Elements(buffer[q])
        /\ UNCHANGED <<sent, answered, exposed>>
    BY <1>10 DEF Restart, Requeue, Returned
  <2>2. ~ FoundIdle(q)'
    BY <1>10 DEF Restart, Off, FoundIdle
  <2> QED
    BY <1>0, <2>1, <2>2, RequeueLine
<1>11. CASE UNCHANGED vars
  BY <1>0, <1>11, LineFrame DEF vars, broker, gateway, history, FoundIdle
<1> QED
  BY <1>1, <1>2, <1>3, <1>4, <1>5, <1>6, <1>7, <1>8, <1>9, <1>10, <1>11
  DEF Next, Coroutine

-----------------------------------------------------------------------------
IInv == Shapes /\ InOrder /\ AllKept

(* There are no messages at the start.                                     *)
LEMMA InitInv == Init => IInv
<1> SUFFICES ASSUME Init PROVE IInv
  OBVIOUS
<1>1. Shapes
  BY InitControl DEF Shapes
<1>2. \A q \in Queues :
        /\ sent[q] = 0 /\ queue[q] = <<>> /\ unacked[q] = <<>>
        /\ buffer[q] = <<>> /\ answered[q] = <<>>
  BY DEF Init
<1>3. \A X, Y, R : Before({}, Y, R) /\ Before(X, {}, R)
  BY DEF Before
<1>4. InOrder
  BY <1>2, <1>3, EmptyList DEF InOrder, OrderAt
<1>5. AllKept
  BY <1>2, EmptyList DEF AllKept, KeptAt
<1> QED
  BY <1>1, <1>4, <1>5 DEF IInv

(* The invariant is inductive.                                             *)
LEMMA InvStep == IInv /\ [Next]_vars => IInv'
BY ShapesStep, LineStep DEF IInv, Shapes

(* Every progress message is at the broker, in the buffer or with the      *)
(* client, unless it came after its queue was found idle, or was drained   *)
(* for a late answer or lost with the process (rabbitmq_client.py,         *)
(* _consumer_callback, stop_consumer_for_queue).                           *)
THEOREM NoMessageLost == Spec => []NothingLost
<1>1. IInv => NothingLost
  BY DEF IInv, AllKept, KeptAt, NothingLost
<1> QED
  BY <1>1, InitInv, InvStep, PTL DEF Spec

(* The client never sees a message after a later one, or twice, unless the *)
(* broker delivered it again (get_game_progress_messages).                 *)
THEOREM ProgressInOrder == Spec => []SeenInOrder
<1>1. IInv => SeenInOrder
  BY DEF IInv, InOrder, OrderAt, Ordered, SeenInOrder
<1> QED
  BY <1>1, InitInv, InvStep, PTL DEF Spec
=============================================================================
