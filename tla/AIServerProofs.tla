--------------------------- MODULE AIServerProofs ---------------------------
(***************************************************************************)
(* Theorems about AIServer, for every set of models, every size of the     *)
(* cache and however often a connection is lost or the process restarted.  *)
(***************************************************************************)
EXTENDS AIServer, TLAPS

(* The elements of a sequence are its head and those of its tail.          *)
LEMMA HeadOrTail ==
  ASSUME NEW S, NEW s \in Seq(S), s # <<>>, NEW x \in ToSet(s), x # Head(s)
  PROVE  x \in ToSet(Tail(s))
<1>1. PICK i \in 1 .. Len(s) : x = s[i]
  BY DEF ToSet
<1>2. i # 1 /\ i - 1 \in 1 .. Len(Tail(s)) /\ Tail(s)[i - 1] = x
  <2>1. i # 1 /\ i - 1 \in 1 .. Len(Tail(s))
    BY <1>1
  <2> QED
    BY <1>1, <2>1
<1>3. DOMAIN Tail(s) = 1 .. Len(Tail(s))
  OBVIOUS
<1> QED
  BY <1>2, <1>3 DEF ToSet

(* The tail of a sequence holds nothing new.                               *)
LEMMA TailType ==
  ASSUME NEW S, NEW s \in Seq(S), s # <<>>
  PROVE  Tail(s) \in Seq(S) /\ ToSet(Tail(s)) \subseteq ToSet(s)
<1>1. /\ Tail(s) \in Seq(S) /\ DOMAIN Tail(s) = 1 .. Len(Tail(s))
      /\ DOMAIN s = 1 .. Len(s)
      /\ \A i \in 1 .. Len(Tail(s)) :
           i + 1 \in 1 .. Len(s) /\ Tail(s)[i] = s[i + 1]
  OBVIOUS
<1> QED
  BY <1>1 DEF ToSet

(* Appending adds one element and keeps the head.                          *)
LEMMA AppendHas ==
  ASSUME NEW S, NEW s \in Seq(S), NEW x \in S
  PROVE  /\ Append(s, x) \in Seq(S) /\ Append(s, x) # <<>>
         /\ ToSet(Append(s, x)) = ToSet(s) \cup {x}
         /\ s # <<>> => Head(Append(s, x)) = Head(s)
<1>1. /\ Append(s, x) \in Seq(S) /\ Len(Append(s, x)) = Len(s) + 1
      /\ \A i \in 1 .. Len(s) : Append(s, x)[i] = s[i]
      /\ Append(s, x)[Len(s) + 1] = x
  OBVIOUS
<1>2. ToSet(Append(s, x)) = ToSet(s) \cup {x}
  <2>1. DOMAIN s = 1 .. Len(s) /\ DOMAIN Append(s, x) = 1 .. (Len(s) + 1)
    BY <1>1
  <2> QED
    BY <1>1, <2>1 DEF ToSet
<1>3. Append(s, x) # <<>>
  BY <1>1
<1>4. s # <<>> => Head(Append(s, x)) = Head(s)
  BY <1>1
<1> QED
  BY <1>1, <1>2, <1>3, <1>4

-----------------------------------------------------------------------------
At == {"dead", "idle", "load", "download", "bind", "inference", "publish",
       "connect", "ack"}
Place == [at : At, channel : Nat, id : Nat, ok : BOOLEAN, tries : Nat]

(* The types that matter here; the thread's channel is not a later one     *)
(* than the client's.                                                      *)
Shape ==
  /\ request \in Seq([kind : Kinds, model : Models])
  /\ answers \in Seq(SUBSET BOOLEAN) /\ Len(answers) = Len(request)
  /\ queue \in [Kinds -> Seq(Nat)]
  /\ channel \in Nat /\ open \in BOOLEAN /\ up \in BOOLEAN
  /\ thread \in Place /\ thread.channel <= channel

(* A queue holds requests of its kind.                                     *)
KindsKept ==
  \A k \in Kinds : \A i \in ToSet(queue[k]) :
    i \in DOMAIN request /\ request[i].kind = k

Working == thread.at \notin {"dead", "idle"}

(* The request being handled is the first of its queue.                    *)
InHand ==
  Working =>
    /\ thread.id \in DOMAIN request
    /\ queue[request[thread.id].kind] # <<>>
    /\ Head(queue[request[thread.id].kind]) = thread.id

(* A client that takes its channel for closed is not mistaken.             *)
Aware == up => open

(* On the channel of the request, as long as it is alive, the first        *)
(* attempt to publish succeeds and comes before the acknowledgement.       *)
Heard ==
  thread.channel = channel /\ up =>
    /\ thread.at = "ack" => answers[thread.id] # {}
    /\ thread.at = "publish" => thread.tries = 0
    /\ thread.at # "connect"

IInv == Shape /\ KindsKept /\ InHand /\ Aware /\ Heard /\ NothingLost

(* Appending leaves the earlier elements in place.                         *)
LEMMA AppendEffect ==
  ASSUME NEW S, NEW s \in Seq(S), NEW x \in S
  PROVE  /\ Append(s, x) \in Seq(S) /\ Len(Append(s, x)) = Len(s) + 1
         /\ DOMAIN Append(s, x) = DOMAIN s \cup {Len(s) + 1}
         /\ Append(s, x)[Len(s) + 1] = x /\ Len(s) + 1 \notin DOMAIN s
         /\ \A i \in DOMAIN s : Append(s, x)[i] = s[i]
<1>1. /\ Append(s, x) \in Seq(S) /\ Len(Append(s, x)) = Len(s) + 1
      /\ \A i \in 1 .. Len(s) : Append(s, x)[i] = s[i]
      /\ Append(s, x)[Len(s) + 1] = x
  OBVIOUS
<1>2. DOMAIN s = 1 .. Len(s) /\ DOMAIN Append(s, x) = 1 .. (Len(s) + 1)
      /\ Len(s) \in Nat
  BY <1>1
<1>3. 1 .. (Len(s) + 1) = (1 .. Len(s)) \cup {Len(s) + 1}
      /\ Len(s) + 1 \notin 1 .. Len(s)
  BY <1>2
<1> QED
  BY <1>1, <1>2, <1>3

(* The elements of a sequence have its type.                               *)
LEMMA ElementType ==
  ASSUME NEW S, NEW s \in Seq(S), NEW i \in DOMAIN s
  PROVE  s[i] \in S
OBVIOUS

(* The types of a request's parts.                                         *)
LEMMA RequestType ==
  ASSUME Shape, NEW i \in DOMAIN request
  PROVE  request[i].kind \in Kinds /\ request[i].model \in Models
<1> DEFINE Requests == [kind : Kinds, model : Models]
<1>1. request \in Seq(Requests)
  BY DEF Shape
<1>2. request[i] \in Requests
  <2> HIDE DEF Requests
  <2> QED
    BY <1>1, ElementType
<1> QED
  BY <1>2

(* Requests and answers have the same numbers.                             *)
LEMMA Lengths ==
  ASSUME Shape
  PROVE  /\ DOMAIN request = 1 .. Len(request)
         /\ DOMAIN answers = 1 .. Len(request)
<1>1. DOMAIN request = 1 .. Len(request)
  BY DEF Shape
<1>2. DOMAIN answers = 1 .. Len(answers) /\ Len(answers) = Len(request)
  BY DEF Shape
<1> QED
  BY <1>1, <1>2

-----------------------------------------------------------------------------
(* How the thread moves on.                                                *)
LEMMA GotoMoves ==
  ASSUME Shape, NEW at \in At, Goto(at)
  PROVE  /\ thread' \in Place /\ thread'.at = at
         /\ thread'.channel = thread.channel /\ thread'.id = thread.id
         /\ thread'.tries = thread.tries
BY DEF Shape, Place, Goto

(* A response starts with the first attempt to publish it.                 *)
LEMMA RespondMoves ==
  ASSUME Shape, NEW ok \in BOOLEAN, Respond(ok)
  PROVE  /\ thread' \in Place /\ thread'.at = "publish"
         /\ thread'.channel = thread.channel /\ thread'.id = thread.id
         /\ thread'.tries = 0
BY DEF Shape, Place, Respond, At

(* A further attempt concerns the same request.                            *)
LEMMA TryAgainMoves ==
  ASSUME Shape, thread' = [thread EXCEPT !.at = "publish", !.tries = @ + 1]
  PROVE  /\ thread' \in Place /\ thread'.at = "publish"
         /\ thread'.channel = thread.channel /\ thread'.id = thread.id
<1>1. thread \in Place /\ thread.tries + 1 \in Nat
  BY DEF Shape, Place
<1> QED
  BY <1>1 DEF Place, At

(* A dead or idle thread has a place.                                      *)
LEMMA RestPlaces ==
  /\ Dead \in Place /\ Dead.at = "dead" /\ Dead.channel = 0
  /\ \A c \in Nat : /\ Idle(c) \in Place /\ Idle(c).at = "idle"
                    /\ Idle(c).channel = c
BY DEF Dead, Idle, Place, At

(* A step that leaves the requests alone and keeps the thread's request, or *)
(* lets it go.                                                             *)
LEMMA QuietKeeps ==
  ASSUME IInv, UNCHANGED <<queue, request, answers, deleted>>,
         channel' \in Nat, open' \in BOOLEAN, up' \in BOOLEAN,
         thread' \in Place, thread'.channel <= channel', Aware', Heard',
         Working' => Working /\ thread'.id = thread.id
  PROVE  IInv'
<1>1. Shape'
  BY DEF IInv, Shape
<1>2. KindsKept' /\ NothingLost'
  BY DEF IInv, KindsKept, NothingLost
<1>3. InHand'
  BY DEF IInv, InHand
<1> QED
  BY <1>1, <1>2, <1>3 DEF IInv

(* The same on an unchanged connection.                                    *)
LEMMA MoveKeeps ==
  ASSUME IInv, Working, thread' \in Place, thread'.channel = thread.channel,
         thread'.id = thread.id, thread'.at \notin {"ack", "connect"},
         thread'.at = "publish" => thread'.tries = 0,
         UNCHANGED <<queue, request, answers, deleted, channel, open, up>>
  PROVE  IInv'
<1>1. /\ channel' \in Nat /\ open' \in BOOLEAN /\ up' \in BOOLEAN
      /\ thread'.channel <= channel'
  BY DEF IInv, Shape
<1>2. Aware' /\ Heard'
  BY DEF IInv, Aware, Heard
<1> QED
  BY <1>1, <1>2, QuietKeeps

(* Reading a model file, or failing to, decides the response.              *)
LEMMA LoadFileKeeps ==
  ASSUME IInv, Working, NEW m \in Models, LoadFile(m)
  PROVE  IInv'
<1>1. UNCHANGED <<queue, request, answers, deleted, channel, open, up>>
  BY DEF LoadFile, broker
<1>2. CASE Goto("bind")
  BY <1>1, <1>2, GotoMoves, MoveKeeps DEF IInv, At
<1>3. CASE Respond(FALSE)
  BY <1>1, <1>3, RespondMoves, MoveKeeps DEF IInv
<1> QED
  BY <1>2, <1>3 DEF LoadFile

(* The model of the request in hand.                                       *)
LEMMA ModelType == ASSUME IInv, Working PROVE Model \in Models
  BY RequestType DEF IInv, InHand, Model

(* The steps of loading and inference up to the response.                  *)
LEMMA LoadKeeps ==
  ASSUME IInv, Load \/ Refused \/ Downloaded \/ Cut \/ Infer
  PROVE  IInv'
<1>1. Working
  BY DEF Working, Load, Refused, Downloaded, Cut, Infer
<1>2. CASE LoadFile(Model)
  BY <1>1, <1>2, ModelType, LoadFileKeeps
<1>3. CASE Load /\ ~ LoadFile(Model)
  <2>1. UNCHANGED <<queue, request, answers, deleted, channel, open, up>>
    BY <1>3 DEF Load, broker, ghosts
  <2>2. Goto("bind") \/ Goto("download")
    BY <1>3 DEF Load
  <2> QED
    BY <1>1, <2>1, <2>2, GotoMoves, MoveKeeps DEF IInv, At
<1>4. CASE Refused \/ Cut \/ Infer
  <2>1. UNCHANGED <<queue, request, answers, deleted, channel, open, up>>
    BY <1>4 DEF Refused, Cut, Infer, broker, ghosts
  <2>2. \E ok \in BOOLEAN : Respond(ok)
    <3>1. (Model \in Loaded) \in BOOLEAN
      OBVIOUS
    <3> QED
      BY <1>4, <3>1 DEF Refused, Cut, Infer
  <2> QED
    BY <1>1, <2>1, <2>2, RespondMoves, MoveKeeps DEF IInv
<1> QED
  BY <1>2, <1>3, <1>4 DEF Downloaded

(* A key is bound before the confirmation is published.                    *)
LEMMA BindKeeps ==
  ASSUME IInv, Bind
  PROVE  IInv'
<1>1. /\ UNCHANGED <<queue, request, answers, deleted, channel, up>>
      /\ Working /\ channel \in Nat /\ up \in BOOLEAN
  BY DEF Bind, ghosts, Working, IInv, Shape
<1>2. CASE open /\ up
  <2>1. Respond(TRUE) /\ open' = open
    BY <1>2 DEF Bind
  <2> QED
    BY <1>1, <2>1, RespondMoves, MoveKeeps DEF IInv
<1>3. CASE ~ (open /\ up)
  <2>1. thread' = Dead /\ open' = FALSE /\ ~ up
    BY <1>3 DEF Bind, IInv, Aware
  <2> QED
    <3>1. thread' \in Place /\ thread'.at = "dead" /\ thread'.channel <= channel'
      BY <1>1, <2>1, RestPlaces
    <3>2. Aware' /\ Heard' /\ ~ Working'
      BY <1>1, <2>1, <3>1 DEF Aware, Heard, Working
    <3>3. channel' \in Nat /\ open' \in BOOLEAN /\ up' \in BOOLEAN
      BY <1>1, <2>1
    <3> QED
      BY <1>1, <3>1, <3>2, <3>3, QuietKeeps
<1> QED
  BY <1>2, <1>3

-----------------------------------------------------------------------------
(* The request taken is the first of its queue.                            *)
LEMMA TakeKeeps ==
  ASSUME IInv, NEW k \in Kinds, Take(k)
  PROVE  IInv'
<1>1. /\ thread.at = "idle" /\ queue[k] # <<>>
      /\ thread' = [thread EXCEPT !.at = k, !.id = Head(queue[k])]
      /\ UNCHANGED <<queue, request, answers, deleted, channel, open, up>>
  BY DEF Take, broker, ghosts
<1>2. Head(queue[k]) \in ToSet(queue[k]) /\ Head(queue[k]) \in Nat
  BY <1>1 DEF IInv, Shape, ToSet
<1>3. /\ Head(queue[k]) \in DOMAIN request
      /\ request[Head(queue[k])].kind = k
  BY <1>2 DEF IInv, KindsKept
<1>4. /\ thread' \in Place /\ thread'.at = k /\ thread'.id = Head(queue[k])
      /\ thread'.channel = thread.channel
  BY <1>1, <1>2 DEF IInv, Shape, Place, At, Kinds
<1>5. Shape'
  BY <1>1, <1>4 DEF IInv, Shape
<1>6. InHand'
  BY <1>1, <1>3, <1>4 DEF InHand
<1>7. KindsKept' /\ NothingLost' /\ Aware'
  BY <1>1 DEF IInv, KindsKept, NothingLost, Aware
<1>8. Heard'
  BY <1>4 DEF Heard, Kinds
<1> QED
  BY <1>5, <1>6, <1>7, <1>8 DEF IInv

(* A published answer stays with its request.                              *)
LEMMA PublishedKeeps ==
  ASSUME IInv, Published
  PROVE  IInv'
<1>1. /\ thread.at = "publish" /\ Goto("ack") /\ thread.ok \in BOOLEAN
      /\ answers' = [answers EXCEPT ![thread.id] = @ \cup {thread.ok}]
      /\ UNCHANGED <<queue, request, deleted, channel, open, up>>
  BY DEF Published, broker, IInv, Shape, Place
<1>2. /\ thread' \in Place /\ thread'.at = "ack" /\ thread'.id = thread.id
      /\ thread'.channel = thread.channel
  BY <1>1, GotoMoves DEF IInv, At
<1>3. thread.id \in DOMAIN request /\ thread.id \in DOMAIN answers
  BY <1>1, Lengths DEF IInv, InHand, Working
<1>4. /\ answers' \in Seq(SUBSET BOOLEAN) /\ Len(answers') = Len(answers)
      /\ \A i \in DOMAIN request : answers[i] \subseteq answers'[i]
      /\ answers'[thread.id] # {}
  <2> DEFINE new == answers[thread.id] \cup {thread.ok}
  <2>1. answers \in Seq(SUBSET BOOLEAN) /\ DOMAIN answers = DOMAIN request
    BY Lengths DEF IInv, Shape
  <2>2. new \in SUBSET BOOLEAN /\ new # {} /\ answers[thread.id] \subseteq new
    <3>1. answers[thread.id] \in SUBSET BOOLEAN
      BY <1>3, <2>1, ElementType
    <3> QED
      BY <1>1, <3>1
  <2>3. answers' = [answers EXCEPT ![thread.id] = new]
    BY <1>1
  <2> HIDE DEF new
  <2> QED
    BY <1>3, <2>1, <2>2, <2>3
<1>5. Shape'
  BY <1>1, <1>2, <1>4 DEF IInv, Shape
<1>6. KindsKept' /\ Aware'
  BY <1>1 DEF IInv, KindsKept, Aware
<1>7. InHand'
  BY <1>1, <1>2 DEF IInv, InHand, Working
<1>8. Heard'
  BY <1>2, <1>4 DEF Heard
<1>9. NothingLost'
  <2> SUFFICES ASSUME NEW i \in DOMAIN request
               PROVE  \/ answers'[i] # {}
                      \/ i \in ToSet(queue[request[i].kind])
                      \/ i \in deleted
    BY <1>1 DEF NothingLost
  <2> QED
    BY <1>4 DEF IInv, NothingLost
<1> QED
  BY <1>5, <1>6, <1>7, <1>8, <1>9 DEF IInv

(* Publications that do not reach the broker are followed by the           *)
(* acknowledgement only when the request's channel is dead.                *)
LEMMA NotPublishedKeeps ==
  ASSUME IInv, NotPublished \/ GiveUp \/ FindClosed
  PROVE  IInv'
<1>1. /\ thread.at = "publish" /\ Working
      /\ UNCHANGED <<queue, request, answers, deleted, channel, up>>
      /\ channel \in Nat /\ up \in BOOLEAN /\ open' \in BOOLEAN
  BY DEF NotPublished, GiveUp, FindClosed, broker, ghosts, Working, IInv, Shape
<1>2. /\ thread' \in Place /\ thread'.id = thread.id
      /\ thread'.channel = thread.channel
  <2>1. CASE Goto("ack") \/ Goto("connect")
    BY <2>1, GotoMoves DEF IInv, At
  <2>2. CASE thread' = [thread EXCEPT !.tries = @ + 1]
    <3>1. [thread EXCEPT !.tries = @ + 1]
            = [thread EXCEPT !.at = "publish", !.tries = @ + 1]
      BY <1>1 DEF IInv, Shape, Place
    <3> QED
      BY <2>2, <3>1, TryAgainMoves DEF IInv
  <2> QED
    BY <2>1, <2>2 DEF NotPublished, GiveUp, FindClosed
<1>3. thread.channel # channel \/ ~ up
  BY <1>1 DEF IInv, Aware, Heard, NotPublished, GiveUp, FindClosed, Retries
<1>4. Aware' /\ Heard'
  BY <1>1, <1>2, <1>3 DEF IInv, Aware, Heard, NotPublished, GiveUp, FindClosed
<1>5. thread'.channel <= channel'
  BY <1>1, <1>2 DEF IInv, Shape
<1> QED
  BY <1>1, <1>2, <1>4, <1>5, QuietKeeps

(* Connecting to publish moves to a channel that is not the request's.     *)
LEMMA ConnectToPublishKeeps ==
  ASSUME IInv, ConnectToPublish
  PROVE  IInv'
<1>1. /\ thread.at = "connect" /\ Working
      /\ UNCHANGED <<queue, request, answers, deleted>>
      /\ channel \in Nat /\ open \in BOOLEAN /\ up \in BOOLEAN
      /\ thread.channel \in Nat /\ thread.channel <= channel
  BY DEF ConnectToPublish, Connect, broker, ghosts, Working, IInv, Shape, Place
<1>2. CASE Goto("publish") /\ Connect({})
  <2>1. /\ thread' \in Place /\ thread'.id = thread.id
        /\ thread'.channel = thread.channel
    BY <1>2, GotoMoves DEF IInv, At
  <2>2. channel' = channel + 1 /\ open' = TRUE /\ up' = TRUE
    BY <1>2 DEF Connect
  <2>3. thread'.channel < channel' /\ channel' \in Nat
    BY <1>1, <2>1, <2>2
  <2>4. Aware' /\ Heard'
    BY <1>1, <2>1, <2>2, <2>3 DEF Aware, Heard
  <2>5. thread'.channel <= channel'
    BY <1>1, <2>1, <2>2
  <2> QED
    BY <1>1, <2>1, <2>2, <2>3, <2>4, <2>5, QuietKeeps
<1>3. CASE /\ thread' = [thread EXCEPT !.at = "publish", !.tries = @ + 1]
           /\ UNCHANGED <<channel, open, up>>
  <2>1. /\ thread' \in Place /\ thread'.id = thread.id
        /\ thread'.channel = thread.channel
    BY <1>3, TryAgainMoves DEF IInv
  <2>2. Aware' /\ Heard'
    BY <1>1, <1>3, <2>1 DEF IInv, Aware, Heard
  <2> QED
    BY <1>1, <1>3, <2>1, <2>2, QuietKeeps
<1> QED
  BY <1>2, <1>3 DEF ConnectToPublish, broker

(* The acknowledgement removes the request only on its own channel, where  *)
(* the answer has been published.                                          *)
LEMMA AckKeeps ==
  ASSUME IInv, Ack
  PROVE  IInv'
<1>1. /\ thread.at = "ack" /\ Working
      /\ UNCHANGED <<request, answers, deleted, channel, up>>
      /\ channel \in Nat /\ open \in BOOLEAN /\ up \in BOOLEAN
      /\ thread.channel \in Nat /\ thread.channel <= channel
  BY DEF Ack, ghosts, Working, IInv, Shape, Place
<1>2. CASE CanAck
  <2> DEFINE k == request[thread.id].kind
  <2>1. /\ queue' = [queue EXCEPT ![k] = Tail(@)]
        /\ thread' = Idle(thread.channel) /\ open' = open
        /\ thread.channel = channel /\ up
    BY <1>2 DEF Ack, CanAck
  <2>2. /\ thread.id \in DOMAIN request /\ queue[k] # <<>>
        /\ Head(queue[k]) = thread.id /\ answers[thread.id] # {}
    BY <1>1, <2>1 DEF IInv, Shape, InHand, Heard
  <2>3. k \in Kinds
    BY <2>2, RequestType DEF IInv
  <2>4. k \in Kinds /\ queue[k] \in Seq(Nat)
    BY <2>3 DEF IInv, Shape
  <2>5. /\ Tail(queue[k]) \in Seq(Nat)
        /\ ToSet(Tail(queue[k])) \subseteq ToSet(queue[k])
        /\ \A i \in ToSet(queue[k]) : i # thread.id => i \in ToSet(Tail(queue[k]))
    BY <2>2, <2>4, HeadOrTail, TailType
  <2> HIDE DEF k
  <2>6. /\ queue' \in [Kinds -> Seq(Nat)] /\ queue'[k] = Tail(queue[k])
        /\ \A j \in Kinds \ {k} : queue'[j] = queue[j]
    BY <2>1, <2>4, <2>5 DEF IInv, Shape
  <2>7. /\ thread' \in Place /\ thread'.at = "idle" /\ thread'.channel = channel
    BY <1>1, <2>1, RestPlaces
  <2>8. Shape'
    BY <1>1, <2>1, <2>6, <2>7 DEF IInv, Shape
  <2>9. KindsKept'
    BY <1>1, <2>4, <2>5, <2>6 DEF IInv, KindsKept
  <2>10. InHand' /\ Aware' /\ Heard'
    BY <1>1, <2>1, <2>7 DEF IInv, InHand, Working, Aware, Heard
  <2>11. NothingLost'
    <3> SUFFICES ASSUME NEW i \in DOMAIN request, answers[i] = {},
                        i \notin deleted
                 PROVE  i \in ToSet(queue'[request[i].kind])
      BY <1>1 DEF NothingLost
    <3>1. i # thread.id /\ i \in ToSet(queue[request[i].kind])
      BY <2>2 DEF IInv, NothingLost
    <3>2. request[i].kind \in Kinds
      BY RequestType DEF IInv
    <3> QED
      BY <2>5, <2>6, <3>1, <3>2
  <2> QED
    BY <2>8, <2>9, <2>10, <2>11 DEF IInv
<1>3. CASE ~ CanAck
  <2>1. /\ thread' = Dead /\ queue' = queue
        /\ open' = (open /\ thread.channel # channel)
        /\ thread.channel = channel => ~ up
    BY <1>3 DEF Ack, CanAck
  <2>2. /\ thread' \in Place /\ thread'.at = "dead" /\ thread'.channel <= channel'
    BY <1>1, <2>1, RestPlaces
  <2>3. Aware' /\ Heard' /\ ~ Working' /\ open' \in BOOLEAN
    BY <1>1, <2>1, <2>2 DEF IInv, Aware, Heard, Working
  <2> QED
    BY <1>1, <2>1, <2>2, <2>3, QuietKeeps
<1> QED
  BY <1>2, <1>3

-----------------------------------------------------------------------------
(* A new request is queued, and has no answer yet.                         *)
LEMMA SendKeeps ==
  ASSUME IInv, NEW k \in Kinds, NEW m \in Models, Send(k, m)
  PROVE  IInv'
<1> DEFINE new == [kind |-> k, model |-> m]
           n == Len(request) + 1
<1>1. /\ request' = Append(request, new) /\ answers' = Append(answers, {})
      /\ queue' = [queue EXCEPT ![k] = Append(@, Len(request'))]
      /\ UNCHANGED <<thread, channel, open, up, deleted>>
  BY DEF Send, process
<1>2. new \in [kind : Kinds, model : Models] /\ new.kind = k
  OBVIOUS
<1>3. Len(request) \in Nat /\ n \in Nat
  BY DEF IInv, Shape
<1> HIDE DEF new
<1>4. /\ request' \in Seq([kind : Kinds, model : Models])
      /\ Len(request') = n /\ DOMAIN request' = DOMAIN request \cup {n}
      /\ request'[n] = new /\ n \notin DOMAIN request
      /\ \A i \in DOMAIN request : request'[i] = request[i]
  BY <1>1, <1>2, <1>3, AppendEffect DEF IInv, Shape
<1>5. /\ answers' \in Seq(SUBSET BOOLEAN) /\ Len(answers') = Len(request')
      /\ \A i \in DOMAIN request : answers'[i] = answers[i]
  <2>1. answers \in Seq(SUBSET BOOLEAN) /\ Len(answers) = Len(request)
        /\ DOMAIN answers = DOMAIN request /\ {} \in SUBSET BOOLEAN
    BY Lengths DEF IInv, Shape
  <2> QED
    BY <1>1, <1>4, <2>1, AppendEffect
<1> HIDE DEF n
<1>6. /\ queue'[k] \in Seq(Nat) /\ queue'[k] # <<>>
      /\ ToSet(queue'[k]) = ToSet(queue[k]) \cup {n}
      /\ queue[k] # <<>> => Head(queue'[k]) = Head(queue[k])
      /\ \A j \in Kinds \ {k} : queue'[j] = queue[j]
      /\ queue' \in [Kinds -> Seq(Nat)]
  <2>1. queue \in [Kinds -> Seq(Nat)] /\ queue[k] \in Seq(Nat)
    BY DEF IInv, Shape
  <2>2. queue' = [queue EXCEPT ![k] = Append(queue[k], n)]
    BY <1>1, <1>4
  <2>3. /\ Append(queue[k], n) \in Seq(Nat) /\ Append(queue[k], n) # <<>>
        /\ ToSet(Append(queue[k], n)) = ToSet(queue[k]) \cup {n}
        /\ queue[k] # <<>> => Head(Append(queue[k], n)) = Head(queue[k])
    BY <1>3, <2>1, AppendHas
  <2> QED
    BY <2>1, <2>2, <2>3, Zenon
<1>7. Shape'
  BY <1>1, <1>4, <1>5, <1>6 DEF IInv, Shape
<1>8. KindsKept'
  <2> SUFFICES ASSUME NEW j \in Kinds, NEW i \in ToSet(queue'[j])
               PROVE  i \in DOMAIN request' /\ request'[i].kind = j
    BY DEF KindsKept
  <2>1. i \in ToSet(queue[j]) \/ (i = n /\ j = k)
    BY <1>6
  <2> QED
    BY <1>2, <1>4, <2>1 DEF IInv, KindsKept
<1>9. InHand'
  <2> SUFFICES ASSUME Working
      PROVE  /\ thread.id \in DOMAIN request'
             /\ queue'[request'[thread.id].kind] # <<>>
             /\ Head(queue'[request'[thread.id].kind]) = thread.id
    BY <1>1 DEF InHand, Working
  <2>1. /\ thread.id \in DOMAIN request
        /\ queue[request[thread.id].kind] # <<>>
        /\ Head(queue[request[thread.id].kind]) = thread.id
        /\ request[thread.id].kind \in Kinds
    BY RequestType DEF IInv, InHand
  <2> QED
    BY <1>4, <1>6, <2>1
<1>10. Aware'
  BY <1>1 DEF IInv, Aware
<1>11. Heard'
  <2>1. thread.at = "ack" => thread.id \in DOMAIN request
    BY DEF IInv, InHand, Working
  <2> QED
    BY <1>1, <1>5, <2>1 DEF IInv, Heard
<1>12. NothingLost'
  <2> SUFFICES ASSUME NEW i \in DOMAIN request'
               PROVE  \/ answers'[i] # {}
                      \/ i \in ToSet(queue'[request'[i].kind])
                      \/ i \in deleted
    BY <1>1 DEF NothingLost
  <2>1. CASE i = n
    BY <1>2, <1>4, <1>6, <2>1
  <2>2. CASE i \in DOMAIN request
    <3>1. request[i].kind \in Kinds
      BY <2>2, RequestType DEF IInv
    <3>2. \/ answers[i] # {}
          \/ i \in ToSet(queue[request[i].kind])
          \/ i \in deleted
      BY <2>2 DEF IInv, NothingLost
    <3> QED
      BY <1>4, <1>5, <1>6, <2>2, <3>1, <3>2
  <2> QED
    BY <1>4, <2>1, <2>2
<1> QED
  BY <1>7, <1>8, <1>9, <1>10, <1>11, <1>12 DEF IInv

(* The steps of the connection.                                            *)
LEMMA NoticeLossKeeps ==
  ASSUME IInv, NoticeLoss
  PROVE  IInv'
<1>1. /\ ~ up /\ open' = FALSE /\ thread' = Dead
      /\ UNCHANGED <<queue, request, answers, deleted, channel, up>>
      /\ channel \in Nat
  BY DEF NoticeLoss, broker, ghosts, IInv, Shape
<1>2. thread' \in Place /\ thread'.at = "dead" /\ thread'.channel <= channel'
  BY <1>1, RestPlaces
<1>3. Aware' /\ Heard' /\ ~ Working' /\ up' \in BOOLEAN
  BY <1>1, <1>2 DEF IInv, Shape, Aware, Heard, Working
<1> QED
  BY <1>1, <1>2, <1>3, QuietKeeps

(* The reconnect loop sees a closed channel.                               *)
LEMMA WatchKeeps ==
  ASSUME IInv, Watch
  PROVE  IInv'
<1>1. UNCHANGED <<queue, request, answers, deleted, channel, open, up, thread>>
  BY DEF Watch, broker, ghosts
<1> QED
  BY <1>1 DEF IInv, Shape, KindsKept, InHand, Working, Aware, Heard, NothingLost

(* A thread that starts again is idle on the new channel.                  *)
LEMMA ReconnectKeeps ==
  ASSUME IInv, Reconnect
  PROVE  IInv'
<1>1. /\ channel' = channel + 1 /\ open' = TRUE /\ up' = TRUE
      /\ thread' \in {thread, Idle(channel')}
      /\ thread # Dead => thread' = thread
      /\ UNCHANGED <<queue, request, answers, deleted>>
      /\ channel \in Nat /\ channel' \in Nat
  BY DEF Reconnect, Connect, IInv, Shape
<1>2. CASE thread = Dead
  <2>1. /\ thread' \in Place /\ thread'.at \in {"idle", "dead"}
        /\ thread'.channel \in {0, channel'}
    BY <1>1, <1>2, RestPlaces
  <2>2. Aware' /\ Heard' /\ ~ Working' /\ thread'.channel <= channel'
    BY <1>1, <2>1 DEF Aware, Heard, Working
  <2> QED
    BY <1>1, <2>1, <2>2, QuietKeeps
<1>3. CASE thread # Dead
  <2>1. thread' = thread /\ thread' \in Place
    BY <1>1, <1>3 DEF IInv, Shape
  <2>2. thread'.channel <= channel' /\ thread'.channel # channel'
    <3>1. thread.channel \in Nat /\ thread.channel <= channel
      BY DEF IInv, Shape, Place
    <3> QED
      BY <1>1, <2>1, <3>1
  <2>3. Aware' /\ Heard' /\ (Working' => Working /\ thread'.id = thread.id)
    BY <1>1, <2>1, <2>2 DEF Aware, Heard, Working
  <2> QED
    BY <1>1, <2>1, <2>2, <2>3, QuietKeeps
<1> QED
  BY <1>2, <1>3

(* After a lost connection no channel is alive.                            *)
LEMMA DropKeeps ==
  ASSUME IInv, Drop
  PROVE  IInv'
<1>1. /\ up' = FALSE
      /\ UNCHANGED <<queue, request, answers, deleted, channel, open, thread>>
  BY DEF Drop, process
<1>2. Aware' /\ Heard'
  BY <1>1 DEF Aware, Heard
<1>3. /\ channel' \in Nat /\ open' \in BOOLEAN /\ up' \in BOOLEAN
      /\ thread' \in Place /\ thread'.channel <= channel'
      /\ Working' => Working /\ thread'.id = thread.id
  BY <1>1 DEF IInv, Shape, Working
<1> QED
  BY <1>1, <1>2, <1>3, QuietKeeps

(* A new process holds no request.                                         *)
LEMMA StartRests ==
  ASSUME NEW connected \in BOOLEAN, Start(connected)
  PROVE  /\ channel' \in Nat /\ open' \in BOOLEAN /\ up' \in BOOLEAN
         /\ thread' \in Place /\ thread'.channel <= channel'
         /\ Aware' /\ Heard' /\ ~ Working'
<1>1. /\ channel' = (IF connected THEN 1 ELSE 0)
      /\ open' = connected /\ up' = connected
      /\ thread' = (IF connected THEN Idle(1) ELSE Dead)
  BY DEF Start
<1>2. /\ thread' \in Place /\ thread'.at \in {"idle", "dead"}
      /\ thread'.channel <= channel'
  BY <1>1, RestPlaces
<1> QED
  BY <1>1, <1>2 DEF Aware, Heard, Working

(* The queues outlive the process, but the deleted one.                    *)
LEMMA RestartKeeps ==
  ASSUME IInv, NEW connected \in BOOLEAN, Crash(connected) \/ Stop(connected)
  PROVE  IInv'
<1>1. Start(connected) /\ UNCHANGED <<request, answers>>
  BY DEF Crash, Stop, Restart
<1>2. CASE UNCHANGED <<queue, deleted>>
  BY <1>1, <1>2, StartRests, QuietKeeps
<1>3. CASE /\ queue' = [queue EXCEPT !["inference"] = <<>>]
           /\ deleted' = deleted \cup ToSet(queue["inference"])
  <2>1. /\ queue' \in [Kinds -> Seq(Nat)] /\ queue'["inference"] = <<>>
        /\ queue'["load"] = queue["load"] /\ ToSet(<<>>) = {}
    BY <1>3 DEF IInv, Shape, Kinds, ToSet
  <2>2. Shape'
    BY <1>1, <2>1, StartRests DEF IInv, Shape
  <2>3. KindsKept'
    BY <1>1, <2>1 DEF IInv, KindsKept, Kinds
  <2>4. InHand' /\ Aware' /\ Heard'
    BY <1>1, StartRests DEF InHand
  <2>5. NothingLost'
    <3> SUFFICES ASSUME NEW i \in DOMAIN request, answers[i] = {},
                        i \notin deleted'
                 PROVE  i \in ToSet(queue'[request[i].kind])
      BY <1>1 DEF NothingLost
    <3>1. request[i].kind \in Kinds
      BY RequestType DEF IInv
    <3>2. i \in ToSet(queue[request[i].kind])
      BY <1>3 DEF IInv, NothingLost
    <3> QED
      BY <1>3, <2>1, <3>1, <3>2 DEF Kinds
  <2> QED
    BY <2>2, <2>3, <2>4, <2>5 DEF IInv
<1> QED
  BY <1>2, <1>3 DEF Crash, Stop

-----------------------------------------------------------------------------
(* At first nothing is queued and the thread is idle.                      *)
LEMMA InitKeeps == Init => IInv
<1> SUFFICES ASSUME Init PROVE IInv
  OBVIOUS
<1>1. /\ request = <<>> /\ answers = <<>>
      /\ channel \in {0, 1} /\ open \in BOOLEAN /\ up = open
      /\ open => channel = 1 /\ thread = Idle(1)
      /\ ~open => channel = 0 /\ thread = Dead
      /\ queue = [k \in Kinds |-> <<>>]
  BY DEF Init
<1>2. /\ thread \in Place /\ thread.at \in {"idle", "dead"}
      /\ thread.channel = channel
  BY <1>1, RestPlaces
<1>3. Shape
  BY <1>1, <1>2 DEF Shape
<1>4. KindsKept
  BY <1>1 DEF KindsKept, ToSet
<1>5. InHand /\ Aware /\ Heard
  BY <1>1, <1>2 DEF InHand, Working, Aware, Heard
<1>6. NothingLost
  BY <1>1 DEF NothingLost
<1> QED
  BY <1>3, <1>4, <1>5, <1>6 DEF IInv

(* Every step keeps the invariant of the requests.                         *)
LEMMA StepKeeps == IInv /\ [Next]_vars => IInv'
<1> SUFFICES ASSUME IInv, [Next]_vars PROVE IInv'
  OBVIOUS
<1>1. ASSUME NEW k \in Kinds, NEW m \in Models, Send(k, m) PROVE IInv'
  BY <1>1, SendKeeps
<1>2. CASE Consume
  BY <1>2, TakeKeeps, LoadKeeps, BindKeeps, PublishedKeeps, NotPublishedKeeps,
     ConnectToPublishKeeps, AckKeeps, NoticeLossKeeps
  DEF Consume
<1>3. CASE Watch \/ Reconnect \/ Drop
  BY <1>3, WatchKeeps, ReconnectKeeps, DropKeeps
<1>4. ASSUME NEW connected \in BOOLEAN, Crash(connected) \/ Stop(connected)
      PROVE  IInv'
  BY <1>4, RestartKeeps
<1>5. CASE UNCHANGED vars
  BY <1>5 DEF IInv, Shape, KindsKept, InHand, Working, Aware, Heard,
              NothingLost, vars, process, broker, ghosts
<1> QED
  BY <1>1, <1>2, <1>3, <1>4, <1>5 DEF Next

-----------------------------------------------------------------------------
(* The types of what the cache consists of.                                *)
CacheShape ==
  /\ models \in Seq(Models) /\ files \in [Models -> {"none", "partial", "whole"}]
  /\ keys \subseteq Models /\ bound \subseteq Models

(* Models whose key was bound by this process were loaded by it.           *)
BoundWasLoaded == bound \subseteq Loaded \cup evicted

(* A model in memory comes from a whole file.                              *)
LoadedIsWhole == \A m \in Loaded : files[m] = "whole"

(* What waits in the inference queue came by a key.                        *)
QueuedByKey ==
  \A i \in ToSet(queue["inference"]) : request[i].model \in keys

(* A key is bound for a loaded model; a good answer is about one, whose    *)
(* key is bound.                                                           *)
AnswerIsTrue ==
  /\ thread.at = "bind" => Model \in Loaded
  /\ thread.at = "inference" => Model \in keys
  /\ thread.at \in {"publish", "connect"} /\ thread.ok =>
       Model \in Loaded /\ Model \in keys

CacheInv ==
  /\ CacheShape /\ RoutedOrEvicted /\ BoundWasLoaded
  /\ LoadedIsWhole /\ QueuedByKey /\ AnswerIsTrue

(* Nothing about the cache changes but where the thread is.                *)
LEMMA CacheKept ==
  ASSUME CacheInv, AnswerIsTrue',
         UNCHANGED <<models, files, keys, bound, evicted, inherited, request,
                     queue>>
  PROVE  CacheInv'
BY DEF CacheInv, CacheShape, RoutedOrEvicted, BoundWasLoaded, LoadedIsWhole,
       QueuedByKey, Loaded

(* The cache never gives up the model that has just been loaded.           *)
LEMMA EvictKeeps ==
  ASSUME NEW s \in Seq(Models), NEW m \in Models
  PROVE  /\ Evict(Append(s, m)) \in Seq(Models)
         /\ m \in ToSet(Evict(Append(s, m)))
         /\ ToSet(Evict(Append(s, m))) \subseteq ToSet(s) \cup {m}
<1> DEFINE t == Append(s, m)
<1>1. /\ t \in Seq(Models) /\ t # <<>> /\ ToSet(t) = ToSet(s) \cup {m}
  BY AppendHas
<1>2. /\ Len(t) = Len(s) + 1 /\ Len(s) \in Nat /\ t[Len(t)] = m
      /\ \A i \in DOMAIN s : t[i] = s[i]
  BY AppendEffect
<1> HIDE DEF t
<1>3. CASE Len(t) > MaxLoaded
  <2>1. Len(t) >= 2
    BY <1>2, <1>3, AIServerAssumption DEF AIServerAssumption
  <2>2. /\ Tail(t) \in Seq(Models) /\ ToSet(Tail(t)) \subseteq ToSet(t)
    BY <1>1, TailType
  <2>3. m \in ToSet(Tail(t))
    <3>1. /\ DOMAIN Tail(t) = 1 .. (Len(t) - 1)
          /\ \A i \in 1 .. (Len(t) - 1) : Tail(t)[i] = t[i + 1]
      BY <1>1
    <3>2. Len(t) - 1 \in 1 .. (Len(t) - 1) /\ (Len(t) - 1) + 1 = Len(t)
      BY <1>2, <2>1
    <3>3. Len(t) - 1 \in DOMAIN Tail(t) /\ Tail(t)[Len(t) - 1] = m
      BY <1>2, <3>1, <3>2
    <3> QED
      BY <3>3 DEF ToSet
  <2>4. Evict(t) = Tail(t)
    BY <1>3 DEF Evict
  <2> QED
    BY <1>1, <2>2, <2>3, <2>4 DEF t
<1>4. CASE ~ (Len(t) > MaxLoaded)
  <2>1. Evict(t) = t
    BY <1>4 DEF Evict
  <2> QED
    BY <1>1, <2>1 DEF t
<1> QED
  BY <1>3, <1>4

(* What is in memory are models.                                           *)
LEMMA LoadedAreModels == ASSUME CacheInv PROVE Loaded \subseteq Models
<1>1. models \in Seq(Models)
  BY DEF CacheInv, CacheShape
<1> QED
  BY <1>1, ElementType DEF Loaded, ToSet

(* A whole file is loaded, and at most another model evicted.              *)
LEMMA LoadFileCaches ==
  ASSUME IInv, CacheInv, Working, LoadFile(Model),
         files' \in [Models -> {"none", "partial", "whole"}],
         \A m \in Loaded : files'[m] = "whole"
  PROVE  CacheInv'
<1>1. /\ UNCHANGED <<bound, keys, queue, request, inherited>>
      /\ Model \in Models /\ models \in Seq(Models)
  BY ModelType DEF LoadFile, broker, CacheInv, CacheShape
<1>2. CASE files'[Model] = "whole"
  <2> DEFINE new == Evict(Append(models, Model))
  <2>1. /\ models' = new /\ Goto("bind")
        /\ evicted' = (evicted \ {Model}) \cup (Loaded \ ToSet(new))
    BY <1>2 DEF LoadFile
  <2>2. /\ new \in Seq(Models) /\ Model \in ToSet(new)
        /\ ToSet(new) \subseteq Loaded \cup {Model}
    BY <1>1, EvictKeeps DEF Loaded
  <2> HIDE DEF new
  <2>3. Loaded' = ToSet(new) /\ Loaded \cup evicted \subseteq Loaded' \cup evicted'
    BY <2>1, <2>2 DEF Loaded
  <2>4. CacheShape'
    BY <1>1, <2>1, <2>2 DEF CacheInv, CacheShape
  <2>5. RoutedOrEvicted' /\ BoundWasLoaded'
    BY <1>1, <2>3 DEF CacheInv, RoutedOrEvicted, BoundWasLoaded
  <2>6. LoadedIsWhole'
    BY <1>2, <2>2, <2>3 DEF LoadedIsWhole
  <2>7. QueuedByKey'
    BY <1>1 DEF CacheInv, QueuedByKey
  <2>8. AnswerIsTrue'
    <3>1. thread'.at = "bind" /\ thread'.id = thread.id
      BY <2>1, GotoMoves DEF IInv, At
    <3>2. Model' = Model
      BY <1>1, <3>1 DEF Model
    <3> QED
      BY <2>2, <2>3, <3>1, <3>2 DEF AnswerIsTrue
  <2> QED
    BY <2>4, <2>5, <2>6, <2>7, <2>8 DEF CacheInv
<1>3. CASE files'[Model] # "whole"
  <2>1. Respond(FALSE) /\ models' = models /\ evicted' = evicted
    BY <1>3 DEF LoadFile
  <2>2. thread'.at = "publish" /\ ~ thread'.ok
    BY <2>1 DEF Respond, IInv, Shape, Place
  <2>3. AnswerIsTrue'
    BY <2>2 DEF AnswerIsTrue
  <2>4. CacheShape' /\ LoadedIsWhole'
    BY <1>1, <2>1 DEF CacheInv, CacheShape, LoadedIsWhole, Loaded
  <2>5. RoutedOrEvicted' /\ BoundWasLoaded' /\ QueuedByKey'
    BY <1>1, <2>1
    DEF CacheInv, RoutedOrEvicted, BoundWasLoaded, QueuedByKey, Loaded
  <2> QED
    BY <2>3, <2>4, <2>5 DEF CacheInv
<1> QED
  BY <1>2, <1>3

(* The steps of loading and inference up to the response.                  *)
LEMMA LoadCaches ==
  ASSUME IInv, CacheInv, Load \/ Refused \/ Downloaded \/ Cut \/ Infer
  PROVE  CacheInv'
<1>1. Working /\ Model \in Models
  BY ModelType DEF Working, Load, Refused, Downloaded, Cut, Infer
<1>2. CASE Downloaded
  <2>1. files' = [files EXCEPT ![Model] = "whole"] /\ LoadFile(Model)
    BY <1>2 DEF Downloaded
  <2>2. /\ files' \in [Models -> {"none", "partial", "whole"}]
        /\ \A m \in Loaded : files'[m] = "whole"
    BY <1>1, <2>1, LoadedAreModels DEF CacheInv, CacheShape, LoadedIsWhole
  <2> QED
    BY <1>1, <2>1, <2>2, LoadFileCaches
<1>3. CASE Load /\ files' = files /\ LoadFile(Model)
  <2>1. /\ files' \in [Models -> {"none", "partial", "whole"}]
        /\ \A m \in Loaded : files'[m] = "whole"
    BY <1>3 DEF CacheInv, CacheShape, LoadedIsWhole
  <2> QED
    BY <1>1, <1>3, <2>1, LoadFileCaches
<1>4. CASE Model \in Loaded /\ Goto("bind") /\ Load /\ UNCHANGED <<files, ghosts>>
  <2>1. UNCHANGED <<models, files, keys, bound, evicted, inherited, request, queue>>
    BY <1>4 DEF Load, broker, ghosts
  <2>2. thread'.at = "bind" /\ thread'.id = thread.id
    BY <1>4, GotoMoves DEF IInv, At
  <2>3. AnswerIsTrue'
    BY <1>4, <2>1, <2>2 DEF AnswerIsTrue, Model, Loaded
  <2> QED
    BY <2>1, <2>3, CacheKept
<1>5. CASE /\ Model \notin Loaded /\ files[Model] = "none" /\ Goto("download")
           /\ files' = [files EXCEPT ![Model] = "partial"]
           /\ UNCHANGED <<models, bound, broker, ghosts>>
  <2>1. UNCHANGED <<models, keys, bound, evicted, inherited, request, queue>>
    BY <1>5 DEF broker, ghosts
  <2>2. thread'.at = "download"
    BY <1>5, GotoMoves DEF IInv, At
  <2>3. AnswerIsTrue'
    BY <2>2 DEF AnswerIsTrue
  <2>4. CacheShape'
    BY <1>1, <1>5, <2>1 DEF CacheInv, CacheShape
  <2>5. LoadedIsWhole'
    BY <1>1, <1>5, <2>1, LoadedAreModels
    DEF CacheInv, CacheShape, LoadedIsWhole, Loaded
  <2>6. RoutedOrEvicted' /\ BoundWasLoaded' /\ QueuedByKey'
    BY <2>1 DEF CacheInv, RoutedOrEvicted, BoundWasLoaded, QueuedByKey, Loaded
  <2> QED
    BY <2>3, <2>4, <2>5, <2>6 DEF CacheInv
<1>6. CASE Refused \/ Cut
  <2>1. /\ UNCHANGED <<models, files, keys, bound, evicted, inherited, request,
                       queue>>
        /\ Respond(FALSE)
    BY <1>6 DEF Refused, Cut, broker, ghosts
  <2>2. thread'.at = "publish" /\ ~ thread'.ok
    BY <2>1 DEF Respond, IInv, Shape, Place
  <2>3. AnswerIsTrue'
    BY <2>2 DEF AnswerIsTrue
  <2> QED
    BY <2>1, <2>3, CacheKept
<1>7. CASE Infer
  <2>1. /\ UNCHANGED <<models, files, keys, bound, evicted, inherited, request,
                       queue>>
        /\ Respond(Model \in Loaded) /\ thread.at = "inference"
    BY <1>7 DEF Infer, broker, ghosts
  <2>2. /\ thread'.at = "publish" /\ thread'.ok = (Model \in Loaded)
        /\ thread'.id = thread.id
    BY <2>1 DEF Respond, IInv, Shape, Place
  <2>3. Model \in keys
    BY <2>1 DEF CacheInv, AnswerIsTrue
  <2>4. AnswerIsTrue'
    BY <2>1, <2>2, <2>3 DEF AnswerIsTrue, Model, Loaded
  <2> QED
    BY <2>1, <2>4, CacheKept
<1> QED
  BY <1>2, <1>3, <1>4, <1>5, <1>6, <1>7 DEF Load

(* The key that is bound is that of a loaded model.                        *)
LEMMA BindCaches ==
  ASSUME IInv, CacheInv, Bind
  PROVE  CacheInv'
<1>1. /\ UNCHANGED <<models, files, evicted, inherited, request, queue>>
      /\ bound' = bound \cup {Model}
      /\ Model \in Models /\ Model \in Loaded
  BY ModelType DEF Bind, ghosts, Working, CacheInv, AnswerIsTrue
<1>2. /\ keys \subseteq keys' /\ keys' \subseteq keys \cup {Model}
      /\ AnswerIsTrue'
  <2>1. CASE open /\ up
    <3>1. Respond(TRUE) /\ keys' = keys \cup {Model}
      BY <2>1 DEF Bind
    <3>2. thread'.at = "publish" /\ thread'.id = thread.id
      BY <3>1, RespondMoves DEF IInv
    <3> QED
      BY <1>1, <3>1, <3>2 DEF AnswerIsTrue, Model, Loaded
  <2>2. CASE ~ (open /\ up)
    BY <2>2, RestPlaces DEF Bind, AnswerIsTrue
  <2> QED
    BY <2>1, <2>2
<1>3. CacheShape' /\ LoadedIsWhole'
  BY <1>1, <1>2 DEF CacheInv, CacheShape, LoadedIsWhole, Loaded
<1>4. RoutedOrEvicted' /\ BoundWasLoaded' /\ QueuedByKey'
  BY <1>1, <1>2 DEF CacheInv, RoutedOrEvicted, BoundWasLoaded, QueuedByKey, Loaded
<1> QED
  BY <1>2, <1>3, <1>4 DEF CacheInv

(* An inference request that is taken came by a key.                       *)
LEMMA TakeCaches ==
  ASSUME IInv, CacheInv, NEW k \in Kinds, Take(k)
  PROVE  CacheInv'
<1>1. /\ UNCHANGED <<models, files, keys, bound, evicted, inherited, request,
                     queue>>
      /\ thread' = [thread EXCEPT !.at = k, !.id = Head(queue[k])]
      /\ queue[k] # <<>>
  BY DEF Take, broker, ghosts
<1>2. thread'.at = k /\ thread'.id = Head(queue[k])
  BY <1>1 DEF IInv, Shape, Place
<1>3. Head(queue[k]) \in ToSet(queue[k])
  BY <1>1 DEF IInv, Shape, ToSet
<1>4. AnswerIsTrue'
  BY <1>1, <1>2, <1>3 DEF CacheInv, AnswerIsTrue, QueuedByKey, Model, Kinds
<1> QED
  BY <1>1, <1>4, CacheKept

(* Publishing leaves the cache alone.                                      *)
LEMMA PublishCaches ==
  ASSUME IInv, CacheInv,
         Published \/ NotPublished \/ GiveUp \/ FindClosed \/ ConnectToPublish
  PROVE  CacheInv'
<1>1. UNCHANGED <<models, files, keys, bound, evicted, inherited, request, queue>>
  BY DEF Published, NotPublished, GiveUp, FindClosed, ConnectToPublish, broker,
         ghosts
<1>2. /\ thread.at \in {"publish", "connect"}
      /\ thread'.at \in {"publish", "connect", "ack"}
      /\ thread'.id = thread.id /\ thread'.ok = thread.ok
  BY DEF Published, NotPublished, GiveUp, FindClosed, ConnectToPublish, Goto,
         IInv, Shape, Place
<1>3. AnswerIsTrue'
  BY <1>1, <1>2 DEF CacheInv, AnswerIsTrue, Model, Loaded
<1> QED
  BY <1>1, <1>3, CacheKept

(* An acknowledgement only shortens the queues.                            *)
LEMMA AckCaches ==
  ASSUME IInv, CacheInv, Ack
  PROVE  CacheInv'
<1>1. /\ UNCHANGED <<models, files, keys, bound, evicted, inherited, request>>
      /\ thread.at = "ack" /\ thread.channel \in Nat /\ Working
  BY DEF Ack, ghosts, IInv, Shape, Place, Working
<1>2. thread'.at \in {"idle", "dead"}
  BY <1>1, RestPlaces DEF Ack
<1>3. ToSet(queue'["inference"]) \subseteq ToSet(queue["inference"])
  <2>1. CASE CanAck
    <3> DEFINE k == request[thread.id].kind
    <3>1. k \in Kinds /\ queue[k] # <<>>
      BY <1>1, RequestType DEF IInv, InHand
    <3>2. queue \in [Kinds -> Seq(Nat)] /\ queue' = [queue EXCEPT ![k] = Tail(@)]
      BY <2>1 DEF Ack, IInv, Shape
    <3>3. ToSet(Tail(queue[k])) \subseteq ToSet(queue[k])
      BY <3>1, <3>2, TailType
    <3> QED
      BY <3>1, <3>2, <3>3 DEF Kinds
  <2>2. CASE ~ CanAck
    BY <2>2 DEF Ack
  <2> QED
    BY <2>1, <2>2
<1>4. AnswerIsTrue'
  BY <1>2 DEF AnswerIsTrue
<1>5. CacheShape' /\ LoadedIsWhole' /\ QueuedByKey'
  BY <1>1, <1>3 DEF CacheInv, CacheShape, LoadedIsWhole, QueuedByKey, Loaded
<1>6. RoutedOrEvicted' /\ BoundWasLoaded'
  BY <1>1 DEF CacheInv, RoutedOrEvicted, BoundWasLoaded, Loaded
<1> QED
  BY <1>4, <1>5, <1>6 DEF CacheInv

(* Reconnecting binds the keys of what this process has bound.             *)
LEMMA ReconnectCaches ==
  ASSUME IInv, CacheInv, Reconnect
  PROVE  CacheInv'
<1>1. /\ UNCHANGED <<models, files, bound, evicted, inherited, request, queue>>
      /\ keys' = keys \cup bound
      /\ thread' \in {thread, Idle(channel')}
      /\ thread # Dead => thread' = thread
      /\ channel' \in Nat
  BY DEF Reconnect, Connect, IInv, Shape
<1>2. AnswerIsTrue'
  <2>1. CASE thread = Dead
    BY <1>1, <2>1, RestPlaces DEF AnswerIsTrue
  <2>2. CASE thread # Dead
    BY <1>1, <2>2 DEF CacheInv, AnswerIsTrue, Model, Loaded
  <2> QED
    BY <2>1, <2>2
<1>3. CacheShape' /\ LoadedIsWhole' /\ QueuedByKey'
  BY <1>1 DEF CacheInv, CacheShape, LoadedIsWhole, QueuedByKey, Loaded
<1>4. RoutedOrEvicted' /\ BoundWasLoaded'
  BY <1>1 DEF CacheInv, RoutedOrEvicted, BoundWasLoaded, Loaded
<1> QED
  BY <1>2, <1>3, <1>4 DEF CacheInv

(* The other steps of the connection leave the cache alone.                *)
LEMMA ConnectionCaches ==
  ASSUME IInv, CacheInv, NoticeLoss \/ Watch \/ Drop
  PROVE  CacheInv'
<1>1. /\ UNCHANGED <<models, files, keys, bound, evicted, inherited, request,
                     queue>>
      /\ thread' = thread \/ thread' = Dead
  BY DEF NoticeLoss, Watch, Drop, broker, ghosts, process
<1>2. AnswerIsTrue'
  BY <1>1, RestPlaces DEF CacheInv, AnswerIsTrue, Model, Loaded
<1> QED
  BY <1>1, <1>2, CacheKept

(* The keys a new process finds are older than it.                         *)
LEMMA RestartCaches ==
  ASSUME IInv, CacheInv, NEW connected \in BOOLEAN,
         Crash(connected) \/ Stop(connected)
  PROVE  CacheInv'
<1>1. /\ Start(connected) /\ models' = <<>> /\ bound' = {}
      /\ inherited' = keys' /\ UNCHANGED <<files, request>>
  BY DEF Crash, Stop, Restart, Start
<1>2. Loaded' = {} /\ ToSet(<<>>) = {}
  BY <1>1 DEF Loaded, ToSet
<1>3. AnswerIsTrue'
  <2>1. ~ Working'
    BY <1>1, StartRests
  <2> QED
    BY <2>1 DEF Working, AnswerIsTrue
<1>4. \/ UNCHANGED <<keys, queue>>
      \/ keys' = {} /\ queue'["inference"] = <<>>
  BY DEF Crash, Stop, IInv, Shape, Kinds
<1>5. CacheShape' /\ RoutedOrEvicted' /\ BoundWasLoaded' /\ LoadedIsWhole'
  BY <1>1, <1>2, <1>4
  DEF CacheInv, CacheShape, RoutedOrEvicted, BoundWasLoaded, LoadedIsWhole
<1>6. QueuedByKey'
  BY <1>1, <1>2, <1>4 DEF CacheInv, QueuedByKey
<1> QED
  BY <1>3, <1>5, <1>6 DEF CacheInv

(* An inference request is queued only by a key.                           *)
LEMMA SendCaches ==
  ASSUME IInv, CacheInv, NEW k \in Kinds, NEW m \in Models, Send(k, m)
  PROVE  CacheInv' /\ \A i \in DOMAIN request : answers'[i] = answers[i]
<1> DEFINE new == [kind |-> k, model |-> m]
           n == Len(request) + 1
<1>1. /\ request' = Append(request, new) /\ answers' = Append(answers, {})
      /\ queue' = [queue EXCEPT ![k] = Append(@, Len(request'))]
      /\ UNCHANGED <<thread, models, files, keys, bound, evicted, inherited>>
      /\ k = "inference" => m \in keys
  BY DEF Send, process
<1>2. new \in [kind : Kinds, model : Models] /\ new.model = m
  OBVIOUS
<1> HIDE DEF new
<1>3. /\ Len(request') = n /\ n \in Nat
      /\ request'[n] = new /\ n \notin DOMAIN request
      /\ \A i \in DOMAIN request : request'[i] = request[i]
  BY <1>1, <1>2, AppendEffect DEF IInv, Shape
<1>4. \A i \in DOMAIN request : answers'[i] = answers[i]
  <2>1. answers \in Seq(SUBSET BOOLEAN) /\ DOMAIN answers = DOMAIN request
        /\ {} \in SUBSET BOOLEAN
    BY Lengths DEF IInv, Shape
  <2> QED
    BY <1>1, <2>1, AppendEffect
<1> HIDE DEF n
<1>5. \A i \in ToSet(queue'["inference"]) :
        i \in ToSet(queue["inference"]) \/ (i = n /\ k = "inference")
  <2>1. queue \in [Kinds -> Seq(Nat)] /\ queue[k] \in Seq(Nat)
    BY DEF IInv, Shape
  <2>2. ToSet(Append(queue[k], n)) = ToSet(queue[k]) \cup {n}
    BY <1>3, <2>1, AppendHas
  <2>3. queue' = [queue EXCEPT ![k] = Append(queue[k], n)]
    BY <1>1, <1>3
  <2> QED
    BY <2>1, <2>2, <2>3 DEF Kinds
<1>6. QueuedByKey'
  <2> SUFFICES ASSUME NEW i \in ToSet(queue'["inference"])
               PROVE  request'[i].model \in keys
    BY <1>1 DEF QueuedByKey
  <2>1. CASE i \in ToSet(queue["inference"])
    BY <1>3, <2>1 DEF IInv, KindsKept, CacheInv, QueuedByKey, Kinds
  <2>2. CASE i = n /\ k = "inference"
    BY <1>1, <1>2, <1>3, <2>2
  <2> QED
    BY <1>5, <2>1, <2>2
<1>7. AnswerIsTrue'
  <2>1. Working => thread.id \in DOMAIN request
    BY DEF IInv, InHand
  <2> QED
    BY <1>1, <1>3, <2>1 DEF CacheInv, AnswerIsTrue, Model, Loaded, Working
<1>8. CacheShape' /\ RoutedOrEvicted' /\ BoundWasLoaded' /\ LoadedIsWhole'
  BY <1>1
  DEF CacheInv, CacheShape, RoutedOrEvicted, BoundWasLoaded, LoadedIsWhole, Loaded
<1> QED
  BY <1>4, <1>6, <1>7, <1>8 DEF CacheInv

-----------------------------------------------------------------------------
(* At first nothing is loaded or bound.                                    *)
LEMMA CacheInit == Init => CacheInv
<1> SUFFICES ASSUME Init PROVE CacheInv
  OBVIOUS
<1>1. /\ models = <<>> /\ bound = {} /\ keys = {}
      /\ thread.at \in {"idle", "dead"}
      /\ queue["inference"] = <<>> /\ files = [m \in Models |-> "none"]
  BY RestPlaces DEF Init, Kinds
<1>2. Loaded = {} /\ ToSet(<<>>) = {}
  BY <1>1 DEF Loaded, ToSet
<1> QED
  BY <1>1, <1>2 DEF CacheInv, CacheShape, RoutedOrEvicted, BoundWasLoaded,
                    LoadedIsWhole, QueuedByKey, AnswerIsTrue

(* A new good answer is about a model that is loaded and bound.            *)
Promise ==
  \A i \in DOMAIN request :
    TRUE \in answers'[i] \ answers[i] =>
      LET m == request[i].model
      IN m \in ToSet(models') /\ files'[m] = "whole" /\ m \in keys'

(* Every step keeps the invariant of the cache and the promise.            *)
LEMMA CacheStep == IInv /\ CacheInv /\ [Next]_vars => CacheInv' /\ Promise
<1> SUFFICES ASSUME IInv, CacheInv, [Next]_vars PROVE CacheInv' /\ Promise
  OBVIOUS
<1>1. ASSUME NEW k \in Kinds, NEW m \in Models, Send(k, m)
      PROVE  CacheInv' /\ Promise
  BY <1>1, SendCaches DEF Promise
<1>2. CASE Published
  <2>1. CacheInv'
    BY <1>2, PublishCaches
  <2>2. Promise
    <3> SUFFICES ASSUME NEW i \in DOMAIN request, TRUE \in answers'[i],
                        TRUE \notin answers[i]
                 PROVE  /\ request[i].model \in ToSet(models')
                        /\ files'[request[i].model] = "whole"
                        /\ request[i].model \in keys'
      BY DEF Promise
    <3>1. /\ answers' = [answers EXCEPT ![thread.id] = @ \cup {thread.ok}]
          /\ UNCHANGED <<models, files, keys>> /\ thread.at = "publish"
      BY <1>2 DEF Published, broker
    <3>2. i \in DOMAIN answers
      BY Lengths DEF IInv
    <3>3. i = thread.id /\ thread.ok
      BY <3>1, <3>2 DEF IInv, Shape, Place
    <3>4. request[i].model \in Loaded /\ request[i].model \in keys
      BY <3>1, <3>3 DEF CacheInv, AnswerIsTrue, Model
    <3> QED
      BY <3>1, <3>4 DEF CacheInv, LoadedIsWhole, Loaded
  <2> QED
    BY <2>1, <2>2
<1>3. CASE Consume /\ ~ Published
  <2>1. CacheInv'
    BY <1>3, TakeCaches, LoadCaches, BindCaches, PublishCaches, AckCaches,
       ConnectionCaches
    DEF Consume
  <2>2. answers' = answers
    BY <1>3 DEF Consume, Take, Load, Refused, Downloaded, Cut, LoadFile, Bind,
                Infer, NotPublished, GiveUp, FindClosed, ConnectToPublish, Ack,
                NoticeLoss, ghosts
  <2> QED
    BY <2>1, <2>2 DEF Promise
<1>4. CASE Watch \/ Reconnect \/ Drop
  <2>1. answers' = answers
    BY <1>4 DEF Watch, Reconnect, Drop, ghosts
  <2> QED
    BY <1>4, <2>1, ReconnectCaches, ConnectionCaches DEF Promise
<1>5. ASSUME NEW connected \in BOOLEAN, Crash(connected) \/ Stop(connected)
      PROVE  CacheInv' /\ Promise
  <2>1. answers' = answers
    BY <1>5 DEF Crash, Stop, Restart
  <2> QED
    BY <1>5, <2>1, RestartCaches DEF Promise
<1>6. CASE UNCHANGED vars
  <2>1. AnswerIsTrue' /\ Promise
    BY <1>6 DEF CacheInv, AnswerIsTrue, Promise, Model, Loaded, vars, process,
                broker, ghosts
  <2> QED
    BY <1>6, <2>1, CacheKept DEF vars, process, broker, ghosts
<1> QED
  BY <1>1, <1>2, <1>3, <1>4, <1>5, <1>6 DEF Next

-----------------------------------------------------------------------------
(* However often connections are lost, publications given up and the       *)
(* process restarted, a request is answered, still in its queue, or has    *)
(* been deleted with it.                                                   *)
THEOREM NoRequestLost == Spec => []NothingLost
<1>1. IInv => NothingLost
  BY DEF IInv
<1> QED
  BY <1>1, InitKeeps, StepKeeps, PTL DEF Spec

(* The two invariants of the proofs.                                       *)
THEOREM Invariance == Spec => [](IInv /\ CacheInv)
  BY InitKeeps, StepKeeps, CacheInit, CacheStep, PTL DEF Spec

(* A key without its model is that of a model this process evicted, or is  *)
(* older than the process: the cache never gives up the model that has     *)
(* just been loaded, and reconnecting binds only what was loaded.          *)
THEOREM KeysExplained == Spec => []RoutedOrEvicted
<1>1. CacheInv => RoutedOrEvicted
  BY DEF CacheInv
<1> QED
  BY <1>1, Invariance, PTL

(* A model is confirmed, or answers, only while it is loaded from a whole  *)
(* file and its requests are routed here.                                  *)
THEOREM PromisesKept == Spec => KeepsPromises
<1>1. IInv /\ CacheInv /\ [Next]_vars => [Promise]_vars
  BY CacheStep
<1>2. Spec => [][Promise]_vars
  BY <1>1, Invariance, PTL DEF Spec
<1> QED
  BY <1>2 DEF KeepsPromises, Promise

-----------------------------------------------------------------------------
(* The types the other theorems do without, and the size of the cache: a   *)
(* model that is being downloaded has not been loaded, and a thread that   *)
(* connects has an attempt left.                                           *)
CacheOnce ==
  /\ IsInjective(models) /\ Len(models) <= MaxLoaded
  /\ thread.at = "download" => Model \notin Loaded

Attempts ==
  /\ thread.id <= Len(request) /\ thread.tries <= Retries
  /\ thread.at = "connect" => thread.tries < Retries

Others ==
  /\ watcher \in {"watch", "connect"} /\ consumed \in {{}, Kinds}
  /\ deleted \subseteq DOMAIN request
  /\ evicted \subseteq Models /\ inherited \subseteq Models
  /\ torn \in BOOLEAN

RestInv == CacheOnce /\ Attempts /\ Others

(* The cache holds a model once, and never too many.                       *)
LEMMA EvictBounds ==
  ASSUME NEW s \in Seq(Models), NEW m \in Models \ ToSet(s),
         IsInjective(s), Len(s) <= MaxLoaded
  PROVE  /\ IsInjective(Evict(Append(s, m)))
         /\ Len(Evict(Append(s, m))) <= MaxLoaded
<1> DEFINE t == Append(s, m)
<1>1. /\ t \in Seq(Models) /\ Len(t) = Len(s) + 1 /\ Len(s) \in Nat
      /\ DOMAIN t = DOMAIN s \cup {Len(s) + 1}
      /\ t[Len(s) + 1] = m /\ \A i \in DOMAIN s : t[i] = s[i]
  BY AppendEffect
<1>2. \A i \in DOMAIN s : s[i] # m
  BY DEF ToSet
<1>3. \A i, j \in DOMAIN t : t[i] = t[j] => i = j
  BY <1>1, <1>2 DEF IsInjective
<1> HIDE DEF t
<1>4. CASE Len(t) > MaxLoaded
  <2>1. /\ Evict(t) = Tail(t) /\ t # <<>>
    BY <1>1, <1>4 DEF Evict
  <2>2. /\ Len(Tail(t)) = Len(t) - 1 /\ DOMAIN Tail(t) = 1 .. (Len(t) - 1)
        /\ DOMAIN t = 1 .. Len(t)
        /\ \A i \in 1 .. (Len(t) - 1) : Tail(t)[i] = t[i + 1]
    BY <1>1, <2>1
  <2>3. ASSUME NEW i \in 1 .. (Len(t) - 1), NEW j \in 1 .. (Len(t) - 1),
               t[i + 1] = t[j + 1]
        PROVE  i = j
    <3>1. i + 1 \in DOMAIN t /\ j + 1 \in DOMAIN t
      BY <1>1, <2>2
    <3>2. i + 1 = j + 1
      BY <1>3, <2>3, <3>1
    <3> QED
      BY <3>2
  <2> QED
    BY <1>1, <2>1, <2>2, <2>3, AIServerAssumption DEF IsInjective, t
<1>5. CASE ~ (Len(t) > MaxLoaded)
  <2>1. Evict(t) = t
    BY <1>5 DEF Evict
  <2> QED
    BY <1>1, <1>3, <1>5, <2>1, AIServerAssumption DEF IsInjective, t
<1> QED
  BY <1>4, <1>5

(* Loading a file puts a model at the end of the cache and evicts from its *)
(* front: the cache has no model twice.                                    *)
LEMMA LoadFileBounds ==
  ASSUME IInv, CacheInv, RestInv, Working, Model \notin Loaded, LoadFile(Model)
  PROVE  RestInv'
<1>1. /\ UNCHANGED <<watcher, consumed, request, deleted, inherited, torn>>
      /\ Model \in Models /\ models \in Seq(Models)
  BY ModelType DEF LoadFile, broker, CacheInv, CacheShape
<1>2. CASE files'[Model] = "whole"
  <2> DEFINE new == Evict(Append(models, Model))
  <2>1. /\ models' = new /\ Goto("bind")
        /\ evicted' = (evicted \ {Model}) \cup (Loaded \ ToSet(new))
    BY <1>2 DEF LoadFile
  <2>2. IsInjective(new) /\ Len(new) <= MaxLoaded
    BY <1>1, EvictBounds DEF RestInv, CacheOnce, Loaded
  <2> HIDE DEF new
  <2>3. /\ thread'.at = "bind" /\ thread'.id = thread.id
        /\ thread'.tries = thread.tries
    BY <2>1, GotoMoves DEF IInv, At
  <2>4. evicted' \subseteq Models
    BY <2>1, LoadedAreModels DEF RestInv, Others
  <2> QED
    BY <1>1, <2>1, <2>2, <2>3, <2>4 DEF RestInv, CacheOnce, Attempts, Others
<1>3. CASE files'[Model] # "whole"
  <2>1. Respond(FALSE) /\ models' = models /\ evicted' = evicted
    BY <1>3 DEF LoadFile
  <2>2. thread'.at = "publish" /\ thread'.id = thread.id /\ thread'.tries = 0
    BY <2>1, RespondMoves DEF IInv
  <2> QED
    BY <1>1, <2>1, <2>2 DEF RestInv, CacheOnce, Attempts, Others, Retries
<1> QED
  BY <1>2, <1>3

(* The cache, the requests and the rest stay; the thread moves on.         *)
LEMMA RestKept ==
  ASSUME RestInv, UNCHANGED <<models, request, deleted, evicted, inherited>>,
         thread'.at # "download", Attempts',
         watcher' \in {"watch", "connect"}, consumed' \in {{}, Kinds},
         torn' \in BOOLEAN
  PROVE  RestInv'
BY DEF RestInv, CacheOnce, Others

(* A handler that loads, downloads or infers.                              *)
LEMMA LoadBounds ==
  ASSUME IInv, CacheInv, RestInv, Load \/ Refused \/ Downloaded \/ Cut \/ Infer
  PROVE  RestInv'
<1>1. Working
  BY DEF Working, Load, Refused, Downloaded, Cut, Infer
<1>2. CASE Downloaded
  BY <1>1, <1>2, LoadFileBounds DEF Downloaded, RestInv, CacheOnce
<1>3. CASE Load /\ Model \notin Loaded /\ files[Model] # "none"
  BY <1>1, <1>3, LoadFileBounds DEF Load
<1>4. CASE Load /\ Model \notin Loaded /\ files[Model] = "none"
  <2>1. /\ Goto("download")
        /\ UNCHANGED <<models, watcher, consumed, request, deleted, evicted,
                       inherited, torn>>
    BY <1>4 DEF Load, broker, ghosts
  <2>2. /\ thread'.at = "download" /\ thread'.id = thread.id
        /\ thread'.tries = thread.tries
    BY <2>1, GotoMoves DEF IInv, At
  <2>3. Model' = Model
    BY <2>1, <2>2 DEF Model
  <2> QED
    BY <1>4, <2>1, <2>2, <2>3
       DEF RestInv, CacheOnce, Attempts, Others, Loaded
<1>5. CASE Load /\ Model \in Loaded
  <2>1. /\ Goto("bind")
        /\ UNCHANGED <<models, watcher, consumed, request, deleted, evicted,
                       inherited, torn>>
    BY <1>5 DEF Load, broker, ghosts
  <2>2. /\ thread'.at = "bind" /\ thread'.id = thread.id
        /\ thread'.tries = thread.tries
    BY <2>1, GotoMoves DEF IInv, At
  <2>3. Attempts'
    BY <2>1, <2>2 DEF RestInv, Attempts
  <2> QED
    BY <2>1, <2>2, <2>3, RestKept DEF RestInv, Others
<1>6. CASE Refused \/ Cut \/ Infer
  <2>1. /\ \E ok \in BOOLEAN : Respond(ok)
        /\ UNCHANGED <<models, watcher, consumed, request, deleted, evicted,
                       inherited, torn>>
    <3>1. Respond(FALSE) \/ Respond(Model \in Loaded)
      BY <1>6 DEF Refused, Cut, Infer
    <3>2. \E ok \in BOOLEAN : Respond(ok)
      <4>1. (Model \in Loaded) \in BOOLEAN
        OBVIOUS
      <4> QED
        BY <3>1, <4>1, Zenon
    <3> QED
      BY <1>6, <3>2 DEF Refused, Cut, Infer, broker, ghosts
  <2>2. thread'.at = "publish" /\ thread'.id = thread.id /\ thread'.tries = 0
    BY <2>1, RespondMoves DEF IInv
  <2>3. Attempts'
    BY <2>1, <2>2 DEF RestInv, Attempts, Retries
  <2> QED
    BY <2>1, <2>2, <2>3, RestKept DEF RestInv, Others
<1> QED
  BY <1>2, <1>3, <1>4, <1>5, <1>6 DEF Load

(* A thread that rests has no request.                                     *)
LEMMA RestsWithout ==
  ASSUME Shape
  PROVE  /\ 0 <= Len(request) /\ Dead.id = 0 /\ Dead.tries = 0
         /\ Dead.at = "dead"
         /\ \A c \in Nat : /\ Idle(c).id = 0 /\ Idle(c).tries = 0
                           /\ Idle(c).at = "idle"
BY DEF Shape, Dead, Idle

(* The rest of the handlers: binding, publishing, acknowledging.           *)
LEMMA ServeBounds ==
  ASSUME IInv, CacheInv, RestInv,
         \/ \E k \in Kinds : Take(k)
         \/ Bind \/ Published \/ NotPublished \/ GiveUp \/ FindClosed
         \/ ConnectToPublish \/ Ack \/ NoticeLoss
  PROVE  RestInv'
<1>1. /\ UNCHANGED <<models, watcher, request, deleted, evicted, inherited>>
      /\ consumed' \in {consumed, {}} /\ torn' \in {torn, TRUE}
  BY DEF Take, Bind, Published, NotPublished, GiveUp, FindClosed, Connect,
         ConnectToPublish, Ack, NoticeLoss, broker, ghosts
<1>2. /\ watcher' \in {"watch", "connect"} /\ consumed' \in {{}, Kinds}
      /\ torn' \in BOOLEAN
  BY <1>1 DEF RestInv, Others
<1>3. /\ thread \in Place /\ thread.tries \in Nat /\ Retries = 3
      /\ Len(request) \in Nat /\ Len(request') = Len(request)
  BY <1>1 DEF IInv, Shape, Place, Retries
<1>4. Attempts' /\ thread'.at # "download"
  <2>1. ASSUME NEW k \in Kinds, Take(k) PROVE Attempts' /\ thread'.at # "download"
    <3>1. /\ queue[k] \in Seq(Nat) /\ queue[k] # <<>>
          /\ thread' = [thread EXCEPT !.at = k, !.id = Head(queue[k])]
      BY <2>1 DEF Take, IInv, Shape
    <3>2. Head(queue[k]) \in ToSet(queue[k])
      BY <3>1 DEF ToSet
    <3>3. Head(queue[k]) \in DOMAIN request
      BY <3>2 DEF IInv, KindsKept
    <3>4. Head(queue[k]) <= Len(request)
      BY <1>3, <3>3 DEF IInv, Shape
    <3>5. /\ thread'.at = k /\ thread'.id = Head(queue[k])
          /\ thread'.tries = thread.tries
      BY <1>3, <3>1 DEF Place
    <3> QED
      BY <1>3, <3>4, <3>5 DEF RestInv, Attempts, Kinds
  <2>2. CASE \E at \in {"ack", "publish"} : Goto(at)
    <3>1. /\ thread'.at \in {"ack", "publish"} /\ thread'.id = thread.id
          /\ thread'.tries = thread.tries
      BY <2>2, GotoMoves DEF IInv, At
    <3> QED
      BY <1>3, <3>1 DEF RestInv, Attempts
  <2>3. CASE FindClosed
    <3>1. Goto("connect") /\ thread.tries < Retries
      BY <2>3 DEF FindClosed
    <3>2. /\ thread'.at = "connect" /\ thread'.id = thread.id
          /\ thread'.tries = thread.tries
      BY <3>1, GotoMoves DEF IInv, At
    <3> QED
      BY <1>3, <3>1, <3>2 DEF RestInv, Attempts
  <2>4. CASE thread' = Dead \/ thread' = Idle(thread.channel)
    BY <1>3, <2>4, RestsWithout DEF IInv, Place, Attempts
  <2>5. CASE /\ thread' = [thread EXCEPT !.tries = @ + 1]
             /\ thread.at = "publish" /\ thread.tries < Retries
    <3>1. /\ thread'.at = "publish" /\ thread'.id = thread.id
          /\ thread'.tries = thread.tries + 1
      BY <1>3, <2>5 DEF Place
    <3> QED
      BY <1>3, <2>5, <3>1 DEF RestInv, Attempts
  <2>6. CASE /\ thread' = [thread EXCEPT !.at = "publish", !.tries = @ + 1]
             /\ thread.at = "connect"
    <3>1. /\ thread'.at = "publish" /\ thread'.id = thread.id
          /\ thread'.tries = thread.tries + 1
      BY <1>3, <2>6 DEF Place
    <3> QED
      BY <1>3, <2>6, <3>1 DEF RestInv, Attempts
  <2>7. CASE Respond(TRUE)
    <3>1. thread'.at = "publish" /\ thread'.id = thread.id /\ thread'.tries = 0
      BY <2>7, RespondMoves DEF IInv
    <3> QED
      BY <1>3, <3>1 DEF RestInv, Attempts
  <2> QED
    BY <2>1, <2>2, <2>3, <2>4, <2>5, <2>6, <2>7
       DEF Bind, Published, NotPublished, GiveUp, ConnectToPublish, Ack,
           NoticeLoss
<1> QED
  BY <1>1, <1>2, <1>4, RestKept

(* The reconnect loop and a lost connection.                               *)
LEMMA OutsideBounds ==
  ASSUME IInv, CacheInv, RestInv, Watch \/ Reconnect \/ Drop
  PROVE  RestInv'
<1>1. /\ UNCHANGED <<models, request, deleted, evicted, inherited>>
      /\ watcher' \in {watcher, "watch", "connect"}
      /\ consumed' \in {consumed, {}, Kinds}
  BY DEF Watch, Reconnect, Drop, Connect, Callbacks, broker, ghosts, process
<1>2. torn' \in BOOLEAN
  <2>1. torn \in BOOLEAN
    BY DEF RestInv, Others
  <2>2. CASE torn' = torn
    BY <2>1, <2>2, Zenon
  <2>3. CASE torn' = (torn \/ thread # Dead)
    BY <2>3, Zenon
  <2> QED
    BY <2>2, <2>3 DEF Watch, Reconnect, Drop, ghosts
<1>3. /\ watcher' \in {"watch", "connect"} /\ consumed' \in {{}, Kinds}
  BY <1>1 DEF RestInv, Others
<1>4. CASE thread' = thread
  BY <1>1, <1>2, <1>3, <1>4
     DEF RestInv, CacheOnce, Attempts, Others, Model, Loaded
<1>5. CASE \E c \in Nat : thread' = Idle(c)
  <2>1. Attempts' /\ thread'.at # "download"
    BY <1>1, <1>5, RestsWithout DEF IInv, Attempts, Retries
  <2> QED
    BY <1>1, <1>2, <1>3, <2>1, RestKept
<1>6. channel' \in Nat \/ thread' = thread
  BY DEF Watch, Reconnect, Drop, Connect, process, IInv, Shape
<1> QED
  BY <1>4, <1>5, <1>6 DEF Watch, Reconnect, Drop, process

(* A request by the game server.                                           *)
LEMMA SendBounds ==
  ASSUME IInv, CacheInv, RestInv, NEW k \in Kinds, NEW m \in Models, Send(k, m)
  PROVE  RestInv'
<1> DEFINE new == [kind |-> k, model |-> m]
<1>1. /\ request' = Append(request, new)
      /\ UNCHANGED <<models, thread, watcher, consumed, deleted, evicted,
                     inherited, torn>>
  BY DEF Send, process
<1>2. request \in Seq([kind : Kinds, model : Models])
      /\ new \in [kind : Kinds, model : Models]
  BY DEF IInv, Shape
<1> HIDE DEF new
<1>3. /\ Len(request') = Len(request) + 1 /\ Len(request) \in Nat
      /\ DOMAIN request \subseteq DOMAIN request'
      /\ \A i \in DOMAIN request : request'[i] = request[i]
  BY <1>1, <1>2, AppendEffect
<1>4. Working => Model' = Model
  BY <1>1, <1>3 DEF IInv, InHand, Model
<1>5. CacheOnce'
  BY <1>1, <1>4 DEF RestInv, CacheOnce, Working, Loaded
<1>6. Attempts'
  BY <1>1, <1>3 DEF RestInv, Attempts, IInv, Shape, Place
<1>7. Others'
  BY <1>1, <1>3 DEF RestInv, Others
<1> QED
  BY <1>5, <1>6, <1>7 DEF RestInv

(* A restart begins with an empty cache.                                   *)
LEMMA RestartBounds ==
  ASSUME IInv, CacheInv, RestInv, NEW connected \in BOOLEAN,
         Crash(connected) \/ Stop(connected)
  PROVE  RestInv'
<1>1. /\ models' = <<>> /\ watcher' = "watch"
      /\ consumed' \in {{}, Kinds} /\ request' = request
      /\ evicted' = {} /\ inherited' = keys' /\ torn' = FALSE
      /\ thread' \in {Idle(1), Dead}
  BY DEF Crash, Stop, Restart, Start
<1>2. keys' \in {keys, {}}
  BY DEF Crash, Stop
<1>3. deleted' \in {deleted, deleted \cup ToSet(queue["inference"])}
  BY DEF Crash, Stop
<1>4. ToSet(queue["inference"]) \subseteq DOMAIN request
  BY DEF IInv, KindsKept, Kinds
<1>5. Others'
  BY <1>1, <1>2, <1>3, <1>4 DEF RestInv, Others, CacheInv, CacheShape
<1>6. Attempts' /\ thread'.at # "download"
  BY <1>1, RestsWithout DEF IInv, Attempts, Retries
<1>7. CacheOnce'
  BY <1>1, <1>6, AIServerAssumption DEF CacheOnce, IsInjective
<1> QED
  BY <1>5, <1>6, <1>7 DEF RestInv

(* The start of the first process.                                         *)
LEMMA RestInit == Init => RestInv
<1> SUFFICES ASSUME Init PROVE RestInv
  OBVIOUS
<1>1. Shape
  BY InitKeeps DEF IInv
<1>2. /\ thread.id = 0 /\ thread.tries = 0
      /\ thread.at \in {"idle", "dead"}
  BY <1>1, RestsWithout DEF Init
<1>3. Attempts
  BY <1>1, <1>2, RestsWithout DEF Attempts, Retries
<1>4. CacheOnce
  BY <1>2, AIServerAssumption DEF Init, CacheOnce, IsInjective
<1> QED
  BY <1>3, <1>4 DEF Init, RestInv, Others

(* Every step keeps the cache and the attempts within bounds.              *)
LEMMA RestStep == IInv /\ CacheInv /\ RestInv /\ [Next]_vars => RestInv'
<1> SUFFICES ASSUME IInv, CacheInv, RestInv, [Next]_vars PROVE RestInv'
  OBVIOUS
<1>1. CASE UNCHANGED vars
  BY <1>1 DEF vars, process, broker, ghosts, RestInv, CacheOnce, Attempts,
              Others, Model, Loaded
<1> QED
  BY <1>1, LoadBounds, ServeBounds, OutsideBounds, SendBounds, RestartBounds
     DEF Next, Consume

(* Only a start sets the callbacks or leaves them unset.                    *)
LEMMA StoredStep == stored \in BOOLEAN /\ [Next]_vars => (stored \in BOOLEAN)'
<1> SUFFICES ASSUME stored \in BOOLEAN, [Next]_vars PROVE stored' \in BOOLEAN
  OBVIOUS
<1>1. CASE UNCHANGED vars
  BY <1>1 DEF vars, process
<1>2. ASSUME NEW connected \in BOOLEAN, Crash(connected) \/ Stop(connected)
      PROVE  stored' \in BOOLEAN
  BY <1>2 DEF Crash, Stop, Restart, Start
<1>3. ASSUME NEW k \in Kinds, NEW m \in Models, Send(k, m)
      PROVE  stored' = stored
  BY <1>3 DEF Send, process
<1>4. CASE Consume
  <2>1. CASE (\E k \in Kinds : Take(k)) \/ Load \/ Refused \/ Downloaded \/ Cut
    BY <2>1 DEF Take, Load, LoadFile, Refused, Downloaded, Cut
  <2>2. CASE Bind \/ Infer \/ Published \/ NotPublished \/ GiveUp
    BY <2>2 DEF Bind, Infer, Published, NotPublished, GiveUp
  <2>3. CASE FindClosed \/ ConnectToPublish \/ Ack \/ NoticeLoss
    BY <2>3 DEF FindClosed, ConnectToPublish, Ack, NoticeLoss
  <2> QED
    BY <1>4, <2>1, <2>2, <2>3 DEF Consume
<1>5. CASE Watch \/ Reconnect \/ Drop
  BY <1>5 DEF Watch, Reconnect, Drop, process
<1> QED
  BY <1>1, <1>2, <1>3, <1>4, <1>5 DEF Next

(* The server's state stays well formed, a model is held once and the      *)
(* cache within its bound, and a publication is tried three times at most. *)
THEOREM TypeCorrect == Spec => []TypeOK
<1>1. Spec => []RestInv
  BY Invariance, RestInit, RestStep, PTL DEF Spec
<1>2. Spec => [](stored \in BOOLEAN)
  <2>1. Init => stored \in BOOLEAN
    BY DEF Init
  <2> QED
    BY <2>1, StoredStep, PTL DEF Spec
<1>3. IInv /\ CacheInv /\ RestInv /\ stored \in BOOLEAN => TypeOK
  <2> SUFFICES ASSUME IInv, CacheInv, RestInv, stored \in BOOLEAN PROVE TypeOK
    OBVIOUS
  <2>1. /\ thread \in Place /\ Len(request) \in Nat /\ Retries = 3
        /\ thread.id \in Nat /\ thread.tries \in Nat
    BY DEF IInv, Shape, Place, Retries
  <2>2. thread.id \in 0 .. Len(request) /\ thread.tries \in 0 .. Retries
    BY <2>1 DEF RestInv, Attempts
  <2>3. thread.at \in At
    BY <2>1 DEF Place
  <2>4. queue \in [Kinds -> Seq(DOMAIN request)]
    <3>1. ASSUME NEW k \in Kinds PROVE queue[k] \in Seq(DOMAIN request)
      <4>1. queue[k] \in Seq(Nat)
        BY DEF IInv, Shape
      <4>2. \A i \in DOMAIN queue[k] : queue[k][i] \in DOMAIN request
        BY DEF IInv, KindsKept, ToSet
      <4> QED
        BY <4>1, <4>2
    <3>2. queue \in [Kinds -> Seq(Nat)]
      BY DEF IInv, Shape
    <3> QED
      BY <3>1, <3>2
  <2>5. answers \in [DOMAIN request -> SUBSET BOOLEAN]
    <3>1. answers \in Seq(SUBSET BOOLEAN)
      BY DEF IInv, Shape
    <3>2. DOMAIN answers = DOMAIN request
      BY Lengths DEF IInv
    <3>3. \A s \in Seq(SUBSET BOOLEAN) : s \in [DOMAIN s -> SUBSET BOOLEAN]
      OBVIOUS
    <3> QED
      BY <3>1, <3>2, <3>3
  <2> QED
    BY <2>2, <2>3, <2>4, <2>5
       DEF TypeOK, IInv, Shape, CacheInv, CacheShape, RestInv, CacheOnce, Others,
           At
<1> QED
  BY <1>1, <1>2, <1>3, Invariance, PTL
=============================================================================
