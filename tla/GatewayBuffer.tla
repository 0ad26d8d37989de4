--------------------------- MODULE GatewayBuffer ---------------------------
(***************************************************************************)
(* How a client reads the progress of its game through the gateway         *)
(* (mq_api_gateway/rabbitmq_client.py).                                    *)
(*                                                                         *)
(* There is one progress queue per game and player.  A poll starts a       *)
(* consumer of its queue if it knows of none; from then on every message   *)
(* is moved to a buffer in memory and acknowledged, and polls drain the    *)
(* buffer.  A background task stops consumers nobody has used for a while. *)
(*                                                                         *)
(* Polls, callbacks and the background task are coroutines of one event    *)
(* loop: an action is what runs between two awaits.  The HTTP thread of a  *)
(* poll gives up after two seconds, its coroutine does not.                *)
(***************************************************************************)
EXTENDS Naturals, Sequences, FiniteSets

CONSTANTS
  Queues,        \* the progress queues, one per game and player
  Polls,         \* HTTP threads that may poll at the same time
  Limit,         \* messages a poll asks for
  MaxMessages,   \* bound: messages published to a queue
  MaxConsumers,  \* bound: consumers of a queue at the broker
  MaxFaults      \* bound: late answers, lost connections and restarts

ASSUME GBAssumption ==
  /\ Queues # {}
  /\ Limit \in Nat \ {0} /\ MaxConsumers \in Nat \ {0}
  /\ MaxMessages \in Nat /\ MaxFaults \in Nat

VARIABLES
  sent,       \* queue -> number of messages published to it
  queue,      \* queue -> messages at the broker
  unacked,    \* queue -> messages delivered and not acknowledged
  consumers,  \* queue -> consumers at the broker
  tagged,     \* queue -> it has an entry in _consumers
  buffer,     \* queue -> _buffers
  lastUsed,   \* queue -> its entry in _last_used: none, recent or too old
  poll,       \* poll -> [q, at, late], the coroutine of the poll
  worker,     \* [at, q, rest], the background task
  faults,     \* late answers, lost connections and restarts so far
  answered,   \* history: queue -> what the client was given, in order
  exposed,    \* history: queue -> messages delivered after it was found idle
  unread,     \* history: queue -> messages drained for a late poll
  returned,   \* history: queue -> messages the broker delivers again
  orphans     \* history: queue -> it may have a consumer without a tag

broker == <<sent, queue, unacked, consumers>>
gateway == <<tagged, buffer, lastUsed, poll, worker>>
history == <<answered, exposed, unread, returned, orphans>>
vars == <<broker, gateway, faults, history>>

Message == 1..MaxMessages
Elements(s) == {s[i] : i \in DOMAIN s}

Off == [at |-> "off", q |-> CHOOSE q \in Queues : TRUE, rest |-> {}]
Idle(q) == [q |-> q, at |-> "idle", late |-> FALSE]

Init ==
  /\ sent = [q \in Queues |-> 0]
  /\ queue = [q \in Queues |-> <<>>] /\ unacked = [q \in Queues |-> <<>>]
  /\ consumers = [q \in Queues |-> 0]
  /\ tagged = [q \in Queues |-> FALSE] /\ buffer = [q \in Queues |-> <<>>]
  /\ lastUsed = [q \in Queues |-> "none"]
  /\ poll = [p \in Polls |-> Idle(Off.q)] /\ worker = Off
  /\ faults = 0
  /\ answered = [q \in Queues |-> <<>>]
  /\ exposed = [q \in Queues |-> {}] /\ unread = [q \in Queues |-> {}]
  /\ returned = [q \in Queues |-> {}]
  /\ orphans = [q \in Queues |-> FALSE]

-----------------------------------------------------------------------------
(* The game server publishes to the exchange the queue is bound to.        *)
Publish(q) ==
  /\ sent[q] < MaxMessages
  /\ sent' = [sent EXCEPT ![q] = @ + 1]
  /\ queue' = [queue EXCEPT ![q] = Append(@, sent'[q])]
  /\ UNCHANGED <<unacked, consumers, gateway, faults, history>>

FoundIdle(q) == worker.at = "stopping" /\ q \in worker.rest \cup {worker.q}

(* _consumer_callback; a consumer has one message at a time (prefetch 1).  *)
Deliver(q) ==
  /\ queue[q] # <<>> /\ Len(unacked[q]) < consumers[q]
  /\ queue' = [queue EXCEPT ![q] = Tail(@)]
  /\ unacked' = [unacked EXCEPT ![q] = Append(@, Head(queue[q]))]
  /\ buffer' = [buffer EXCEPT ![q] = Append(@, Head(queue[q]))]
  /\ exposed' = [exposed EXCEPT ![q] =
                   IF FoundIdle(q) THEN @ \cup {Head(queue[q])} ELSE @]
  /\ UNCHANGED <<sent, consumers, tagged, lastUsed, poll, worker, faults,
                 answered, unread, returned, orphans>>

Ack(q) ==
  /\ unacked[q] # <<>>
  /\ unacked' = [unacked EXCEPT ![q] = Tail(@)]
  /\ UNCHANGED <<sent, queue, consumers, gateway, faults, history>>

-----------------------------------------------------------------------------
(* Mutant of Kept: what is handed out stays in the buffer.                 *)
Bug_NotRemoved(buf) == buf

(* What a drain hands out, and what it leaves in the buffer.               *)
Out(buf) == SubSeq(buf, 1, IF Len(buf) < Limit THEN Len(buf) ELSE Limit)
Kept(buf) == SubSeq(buf, Len(Out(buf)) + 1, Len(buf))

(* The end of every poll: the queue was used now, drain its buffer.  The   *)
(* answer reaches the client if its HTTP thread still waits.               *)
Drain(p) ==
  LET q == poll[p].q IN
  /\ lastUsed' = [lastUsed EXCEPT ![q] = "recent"]
  /\ buffer' = [buffer EXCEPT ![q] = Kept(@)]
  /\ IF poll[p].late
     THEN /\ unread' = [unread EXCEPT ![q] = @ \cup Elements(Out(buffer[q]))]
          /\ UNCHANGED answered
     ELSE /\ answered' = [answered EXCEPT ![q] = @ \o Out(buffer[q])]
          /\ UNCHANGED unread
  /\ poll' = [poll EXCEPT ![p] = Idle(q)]

(* get_game_progress_messages: the coroutine is handed to the event loop.  *)
Call(p, q) ==
  /\ poll[p].at = "idle"
  /\ poll' = [poll EXCEPT ![p] = [q |-> q, at |-> "called", late |-> FALSE]]
  /\ UNCHANGED <<broker, tagged, buffer, lastUsed, worker, faults, history>>

(* The HTTP thread answers with an empty list.                             *)
TimeOut(p) ==
  /\ poll[p].at # "idle" /\ ~poll[p].late
  /\ faults < MaxFaults
  /\ faults' = faults + 1
  /\ poll' = [poll EXCEPT ![p].late = TRUE]
  /\ UNCHANGED <<broker, tagged, buffer, lastUsed, worker, history>>

DrainBuffer(p) ==
  /\ poll[p].at = "called" /\ tagged[poll[p].q]
  /\ Drain(p)
  /\ UNCHANGED <<broker, tagged, worker, faults, exposed, returned, orphans>>

Starting(q) == {p \in Polls : poll[p].q = q
                              /\ poll[p].at \in {"declaring", "consuming"}}
Stopping(q) == worker.at = "stopping" /\ worker.q = q

(* start_consumer_for_queue; _consumers is looked up before its awaits.    *)
StartConsumer(p) ==
  LET q == poll[p].q IN
  /\ poll[p].at = "called" /\ ~tagged[q]
  /\ consumers[q] + Cardinality(Starting(q)) < MaxConsumers
  /\ poll' = [poll EXCEPT ![p].at = "declaring"]
  /\ orphans' = [orphans EXCEPT ![q] = @ \/ Starting(q) # {} \/ Stopping(q)]
  /\ UNCHANGED <<broker, tagged, buffer, lastUsed, worker, faults, answered,
                 exposed, unread, returned>>

Consume(p) ==
  /\ poll[p].at = "declaring"
  /\ consumers' = [consumers EXCEPT ![poll[p].q] = @ + 1]
  /\ poll' = [poll EXCEPT ![p].at = "consuming"]
  /\ UNCHANGED <<sent, queue, unacked, tagged, buffer, lastUsed, worker,
                 faults, history>>

(* Mutant of ConsumerStarted: the background task is not started.          *)
Bug_NoWorker(p) ==
  /\ poll[p].at = "consuming"
  /\ tagged' = [tagged EXCEPT ![poll[p].q] = TRUE]
  /\ Drain(p)
  /\ UNCHANGED <<broker, worker, faults, exposed, returned, orphans>>

(* The new tag replaces the one another start may have left.               *)
ConsumerStarted(p) ==
  /\ poll[p].at = "consuming"
  /\ tagged' = [tagged EXCEPT ![poll[p].q] = TRUE]
  /\ worker' = IF worker.at = "off" THEN [worker EXCEPT !.at = "asleep"]
               ELSE worker
  /\ Drain(p)
  /\ UNCHANGED <<broker, faults, exposed, returned, orphans>>

(* start_consumer_for_queue has returned False, which is not looked at.    *)
StartFailed(p) ==
  /\ poll[p].at = "failed"
  /\ Drain(p)
  /\ UNCHANGED <<broker, tagged, worker, faults, exposed, returned, orphans>>

-----------------------------------------------------------------------------
(* GAME_PROGRESS_CONSUMER_IDLE_TIMEOUT passes without a poll.              *)
Age(q) ==
  /\ lastUsed[q] = "recent"
  /\ lastUsed' = [lastUsed EXCEPT ![q] = "old"]
  /\ UNCHANGED <<broker, tagged, buffer, poll, worker, faults, history>>

(* Mutant of StopNext: queues without a consumer are stopped as well.      *)
Bug_StopUnchecked(found) ==
  \/ /\ found = {}
     /\ worker' = [worker EXCEPT !.at = "asleep", !.rest = {}]
     /\ UNCHANGED tagged
  \/ \E q \in found :
       /\ worker' = [at |-> "stopping", q |-> q, rest |-> found \ {q}]
       /\ tagged' = [tagged EXCEPT ![q] = FALSE]

(* Mutant of StopNext: the tag stays in _consumers.                        *)
Bug_TagKept(found) ==
  LET live == {q \in found : tagged[q]} IN
  /\ \/ /\ live = {}
        /\ worker' = [worker EXCEPT !.at = "asleep", !.rest = {}]
     \/ \E q \in live :
          worker' = [at |-> "stopping", q |-> q, rest |-> found \ {q}]
  /\ UNCHANGED tagged

(* stop_consumer_for_queue for the queues found idle, one after the other: *)
(* it takes the tag out of _consumers, then awaits the cancellation.       *)
StopNext(found) ==
  LET live == {q \in found : tagged[q]} IN
  \/ /\ live = {}
     /\ worker' = [worker EXCEPT !.at = "asleep", !.rest = {}]
     /\ UNCHANGED tagged
  \/ \E q \in live :
       /\ worker' = [at |-> "stopping", q |-> q, rest |-> found \ {q}]
       /\ tagged' = [tagged EXCEPT ![q] = FALSE]

(* Mutant of IdleQueues: the buffer is not looked at.                      *)
Bug_OldQueues == {q \in Queues : lastUsed[q] = "old"}

IdleQueues == {q \in Queues : lastUsed[q] = "old" /\ buffer[q] = <<>>}

(* _idle_consumer_worker wakes up.                                         *)
WakeWorker ==
  /\ worker.at = "asleep"
  /\ IF \A q \in Queues : ~tagged[q]
     THEN worker' = [worker EXCEPT !.at = "off"] /\ UNCHANGED tagged
     ELSE StopNext(IdleQueues)
  /\ UNCHANGED <<broker, buffer, lastUsed, poll, faults, history>>

(* The consumer is cancelled; the buffer and the time of use go with it.   *)
StopDone ==
  /\ worker.at = "stopping"
  /\ consumers' = [consumers EXCEPT ![worker.q] = @ - 1]
  /\ buffer' = [buffer EXCEPT ![worker.q] = <<>>]
  /\ lastUsed' = [lastUsed EXCEPT ![worker.q] = "none"]
  /\ StopNext(worker.rest)
  /\ UNCHANGED <<sent, queue, unacked, poll, faults, history>>

-----------------------------------------------------------------------------
Requeue == queue' = [q \in Queues |-> unacked[q] \o queue[q]]
Returned == returned' = [q \in Queues |-> returned[q] \cup Elements(unacked[q])]

(* The connection is lost and restored: connect_robust restores the        *)
(* consumers, what is not acknowledged is delivered again, the calls that  *)
(* await the broker raise.                                                 *)
Reconnect ==
  /\ faults < MaxFaults
  /\ faults' = faults + 1
  /\ Requeue /\ Returned
  /\ unacked' = [q \in Queues |-> <<>>]
  /\ poll' = [p \in Polls |-> IF poll[p].at = "declaring"
                              THEN [poll[p] EXCEPT !.at = "failed"] ELSE poll[p]]
  /\ IF worker.at = "stopping" THEN StopNext(worker.rest)
     ELSE UNCHANGED <<worker, tagged>>
  /\ orphans' = [q \in Queues |-> orphans[q] \/ Stopping(q)]
  /\ UNCHANGED <<sent, consumers, buffer, lastUsed, answered, exposed, unread>>

(* The gateway process is restarted: its memory is gone.                   *)
Restart ==
  /\ faults < MaxFaults
  /\ faults' = faults + 1
  /\ Requeue /\ Returned
  /\ unacked' = [q \in Queues |-> <<>>]
  /\ consumers' = [q \in Queues |-> 0]
  /\ tagged' = [q \in Queues |-> FALSE] /\ buffer' = [q \in Queues |-> <<>>]
  /\ lastUsed' = [q \in Queues |-> "none"]
  /\ poll' = [p \in Polls |-> Idle(poll[p].q)] /\ worker' = Off
  /\ unread' = [q \in Queues |-> unread[q] \cup Elements(buffer[q])]
  /\ UNCHANGED <<sent, answered, exposed, orphans>>

Coroutine(p) ==
  DrainBuffer(p) \/ StartConsumer(p) \/ Consume(p) \/ ConsumerStarted(p)
    \/ StartFailed(p)

Called(q) == \E p \in Polls : Call(p, q)

Next ==
  \/ \E q \in Queues : Publish(q) \/ Deliver(q) \/ Ack(q) \/ Called(q) \/ Age(q)
  \/ \E p \in Polls : TimeOut(p) \/ Coroutine(p)
  \/ WakeWorker \/ StopDone \/ Reconnect \/ Restart

Spec == Init /\ [][Next]_vars

(* The event loop runs what can run, and the broker answers.  A consumer   *)
(* lives for the idle timeout at least, much longer than a delivery takes: *)
(* the broker does not miss it for ever.                                   *)
FairSpec ==
  /\ Spec
  /\ \A q \in Queues : SF_vars(Deliver(q)) /\ WF_vars(Ack(q)) /\ WF_vars(Age(q))
  /\ \A p \in Polls : WF_vars(Coroutine(p))
  /\ WF_vars(WakeWorker) /\ WF_vars(StopDone)

-----------------------------------------------------------------------------
TypeOK ==
  /\ sent \in [Queues -> 0..MaxMessages]
  /\ queue \in [Queues -> Seq(Message)] /\ unacked \in [Queues -> Seq(Message)]
  /\ consumers \in [Queues -> 0..MaxConsumers]
  /\ tagged \in [Queues -> BOOLEAN] /\ buffer \in [Queues -> Seq(Message)]
  /\ lastUsed \in [Queues -> {"none", "recent", "old"}]
  /\ poll \in [Polls -> [q : Queues, late : BOOLEAN,
                 at : {"idle", "called", "declaring", "consuming", "failed"}]]
  /\ worker \in [at : {"off", "asleep", "stopping"}, q : Queues,
                 rest : SUBSET Queues]
  /\ faults \in 0..MaxFaults
  /\ answered \in [Queues -> Seq(Message)]
  /\ exposed \in [Queues -> SUBSET Message]
  /\ unread \in [Queues -> SUBSET Message]
  /\ returned \in [Queues -> SUBSET Message]
  /\ orphans \in [Queues -> BOOLEAN]

(* A progress message is at the broker, in the buffer or has been given to *)
(* the client, unless it was delivered after its queue had been found idle *)
(* or was lost with a late answer or with the gateway.                     *)
NothingLost ==
  \A q \in Queues : \A m \in 1..sent[q] :
    \/ m \in Elements(queue[q]) \cup Elements(buffer[q])
              \cup Elements(answered[q])
    \/ m \in exposed[q] \cup unread[q]

(* The client sees the messages of its game in the order in which the game *)
(* server published them, and sees one twice only if the broker delivered  *)
(* it again.                                                               *)
SeenInOrder ==
  \A q \in Queues : \A i, j \in DOMAIN answered[q] :
    i < j /\ answered[q][i] >= answered[q][j] =>
      answered[q][j] \in returned[q]

(* A client that keeps polling is given every message.                     *)
Delivered ==
  \A q \in Queues :
    ([]<><<Called(q)>>_vars) =>
      \A m \in Message :
        (sent[q] >= m) ~> \/ m \in Elements(answered[q])
                          \/ m \in exposed[q] \cup unread[q]

(* Consumers nobody uses any more are stopped, unless a second one was     *)
(* started before the first was known or while one was being stopped, or a *)
(* stop raised.                                                            *)
Abandoned(q) == buffer[q] = <<>> /\ \A p \in Polls : poll[p].at = "idle"
IdleStops ==
  \A q \in Queues :
    <>[]Abandoned(q) => []<>(consumers[q] = 0 \/ orphans[q])
=============================================================================
