------------------------------ MODULE AIServer ------------------------------
(***************************************************************************)
(* One AI server: the consuming thread that handles load and inference     *)
(* requests (ai_server/main.py, ai_manager.py) and the thread that watches *)
(* the connection (ai_server/rabbitmq_client.py), with the broker and the  *)
(* disk that outlive the process.                                          *)
(*                                                                         *)
(* A request stays in its queue until it is acknowledged, so losing the    *)
(* connection needs no step that puts it back.  The game servers send load *)
(* requests as they like and an inference request only for a model whose   *)
(* loading some AI server has confirmed.                                   *)
(***************************************************************************)
EXTENDS Integers, SequencesExt, FiniteSets

CONSTANTS
  Models,       \* model ids
  MaxLoaded,    \* MAX_LOADED_MODELS
  MaxRequests,  \* bound: requests sent
  MaxDrops,     \* bound: lost connections
  MaxRestarts   \* bound: crashes and restarts

ASSUME AIServerAssumption == MaxLoaded \in Nat \ {0}

Retries == 3  \* of _safe_publish

VARIABLES
  \* memory of the process
  models,    \* AIManager.models, a dict: in the order of insertion
  bound,     \* _bound_models
  stored,    \* the callbacks of both consumers are set
  channel,   \* number of the client's channel, 0: none yet
  open,      \* is_open, as far as the client has noticed
  thread,    \* the consuming thread: where it is, its channel and request
  watcher,   \* the reconnect loop: "watch" or "connect"
  \* the broker and the disk
  up,        \* the connection of the channel is alive
  consumed,  \* queues with a consumer on the channel
  keys,      \* models whose routing key is bound to the inference queue
  queue,     \* the two queues of requests
  files,     \* the model files
  \* history and bounds
  request,   \* every request sent, by number
  answers,   \* the responses published to each: TRUE for success
  deleted,   \* requests deleted together with the inference queue
  evicted,   \* models evicted by this process
  inherited, \* keys that were bound when the process started
  torn,      \* the client opened a channel that nobody was to consume from
  drops, restarts

process == <<models, bound, stored, channel, open, thread, watcher>>
broker == <<up, consumed, keys, queue>>
ghosts == <<request, answers, deleted, evicted, inherited, torn, drops,
            restarts>>
vars == <<process, broker, files, ghosts>>

Kinds == {"load", "inference"}
Dead == [at |-> "dead", channel |-> 0, id |-> 0, ok |-> FALSE, tries |-> 0]
Idle(c) == [Dead EXCEPT !.at = "idle", !.channel = c]
Loaded == ToSet(models)
Model == request[thread.id].model

-----------------------------------------------------------------------------
(* start: with a connection the queues are set up, both consumers          *)
(* registered and the thread started; without one the reconnect loop does  *)
(* that later, with the callbacks there are: the first version of start in *)
(* main.py stores them all the same, the second does not.                  *)
Start(connected) ==
  /\ channel' = (IF connected THEN 1 ELSE 0)
  /\ open' = connected /\ up' = connected
  /\ consumed' = (IF connected THEN Kinds ELSE {})
  /\ stored' \in {TRUE, connected}
  /\ thread' = (IF connected THEN Idle(1) ELSE Dead)
  /\ watcher' = "watch" /\ models' = <<>> /\ bound' = {}

Init ==
  /\ models = <<>> /\ bound = {}
  /\ open \in BOOLEAN /\ up = open /\ channel = (IF open THEN 1 ELSE 0)
  /\ consumed = (IF open THEN Kinds ELSE {}) /\ stored \in {TRUE, open}
  /\ thread = (IF open THEN Idle(1) ELSE Dead) /\ watcher = "watch"
  /\ keys = {}
  /\ queue = [k \in Kinds |-> <<>>] /\ files = [m \in Models |-> "none"]
  /\ request = <<>> /\ answers = <<>> /\ deleted = {}
  /\ evicted = {} /\ inherited = {} /\ torn = FALSE
  /\ drops = 0 /\ restarts = 0

(* A game server sends a request.  The exchange drops an inference request *)
(* whose key is not bound; a confirmed model's is, unless the queue has    *)
(* been deleted since.                                                     *)
Send(k, m) ==
  /\ Len(request) < MaxRequests
  /\ k = "inference" =>
       /\ m \in keys
       /\ \E i \in DOMAIN request : /\ request[i] = [kind |-> "load", model |-> m]
                                    /\ TRUE \in answers[i]
  /\ request' = Append(request, [kind |-> k, model |-> m])
  /\ answers' = Append(answers, {})
  /\ queue' = [queue EXCEPT ![k] = Append(@, Len(request'))]
  /\ UNCHANGED <<process, up, consumed, keys, files, deleted, evicted,
                 inherited, torn, drops, restarts>>

-----------------------------------------------------------------------------
(* The consuming thread.                                                   *)
Goto(at) == thread' = [thread EXCEPT !.at = at]
Respond(ok) == thread' = [thread EXCEPT !.at = "publish", !.ok = ok, !.tries = 0]

(* on_message: the first request of a queue that is not acknowledged.      *)
Take(k) ==
  /\ thread.at = "idle" /\ thread.channel = channel /\ up
  /\ k \in consumed /\ queue[k] # <<>>
  /\ thread' = [thread EXCEPT !.at = k, !.id = Head(queue[k])]
  /\ UNCHANGED <<models, bound, stored, channel, open, watcher, broker, files,
                 ghosts>>

(* Mutants of Evict: the last model goes; one model too many stays.        *)
Bug_EvictLast(s) == IF Len(s) > MaxLoaded THEN Front(s) ELSE s
Bug_EvictLate(s) == IF Len(s) > MaxLoaded + 1 THEN Tail(s) ELSE s

(* cleanup_old_models: a full cache gives up the first model it loaded.    *)
Evict(s) == IF Len(s) > MaxLoaded THEN Tail(s) ELSE s

(* Mutant of LoadFile: the key is bound whether the file loads or not.     *)
Bug_LoadFile(m) ==
  /\ IF files'[m] = "whole"
     THEN /\ models' = Evict(Append(models, m))
          /\ evicted' = (evicted \ {m}) \cup (Loaded \ ToSet(models'))
     ELSE UNCHANGED <<models, evicted>>
  /\ Goto("bind")
  /\ UNCHANGED <<bound, stored, channel, open, watcher, broker, request,
                 answers, deleted, inherited, torn, drops, restarts>>

(* The rest of load_model once the file's path is known.  A file that is   *)
(* not whole does not load.                                                *)
LoadFile(m) ==
  /\ IF files'[m] = "whole"
     THEN /\ models' = Evict(Append(models, m))
          /\ evicted' = (evicted \ {m}) \cup (Loaded \ ToSet(models'))
          /\ Goto("bind")
     ELSE Respond(FALSE) /\ UNCHANGED <<models, evicted>>
  /\ UNCHANGED <<bound, stored, channel, open, watcher, broker, request,
                 answers, deleted, inherited, torn, drops, restarts>>

(* load_model: a loaded model is confirmed; a file on the disk is loaded   *)
(* whatever it holds; otherwise the file is created, to be filled.         *)
Load ==
  /\ thread.at = "load"
  /\ \/ Model \in Loaded /\ Goto("bind")
        /\ UNCHANGED <<models, bound, stored, channel, open, watcher, broker,
                       files, ghosts>>
     \/ /\ Model \notin Loaded /\ files[Model] # "none"
        /\ UNCHANGED files
        /\ LoadFile(Model)
     \/ /\ Model \notin Loaded /\ files[Model] = "none"
        /\ Goto("download")
        /\ files' = [files EXCEPT ![Model] = "partial"]
        /\ UNCHANGED <<models, bound, stored, channel, open, watcher, broker,
                       ghosts>>

(* The answer to the download is not 200: nothing is written.              *)
Refused ==
  /\ thread.at = "load" /\ Model \notin Loaded /\ files[Model] = "none"
  /\ Respond(FALSE)
  /\ UNCHANGED <<models, bound, stored, channel, open, watcher, broker, files,
                 ghosts>>

Downloaded ==
  /\ thread.at = "download"
  /\ files' = [files EXCEPT ![Model] = "whole"]
  /\ LoadFile(Model)

(* The download breaks off.                                                *)
Cut ==
  /\ thread.at = "download"
  /\ Respond(FALSE)
  /\ UNCHANGED <<models, bound, stored, channel, open, watcher, broker, files,
                 ghosts>>

(* handle_load: bind_inference_model remembers the model and binds its key *)
(* on the client's channel, which may be newer than the request's.  On a   *)
(* dead connection the bind raises, and so does the nack after it: the     *)
(* thread ends.                                                            *)
Bind ==
  /\ thread.at = "bind"
  /\ bound' = bound \cup {Model}
  /\ IF open /\ up
     THEN keys' = keys \cup {Model} /\ Respond(TRUE) /\ UNCHANGED open
     ELSE open' = FALSE /\ thread' = Dead /\ UNCHANGED keys
  /\ UNCHANGED <<models, stored, channel, watcher, up, consumed, queue, files,
                 ghosts>>

(* AIManager.inference: without the model the response says so.            *)
Infer ==
  /\ thread.at = "inference"
  /\ Respond(Model \in Loaded)
  /\ UNCHANGED <<models, bound, stored, channel, open, watcher, broker, files,
                 ghosts>>

(* A new channel: what is consumed on it, and whether nobody will consume. *)
Connect(consumers) ==
  /\ channel' = channel + 1
  /\ open' = TRUE /\ up' = TRUE
  /\ consumed' = consumers

(* _safe_publish.  The client finds out that the connection is dead when   *)
(* it writes, or only later; nothing confirms a publication.               *)
Published ==
  /\ thread.at = "publish" /\ thread.tries < Retries /\ open /\ up
  /\ answers' = [answers EXCEPT ![thread.id] = @ \cup {thread.ok}]
  /\ Goto("ack")
  /\ UNCHANGED <<models, bound, stored, channel, open, watcher, broker, files,
                 request, deleted, evicted, inherited, torn, drops, restarts>>

NotPublished ==
  /\ thread.at = "publish" /\ thread.tries < Retries /\ open /\ ~up
  /\ \/ Goto("ack") /\ UNCHANGED open
     \/ /\ thread' = [thread EXCEPT !.tries = @ + 1]
        /\ open' = FALSE
  /\ UNCHANGED <<models, bound, stored, channel, watcher, broker, files,
                 ghosts>>

GiveUp ==
  /\ thread.at = "publish" /\ thread.tries = Retries
  /\ Goto("ack")
  /\ UNCHANGED <<models, bound, stored, channel, open, watcher, broker, files,
                 ghosts>>

(* It found the channel closed and connects, without consumers.            *)
FindClosed ==
  /\ thread.at = "publish" /\ thread.tries < Retries /\ ~open
  /\ Goto("connect")
  /\ UNCHANGED <<models, bound, stored, channel, open, watcher, broker, files,
                 ghosts>>

ConnectToPublish ==
  /\ thread.at = "connect"
  /\ \/ /\ Goto("publish")
        /\ Connect({})
        /\ torn' = TRUE
        /\ UNCHANGED <<models, bound, stored, watcher, keys, queue, files,
                       request, answers, deleted, evicted, inherited, drops,
                       restarts>>
     \/ /\ thread' = [thread EXCEPT !.at = "publish", !.tries = @ + 1]
        /\ UNCHANGED <<models, bound, stored, channel, open, watcher, broker,
                       files, ghosts>>

(* Mutant of CanAck: on the channel the client has now.                    *)
Bug_CanAck == open /\ up

(* The request is acknowledged on the channel it came from.                *)
CanAck == thread.channel = channel /\ up

Ack ==
  /\ thread.at = "ack"
  /\ IF CanAck
     THEN /\ queue' = [queue EXCEPT ![request[thread.id].kind] = Tail(@)]
          /\ thread' = Idle(thread.channel)
          /\ UNCHANGED open
     ELSE /\ open' = (open /\ thread.channel # channel)
          /\ thread' = Dead
          /\ UNCHANGED queue
  /\ UNCHANGED <<models, bound, stored, channel, watcher, up, consumed, keys,
                 files, ghosts>>

(* start_consuming raises when the connection is lost.                     *)
NoticeLoss ==
  /\ thread.at = "idle" /\ ~up
  /\ open' = FALSE /\ thread' = Dead
  /\ UNCHANGED <<models, bound, stored, channel, watcher, broker, files,
                 ghosts>>

-----------------------------------------------------------------------------
(* start_reconnect_loop: it sees a closed channel, and then connects,      *)
(* registers the consumers whose callbacks are stored, binds the models    *)
(* again and starts the thread unless it is alive.  With no consumer the   *)
(* thread ends at once.                                                    *)
Watch ==
  /\ watcher = "watch" /\ ~open /\ watcher' = "connect"
  /\ UNCHANGED <<models, bound, stored, channel, open, thread, broker, files,
                 ghosts>>

Callbacks == IF stored THEN Kinds ELSE {}

(* Mutant of Reconnect: the thread is not started.                         *)
Bug_Reconnect ==
  /\ watcher = "connect" /\ watcher' = "watch"
  /\ Connect(Callbacks)
  /\ keys' = keys \cup bound
  /\ torn' = (torn \/ thread # Dead)
  /\ UNCHANGED <<models, bound, stored, thread, queue, files, request, answers,
                 deleted, evicted, inherited, drops, restarts>>

Reconnect ==
  /\ watcher = "connect" /\ watcher' = "watch"
  /\ Connect(Callbacks)
  /\ keys' = keys \cup bound
  /\ thread' = IF thread = Dead /\ stored THEN Idle(channel') ELSE thread
  /\ torn' = (torn \/ thread # Dead)
  /\ UNCHANGED <<models, bound, stored, queue, files, request, answers,
                 deleted, evicted, inherited, drops, restarts>>

-----------------------------------------------------------------------------
(* Faults.                                                                 *)
Drop ==
  /\ drops < MaxDrops /\ up
  /\ drops' = drops + 1 /\ up' = FALSE
  /\ UNCHANGED <<process, consumed, keys, queue, files, request, answers,
                 deleted, evicted, inherited, torn, restarts>>

(* A new process with the same SERVER_ID: the queues, their bindings and   *)
(* the files are still there.                                              *)
Restart(connected) ==
  /\ restarts < MaxRestarts /\ restarts' = restarts + 1
  /\ Start(connected)
  /\ inherited' = keys' /\ evicted' = {} /\ torn' = FALSE
  /\ UNCHANGED <<files, request, answers, drops>>

Crash(connected) ==
  /\ UNCHANGED <<keys, queue, deleted>>
  /\ Restart(connected)

(* stop and disconnect: closing a connection that is dead raises and the   *)
(* inference queue stays; otherwise it is deleted.                         *)
Stop(connected) ==
  /\ IF open /\ ~up
     THEN UNCHANGED <<keys, queue, deleted>>
     ELSE /\ keys' = {}
          /\ queue' = [queue EXCEPT !["inference"] = <<>>]
          /\ deleted' = deleted \cup ToSet(queue["inference"])
  /\ Restart(connected)

Consume ==
  \/ \E k \in Kinds : Take(k)
  \/ Load \/ Refused \/ Downloaded \/ Cut \/ Bind \/ Infer
  \/ Published \/ NotPublished \/ GiveUp \/ FindClosed \/ ConnectToPublish
  \/ Ack \/ NoticeLoss

Next ==
  \/ \E k \in Kinds, m \in Models : Send(k, m)
  \/ Consume \/ Watch \/ Reconnect
  \/ Drop \/ \E connected \in BOOLEAN : Crash(connected) \/ Stop(connected)

Spec == Init /\ [][Next]_vars

(* Both threads go on, and the broker can be reached again in the end.     *)
FairSpec == Spec /\ WF_vars(Consume) /\ WF_vars(Watch) /\ WF_vars(Reconnect)

-----------------------------------------------------------------------------
(* Types, and the size of the cache.                                       *)
TypeOK ==
  /\ models \in Seq(Models) /\ IsInjective(models) /\ Len(models) <= MaxLoaded
  /\ bound \subseteq Models /\ keys \subseteq Models
  /\ stored \in BOOLEAN
  /\ channel \in Nat /\ open \in BOOLEAN /\ up \in BOOLEAN
  /\ thread.at \in {"dead", "idle", "load", "download", "bind", "inference",
                    "publish", "connect", "ack"}
  /\ thread.id \in 0 .. Len(request) /\ thread.tries \in 0 .. Retries
  /\ watcher \in {"watch", "connect"} /\ consumed \in {{}, Kinds}
  /\ queue \in [Kinds -> Seq(DOMAIN request)]
  /\ files \in [Models -> {"none", "partial", "whole"}]
  /\ request \in Seq([kind : Kinds, model : Models])
  /\ answers \in [DOMAIN request -> SUBSET BOOLEAN]
  /\ deleted \subseteq DOMAIN request
  /\ evicted \subseteq Models /\ inherited \subseteq Models
  /\ torn \in BOOLEAN

(* However often a connection is lost, a publication given up and the      *)
(* process restarted, a request is still in its queue or has been          *)
(* answered, unless a stop deleted the queue: the acknowledgement on the   *)
(* request's own channel fails when the answer could not be published.     *)
NothingLost ==
  \A i \in DOMAIN request :
    \/ answers[i] # {}
    \/ i \in ToSet(queue[request[i].kind])
    \/ i \in deleted

(* A model is confirmed, or answers, only while it is loaded, from a whole *)
(* file, and its requests are routed here: the cache never gives up the    *)
(* model that has just been loaded, and the key is bound before the        *)
(* confirmation goes out.                                                  *)
KeepsPromises ==
  [][\A i \in DOMAIN request :
       TRUE \in answers'[i] \ answers[i] =>
         LET m == request[i].model
         IN m \in ToSet(models') /\ files'[m] = "whole" /\ m \in keys']_vars

(* Requests are routed to a server that does not have the model only when  *)
(* it evicted the model (the key stays bound) or when the key is left from *)
(* before a restart.                                                       *)
RoutedOrEvicted == keys \subseteq Loaded \cup evicted \cup inherited

(* Every request is answered in the end, unless the client tore itself:    *)
(* _safe_publish opened a channel without consumers, or the reconnect loop *)
(* found the old consuming thread still alive and started no new one; or   *)
(* the broker was away when the second version of start ran, after which   *)
(* the reconnect loop has nothing to register.                             *)
Answered ==
  \/ <>[](torn \/ ~stored)
  \/ \A i \in 1 .. MaxRequests :
       (i \in DOMAIN request) ~>
         (i \in DOMAIN request /\ (answers[i] # {} \/ i \in deleted))

(* What the comments promise of the reconnect loop: after a lost           *)
(* connection the server consumes its queues again.                        *)
KeepsServing ==
  []stored =>
    []<>(/\ thread.at = "idle" /\ thread.channel = channel
         /\ consumed = Kinds /\ up)
=============================================================================
