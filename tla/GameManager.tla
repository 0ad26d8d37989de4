---------------------------- MODULE GameManager ----------------------------
(***************************************************************************)
(* The game server: GameManager and the coroutines of its RabbitMQ client. *)
(*                                                                         *)
(* asyncio runs one coroutine at a time, so an action of this module is    *)
(* one stretch of handler code between two awaits that really suspend: a   *)
(* publication waiting for the broker's confirm.  A handler that waits is  *)
(* a record of "reporting" (waiting in publish_game_progress) or "asking"  *)
(* (waiting in publish_inference_request); up to RABBITMQ_PREFETCH_COUNT   *)
(* handlers wait at the same time and resume in any order.                 *)
(*                                                                         *)
(* The AI servers are reduced to what the game server can observe: which   *)
(* models their queues are bound to, and one response per request copy.    *)
(* The board is reduced to the phase of the game it puts the server in.    *)
(***************************************************************************)
EXTENDS Naturals, Sequences

CONSTANTS
  Games,       \* game ids; the client chooses them, assumed distinct
  Models,      \* model ids: the numbers AIs have in the database (with any
               \* other id, int(msg.model_id) raises before the move is made)
  Servers,     \* AI servers
  UrlSets,     \* for which seats a request carries a model_url
  Verdicts,    \* the phases a move may leave an unfinished board in
  MaxTurns,    \* a board admits at most this many moves
  MaxFailures  \* bound: publications that may raise, per game

Seat == {0, 1}             \* all four games seat two players
Other(s) == 1 - s          \* (s + 1) % len(model_ids), len(players)
Verdict == {"open", "late", "over"}

ASSUME GMAssumption ==
  /\ UrlSets \subseteq SUBSET Seat
  /\ Verdicts \subseteq Verdict
  /\ MaxTurns \in Nat \ {0}
  /\ MaxFailures \in Nat

VARIABLES
  (* what the requests say: fixed during a behaviour *)
  models,    \* game -> seat -> model_ids[seat]
  urls,      \* game -> seats with a model_urls[seat]
  (* the broker *)
  requests,  \* games waiting in game_request_queue
  responses, \* messages in this server's response queue
  inbox,     \* copies of inference requests in the AI servers' queues
  loads,     \* requests in model_load_queue
  bound,     \* AI server -> models its queue is bound to
  feed,      \* game -> progress messages the broker accepted, oldest first
  (* the game server *)
  table,     \* game -> entry of games / game_meta
  asked,     \* game -> number of inference requests drawn up (their ids)
  reporting, \* handlers waiting for a progress publication
  asking,    \* handlers waiting for a request publication
  (* history *)
  played,    \* game -> moves made: whose turn it was, the answered request
  failures   \* game -> publications that raised

vars == <<models, urls, requests, responses, inbox, loads, bound, feed,
          table, asked, reporting, asking, played, failures>>
fixed == <<models, urls>>

-----------------------------------------------------------------------------
(* An inference request: uuids are pairs of a game and a number.           *)
Ask == [g : Games, id : Nat, model : Models]

Response == [kind : {"inference", "load"}, ask : Ask, server : Servers,
             ok : BOOLEAN, redelivered : BOOLEAN]

Report == [finished : BOOLEAN, ok : BOOLEAN]

(* "from" holds the response being handled; it is empty for a game request.*)
Reporting == [g : Games, from : SUBSET Response, ends : BOOLEAN,
              sent : BOOLEAN]
Asking == [ask : Ask, from : SUBSET Response, url : BOOLEAN]

(* One entry stands for games[g] and game_meta[g], which the code creates  *)
(* and deletes together.  turn and seat are turn_number and current_turn   *)
(* of the meta, player is current_player of the game object, and pending   *)
(* holds pending_request_id / pending_model_id once they are set.          *)
Entry == [phase : Verdict \cup {"absent"}, turn : Nat, seat : Seat,
          player : Seat, pending : SUBSET Ask]

NoEntry == [phase |-> "absent", turn |-> 0, seat |-> 0, player |-> 0,
            pending |-> {}]
NewEntry == [NoEntry EXCEPT !.phase = "open"]

Live(g) == table[g].phase # "absent"

(* Mutant of FailureReport: is_finished left at its default.               *)
Bug_FailureNotFinal == [finished |-> FALSE, ok |-> FALSE]

(* What an error message and a board message say.                          *)
FailureReport == [finished |-> TRUE, ok |-> FALSE]
BoardReport(phase) == [finished |-> phase # "open", ok |-> TRUE]

-----------------------------------------------------------------------------
Init ==
  /\ models \in [Games -> [Seat -> Models]]
  /\ urls \in [Games -> UrlSets]
  /\ requests = Games
  /\ responses = {} /\ inbox = {} /\ loads = {}
  /\ bound \in [Servers -> SUBSET Models]   \* loaded for earlier games
  /\ feed = [g \in Games |-> <<>>]
  /\ table = [g \in Games |-> NoEntry]
  /\ asked = [g \in Games |-> 0]
  /\ reporting = {} /\ asking = {}
  /\ played = [g \in Games |-> <<>>]
  /\ failures = [g \in Games |-> 0]

(* broadcast_progress: the message is composed at the call; the publication*)
(* raises when no progress queue of the game is bound (mandatory) or the   *)
(* channel fails.                                                          *)
Broadcast(g, report, from, ends) ==
  \/ /\ feed' = [feed EXCEPT ![g] = Append(@, report)]
     /\ reporting' = reporting \cup
          {[g |-> g, from |-> from, ends |-> ends, sent |-> TRUE]}
     /\ UNCHANGED failures
  \/ /\ failures[g] < MaxFailures
     /\ failures' = [failures EXCEPT ![g] = @ + 1]
     /\ reporting' = reporting \cup
          {[g |-> g, from |-> from, ends |-> ends, sent |-> FALSE]}
     /\ UNCHANGED feed

(* Mutant of ProceedTurn: an already pending request id is kept.           *)
Bug_PendingKept(g, from) ==
  \/ /\ ~Live(g)
     /\ UNCHANGED <<table, asked, asking>>
  \/ /\ Live(g)
     /\ LET seat == table[g].seat
            ask == [g |-> g, id |-> asked[g] + 1, model |-> models[g][seat]]
        IN /\ asked' = [asked EXCEPT ![g] = @ + 1]
           /\ table' = [table EXCEPT
                ![g].pending = IF @ = {} THEN {ask} ELSE @]
           /\ asking' = asking \cup
                {[ask |-> ask, from |-> from, url |-> seat \in urls[g]]}

(* proceed_turn up to the publication: draws up the request for the model  *)
(* whose turn it is and makes it the pending one.                          *)
ProceedTurn(g, from) ==
  \/ /\ ~Live(g)
     /\ UNCHANGED <<table, asked, asking>>
  \/ /\ Live(g)
     /\ LET seat == table[g].seat
            ask == [g |-> g, id |-> asked[g] + 1, model |-> models[g][seat]]
        IN /\ asked' = [asked EXCEPT ![g] = @ + 1]
           /\ table' = [table EXCEPT ![g].pending = {ask}]
           /\ asking' = asking \cup
                {[ask |-> ask, from |-> from, url |-> seat \in urls[g]]}

(* A handler raised: _handle_response puts its response back in the queue, *)
(* _handle_game_request swallows the exception and acknowledges.           *)
Requeued(from) == {[m EXCEPT !.redelivered = TRUE] : m \in from}

-----------------------------------------------------------------------------
(* handle_game_request, up to its first suspension.                        *)
AcceptGame(g) ==
  /\ g \in requests
  /\ requests' = requests \ {g}
  /\ table' = [table EXCEPT ![g] = NewEntry]
  /\ Broadcast(g, BoardReport("open"), {}, FALSE)
  /\ UNCHANGED <<fixed, responses, inbox, loads, bound, asked, asking, played>>

(* The test that a response answers the pending request: an unset id or    *)
(* model lets every response through.                                      *)
Current(m) == table[m.ask.g].pending \subseteq {m.ask}

(* Mutant of HasMove: the mated side is given moves.                       *)
Bug_MatedMoves(g) == table[g].turn < MaxTurns

(* get_valid_moves of the board: none once the side to move is mated; after*)
(* the end, whatever squares are left.                                     *)
HasMove(g) == table[g].phase \in {"open", "over"} /\ table[g].turn < MaxTurns
BoardMayBeFull(g) == table[g].phase # "open"

(* Mutants of AfterMove: current_turn does not wrap, or does not advance.  *)
Bug_SeatNotWrapped(e, phase) ==
  [e EXCEPT !.phase = phase, !.turn = @ + 1, !.seat = @ + 1,
            !.player = IF phase = "over" THEN @ ELSE Other(@)]
Bug_SeatKept(e, phase) ==
  [e EXCEPT !.phase = phase, !.turn = @ + 1,
            !.player = IF phase = "over" THEN @ ELSE Other(@)]

(* BoardGame.play keeps the turn on a finished board; "late" is the chess  *)
(* board whose end is_game_over sees only after next_turn.                 *)
AfterMove(e, phase) ==
  [e EXCEPT !.phase = phase, !.turn = @ + 1, !.seat = Other(@),
            !.player = IF phase = "over" THEN @ ELSE Other(@)]
PhasesAfter(g) ==
  {v \in Verdicts \cup {"over"} :
     /\ table[g].phase = "over" => v = "over"
     /\ table[g].turn + 1 = MaxTurns => v # "open"}

(* handle_inference_response: the move is made and reported.               *)
PlayAnswer(m) ==
  LET g == m.ask.g IN
  /\ m \in responses /\ m.kind = "inference"
  /\ Live(g) /\ Current(m) /\ m.ok /\ HasMove(g)
  /\ responses' = responses \ {m}
  /\ played' = [played EXCEPT
       ![g] = Append(@, [player |-> table[g].player, ask |-> m.ask])]
  /\ \E phase \in PhasesAfter(g) :
       /\ table' = [table EXCEPT ![g] = AfterMove(@, phase)]
       /\ Broadcast(g, BoardReport(phase), {m}, phase = "over")
  /\ UNCHANGED <<fixed, requests, inbox, loads, bound, asked, asking>>

(* A failed inference, an answer for which no move is left, a failed load: *)
(* an error message, then cleanup_game.                                    *)
Fails(m) ==
  \/ m.kind = "load" /\ ~m.ok
  \/ /\ m.kind = "inference" /\ Current(m)
     /\ ~m.ok \/ BoardMayBeFull(m.ask.g)
FailGame(m) ==
  LET g == m.ask.g IN
  /\ m \in responses /\ Live(g) /\ Fails(m)
  /\ responses' = responses \ {m}
  /\ Broadcast(g, FailureReport, {m}, TRUE)
  /\ UNCHANGED <<fixed, requests, inbox, loads, bound, table, asked, asking,
                 played>>

(* A response that does not answer the pending request is acknowledged.    *)
IgnoreAnswer(m) ==
  /\ m \in responses /\ m.kind = "inference" /\ Live(m.ask.g) /\ ~Current(m)
  /\ responses' = responses \ {m}
  /\ UNCHANGED <<fixed, requests, inbox, loads, bound, feed, table, asked,
                 reporting, asking, played, failures>>

(* handle_model_load_response, successful: the turn is requested again.    *)
ResumeAfterLoad(m) ==
  /\ m \in responses /\ m.kind = "load" /\ m.ok
  /\ responses' = responses \ {m}
  /\ ProceedTurn(m.ask.g, {m})
  /\ UNCHANGED <<fixed, requests, inbox, loads, bound, feed, reporting,
                 played, failures>>

(* The error message for a game that is gone has no game_type, so building *)
(* it raises and the response goes back to the queue.                      *)
OrphanResponse(m) ==
  /\ m \in responses /\ ~Live(m.ask.g)
  /\ m.kind = "inference" \/ ~m.ok
  /\ responses' = (responses \ {m}) \cup Requeued({m})
  /\ UNCHANGED <<fixed, requests, inbox, loads, bound, feed, table, asked,
                 reporting, asking, played, failures>>

-----------------------------------------------------------------------------
(* Mutant of Reported: a publication that raised is taken for a success.   *)
Bug_RaiseSwallowed(t) ==
  /\ t \in reporting
  /\ reporting' = reporting \ {t}
  /\ \/ /\ t.ends
        /\ table' = [table EXCEPT ![t.g] = NoEntry]
        /\ UNCHANGED <<asked, asking>>
     \/ /\ ~t.ends
        /\ ProceedTurn(t.g, t.from)
  /\ UNCHANGED <<fixed, requests, responses, inbox, loads, bound, feed,
                 played, failures>>

(* The progress publication returned: cleanup_game after a failure or the  *)
(* end, otherwise the next turn.                                           *)
Reported(t) ==
  /\ t \in reporting /\ t.sent
  /\ reporting' = reporting \ {t}
  /\ \/ /\ t.ends
        /\ table' = [table EXCEPT ![t.g] = NoEntry]
        /\ UNCHANGED <<asked, asking>>
     \/ /\ ~t.ends
        /\ ProceedTurn(t.g, t.from)
  /\ UNCHANGED <<fixed, requests, responses, inbox, loads, bound, feed,
                 played, failures>>

ReportRaised(t) ==
  /\ t \in reporting /\ ~t.sent
  /\ reporting' = reporting \ {t}
  /\ responses' = responses \cup Requeued(t.from)
  /\ UNCHANGED <<fixed, requests, inbox, loads, bound, feed, table, asked,
                 asking, played, failures>>

(* The topic exchange copies a request to every queue bound to its model.  *)
Bound(model) == {s \in Servers : model \in bound[s]}

RequestRouted(t) ==
  /\ t \in asking /\ Bound(t.ask.model) # {}
  /\ asking' = asking \ {t}
  /\ inbox' = inbox \cup {[server |-> s, ask |-> t.ask] :
                            s \in Bound(t.ask.model)}
  /\ UNCHANGED <<fixed, requests, responses, loads, bound, feed, table, asked,
                 reporting, played, failures>>

(* Mutant of RequestReturned: the unroutable request is only logged.       *)
Bug_ReturnLogged(t) ==
  /\ t \in asking /\ Bound(t.ask.model) = {}
  /\ asking' = asking \ {t}
  /\ UNCHANGED <<fixed, requests, responses, inbox, loads, bound, feed, table,
                 asked, reporting, played, failures>>

(* DeliveryError: ask some AI server to load the model, if a url is known. *)
RequestReturned(t) ==
  /\ t \in asking /\ Bound(t.ask.model) = {}
  /\ asking' = asking \ {t}
  /\ loads' = IF t.url THEN loads \cup {t.ask} ELSE loads
  /\ UNCHANGED <<fixed, requests, responses, inbox, bound, feed, table, asked,
                 reporting, played, failures>>

RequestRaised(t) ==
  /\ t \in asking /\ failures[t.ask.g] < MaxFailures
  /\ failures' = [failures EXCEPT ![t.ask.g] = @ + 1]
  /\ asking' = asking \ {t}
  /\ responses' = responses \cup Requeued(t.from)
  /\ UNCHANGED <<fixed, requests, inbox, loads, bound, feed, table, asked,
                 reporting, played>>

-----------------------------------------------------------------------------
(* The AI servers: handle_inference_request, handle_model_load_request.    *)
Answer(kind, ask, s, ok) ==
  [kind |-> kind, ask |-> ask, server |-> s, ok |-> ok, redelivered |-> FALSE]

(* Mutant of ServeInference: the request is answered but not acknowledged. *)
Bug_AnswerNotAcked(e) ==
  /\ e \in inbox
  /\ \E ok \in BOOLEAN :
       responses' = responses \cup {Answer("inference", e.ask, e.server, ok)}
  /\ UNCHANGED <<fixed, requests, inbox, loads, bound, feed, table, asked,
                 reporting, asking, played, failures>>

ServeInference(e) ==
  /\ e \in inbox
  /\ inbox' = inbox \ {e}
  /\ \E ok \in BOOLEAN :
       responses' = responses \cup {Answer("inference", e.ask, e.server, ok)}
  /\ UNCHANGED <<fixed, requests, loads, bound, feed, table, asked,
                 reporting, asking, played, failures>>

ServeLoad(s, ask) ==
  /\ ask \in loads
  /\ loads' = loads \ {ask}
  /\ \E ok \in BOOLEAN :
       /\ bound' = IF ok THEN [bound EXCEPT ![s] = @ \cup {ask.model}]
                         ELSE bound
       /\ responses' = responses \cup {Answer("load", ask, s, ok)}
  /\ UNCHANGED <<fixed, requests, inbox, feed, table, asked, reporting,
                 asking, played, failures>>

-----------------------------------------------------------------------------
HandleResponse(m) ==
  \/ PlayAnswer(m) \/ FailGame(m) \/ IgnoreAnswer(m)
  \/ ResumeAfterLoad(m) \/ OrphanResponse(m)

Resume ==
  \/ \E t \in reporting : Reported(t) \/ ReportRaised(t)
  \/ \E t \in asking : RequestRouted(t) \/ RequestReturned(t)

AIServers ==
  \/ \E e \in inbox : ServeInference(e)
  \/ \E s \in Servers, ask \in loads : ServeLoad(s, ask)

Next ==
  \/ \E g \in Games : AcceptGame(g)
  \/ \E m \in responses : HandleResponse(m)
  \/ Resume
  \/ \E t \in asking : RequestRaised(t)
  \/ AIServers

Spec == Init /\ [][Next]_vars

(* The broker delivers, a confirmed publication resumes its coroutine, and *)
(* a consuming AI server answers what it takes from its queue.             *)
FairSpec ==
  /\ Spec
  /\ \A g \in Games : WF_vars(AcceptGame(g))
  /\ WF_vars(\E m \in responses : HandleResponse(m))
  /\ WF_vars(Resume)
  /\ WF_vars(AIServers)

-----------------------------------------------------------------------------
TypeOK ==
  /\ models \in [Games -> [Seat -> Models]]
  /\ urls \in [Games -> SUBSET Seat]
  /\ requests \subseteq Games
  /\ responses \subseteq Response
  /\ inbox \subseteq [server : Servers, ask : Ask]
  /\ loads \subseteq Ask
  /\ bound \in [Servers -> SUBSET Models]
  /\ feed \in [Games -> Seq(Report)]
  /\ table \in [Games -> Entry]
  /\ asked \in [Games -> Nat]
  /\ reporting \subseteq Reporting
  /\ asking \subseteq Asking
  /\ played \in [Games -> Seq([player : Seat, ask : Ask])]
  /\ failures \in [Games -> Nat]

(* No answer is played twice: "avoid applying stale/out-of-order           *)
(* responses" (game_manager.py:139).  pending_request_id is only replaced  *)
(* by the next proceed_turn, after the await in which a second copy of the *)
(* answer may arrive, so this needs a single bound AI server and no        *)
(* redelivery.                                                             *)
AppliedOnce ==
  \A g \in Games : failures[g] = 0 =>
    \A i, j \in DOMAIN played[g] :
      played[g][i].ask = played[g][j].ask => i = j

(* Every move is chosen by the model that sits where the board says it is  *)
(* the turn: current_turn of the meta data, from which the model is taken, *)
(* and current_player of the board are advanced by different code.         *)
SeatsKeepTheirModels ==
  \A g \in Games : failures[g] = 0 =>
    \A i \in DOMAIN played[g] :
      played[g][i].ask.model = models[g][played[g][i].player]

(* Work that will answer a request: somewhere between the handler that     *)
(* publishes it and the handler of its answer.                             *)
WorkFor(ask) ==
  \/ \E t \in asking : t.ask = ask
  \/ \E e \in inbox : e.ask = ask
  \/ ask \in loads
  \/ \E m \in responses : m.ask = ask
  \/ \E t \in reporting : \E m \in t.from : m.ask = ask

Carried(g) ==
  \/ \E t \in reporting : t.g = g /\ t.from = {}
  \/ \E ask \in table[g].pending : WorkFor(ask)

(* A game in the tables is never forgotten: as long as no publication for  *)
(* it raised and its models can be loaded, the handler of its request or   *)
(* work for its pending request exists, whatever copies of answers and     *)
(* load responses overtake each other.  No timeout would wake it up.       *)
NotStranded ==
  \A g \in Games :
    Live(g) /\ failures[g] = 0 /\ urls[g] = Seat => Carried(g)

(* A client that saw a final message sees no other kind afterwards.  With  *)
(* a single AI server this holds although a late verdict is followed by an *)
(* error message; a second copy of an answer may break it.                 *)
FinishedForGood ==
  \A g \in Games : \A i, j \in DOMAIN feed[g] :
    i < j /\ feed[g][i].finished => feed[g][j].finished

(* A game leaves the tables only after a final message for it was accepted *)
(* by the broker, so its client never polls for ever.                      *)
AnnouncedBeforeDrop ==
  [][\A g \in Games : Live(g) /\ ~Live(g)' =>
       \E i \in DOMAIN feed[g] : feed[g][i].finished]_vars

(* Every requested game comes to an end (a board has at most MaxTurns      *)
(* moves, every AI server answers).                                        *)
GameEnds ==
  \A g \in Games : (g \in requests) ~> (g \notin requests /\ ~Live(g))

(* The server plays matches: the seats alternate, each move comes from the *)
(* model of its seat, a decided or abandoned game stays closed.            *)
Status(g) ==
  CASE g \in requests -> "queued"
    [] g \notin requests /\ ~Live(g) -> "closed"
    [] g \notin requests /\ table[g].phase = "open" -> "playing"
    [] OTHER -> "decided"

Abstract == INSTANCE Match WITH
  status <- [g \in Games |-> Status(g)],
  moves <- [g \in Games |->
              [i \in DOMAIN played[g] |-> played[g][i].ask.model]]

PlaysMatches == Abstract!Spec
=============================================================================
