# A TLA+ verification of TacticAI

TacticAI lets AI models play board games (TicTacToe, Omok, Othello, chess)
against each other. Three kinds of server exchange messages over RabbitMQ and
keep records in MongoDB and MySQL; a separate part of the repository trains the
models. This directory models the servers, the games and the training in TLA+,
checks small instances with TLC and proves theorems about every instance with
TLAPS.

File names below are relative to `src/`; `gm` is `game_server/game_manager.py`.

## 1. Inventory

### How the parts interact

    client --HTTP--> gateway --game_request_queue--> game server
    game server --ai_request.{model} (topic, mandatory)--> AI servers bound to the model
    game server --model_load_queue--> some AI server       (when nobody was bound)
    AI server --ai_response / model_load_response--> response queue of the game server
    game server --game_progress.{game} (topic)--> progress queues --> gateway buffer --> client
    game server --executor threads--> MongoDB, MySQL, or the local queue file

    training --.pth, checkpoints--> JIT converters --> model file behind a url --> AI server

All servers acknowledge messages by hand and run asyncio event loops, the
gateway one in a background thread. State is in memory except for the durable
queues, the databases, the queue file and the model files.

### Components

| component | source | state | operations | module |
|---|---|---|---|---|
| GameManager | gm, `message_schemas.py` | `games`, `game_meta` (turn, seat, pending request) | request, inference response, load response, `proceed_turn`, `broadcast_progress`, `cleanup_game` | `GameManager`, `Match` |
| game server's RabbitMQ client | `game_server/rabbitmq_client.py` | queues, bindings, unacknowledged messages | publish (confirm, return, raise), handle and acknowledge or requeue | `GameManager` |
| board games | `game_server/Game/BoardGame/*.py` | board, `current_player`, castling and en passant rights, passes | `get_valid_moves`, `make_move`, `is_game_over`, `get_winner`, `play`, `select_best_move_from_probabilities` | `BoardGames` with `TicTacToe`, `Omok`, `Othello`, `Chess`, `Grid`; as phases in `GameManager` |
| database queue | `game_server/db_queue.py` | queue file, worker flag, a flush's batch, remaining items, id map | `enqueue`, start of the worker, `_flush_once` | `DbQueue` |
| database access | `game_server/db.py` | two shared connections, the rows | insert and update functions, reconnection | outcomes in `DbQueue`, the shared transaction in `Statistics` |
| statistics of finished games | gm 640-760 | threads, one MySQL transaction | `_update_ai_statistics_for_game`, `update_ai_statistics` | `Statistics` |
| AIManager | `ai_server/ai_manager.py` | loaded models, files on disk | load, download, inference, unload, `cleanup_old_models` | `AIServer`, `Serving` |
| AI server | `ai_server/rabbitmq_client.py`, `main.py` | connection, channel, consumers, bindings, consumer thread | load and inference handlers, safe publish, reconnect loop, start, stop | `AIServer` |
| gateway's RabbitMQ client | `mq_api_gateway/rabbitmq_client.py` | `_consumers`, `_buffers`, `_last_used`, idle task | polls, start and stop of consumers, callback, reconnection | `GatewayBuffer` |
| gateway's HTTP API, metrics | `mq_api_gateway/main.py`, `gateway_metrics.py` | counters in Redis | validation, formatting | not modelled |
| training: game states | `model/*/game_state.py` | board, player, rights, history | `get_valid_moves`, `make_move`, `is_game_over`, `get_winner`, encodings | the second half of `TicTacToe`, `Omok`, `Othello`; `ChessTraining`, `Serving` |
| training: loop and files | `model/*/alphazero.py`, `train.py` | network, optimizer, buffer, best rate; model files, checkpoints | `train`, `save_model`, `_cleanup_old_files`, `save_checkpoint`, `load_checkpoint`, `load_model` | `Training` |
| training: JIT wrappers | `model/*/convert_to_jit*.py` | - | `forward` up to the network | `Serving` |
| training: MCTS and networks | `model/*/alphazero.py` | search trees, tensors | self-play, search | not modelled |
| deployment | `docker-compose*.yaml`, `helm/` | - | - | not modelled |

The `main.py` of all three servers is an unresolved merge that Python does not
parse; where two versions of a function are in one file the models follow what
both do, or, where they differ and it matters, leave the choice open (`stored` in
`AIServer`). TicTacToe's `alphazero.py` and the `train.py` of TicTacToe and Othello do
not parse either; `Training` takes the entry points of Othello from what its
`train.py` plainly means to call and leaves TicTacToe's copy out.

### What is hard, and what correct means

*Game server.* Up to a prefetch count of handlers interleave at every awaited
publication. Responses are redelivered when a handler raises, duplicated by the
topic exchange when several AI servers are bound to a model, overtaken by load
responses, and late for games that are gone. There is no timeout. Correct: a
game is a match of its two models, moving in turn; one answer, one move; final
messages are final; no game waits for an answer nobody will send; a game is
dropped after its client was told.

*Database queue.* Executor threads, a worker (or two: its flag is tested and set
without the lock) and restarts share a file that is read, processed and
overwritten in three steps; database functions enqueue what fails even when the
flush calls them; the flush imports them under a name that exists only where the
server is started from the root of the repository. Correct: what could not be
written is written once, later, where the flush finds what to write with.

*Gateway.* Polls overlap, their HTTP threads give up before their coroutines do,
messages are acknowledged once in memory, and a background task cancels consumers
on a decision taken before several awaits. Correct: the client sees each message,
in order; unused consumers end.

*AI server.* Two threads use one pika connection; reconnecting publishers and the
reconnect loop each register only part of the consumers; models are evicted while
their binding stays. Correct: a bound server can serve; every request is answered.

*Models and games.* A network is trained under one implementation of the rules and
its encoding and plays under another, with a third program (the wrapper) and a
fourth (the preprocessing) in between. Correct: the same moves, the same verdicts,
the same input for the same position.

*Training.* It runs for days and may be interrupted anywhere; files are overwritten
in place and old ones are removed before new ones are complete; three ways to resume
restore different parts of the state. Correct: an interrupted training can go on, and
has not forgotten what it had learned.

*Statistics.* Executor threads share one MySQL connection and its transaction, and
the queue that would keep a failed update is off unless it is switched on. Correct:
each game counts once for each of its models, or its update is known to have failed.

*Boards.* Correct: turns alternate (Othello's pass excepted), a finished game
stays finished, winners agree with the rules, legal moves keep the king safe.

PROJECT.json lists the hazards with the line at which each bites and the
properties that would notice it. Where the code itself does what the hazard fears,
a property without an exception would be false of it: such a hazard has no
property, and its note says which property names it as an exception, and what that
property then shows.

## 2. Modules

| module | role |
|---|---|
| `GameManager`, `MCGameManager` | the game server's games; their instance |
| `Match` | abstract specification of a game, implemented by `GameManager` |
| `GameManagerProofs`, `MatchProofs` | theorems about `GameManager`; with one AI server, and that it implements `Match` |
| `DbQueue`, `MCDbQueue` | the persistent queue of database writes |
| `DbQueueProofs` | theorems about `DbQueue` |
| `GatewayBuffer` | consumers and buffers of the gateway |
| `GatewayBufferProofs` | theorems about `GatewayBuffer` |
| `Grid`, `TicTacToe`, `Omok`, `Othello`, `Chess`, `ChessTraining` | the rules as operators, server's and training code's |
| `BoardGames` | one game played by both implementations in step |
| `Serving`, `MCBoardGames` | what the network is shown; openings |
| `BoardGamesProofs` | theorems about `BoardGames` |
| `AIServer` | an AI server with its broker and disk |
| `AIServerProofs` | theorems about `AIServer` |
| `Training` | the training loop, its files, interruption and resumption |
| `TrainingProofs` | theorems about `Training` |
| `Statistics`, `MCStatistics` | the statistics of finished games in one shared transaction |
| `StatisticsProofs` | theorems about `Statistics` |

`GameManager` composes with the others through what it assumes of them: `AIServer`
shows what is behind `ServeInference`, `ServeLoad` and their fairness, `BoardGames`
what is behind the phases of a board, `GatewayBuffer` what becomes of the progress
messages, `Statistics` and `DbQueue` what becomes of a finished game's records.

### GameManager

An action is the code between two awaits that really suspend, i.e. publications
waiting for the broker's confirm. A handler that waits is a record in
`reporting` (progress publication) or `asking` (request publication); it holds
the response it handles (`from`), so that an exception can put it back.

| TLA+ | code |
|---|---|
| `table[g]` | `games[g]` and `game_meta[g]`, created and deleted together: `phase` (what the board's end looks like), `turn`, `seat` (`current_turn`), `player` (the board's `current_player`), `pending` |
| `AcceptGame` | `handle_game_request` up to its first await |
| `PlayAnswer`, `FailGame`, `IgnoreAnswer`, `OrphanResponse` | the outcomes of `handle_inference_response` |
| `ResumeAfterLoad`, `FailGame`, `OrphanResponse` | those of `handle_model_load_response` |
| `Broadcast`, `ProceedTurn` | `broadcast_progress`, `proceed_turn` up to the publication |
| `Reported`, `ReportRaised` | what follows the progress publication |
| `RequestRouted`, `RequestReturned`, `RequestRaised` | confirm, return (and load request), exception of a request publication |
| `ServeInference`, `ServeLoad` | the AI servers as the game server sees them |

The board is abstracted to its phase: `open`, `over` (`is_game_over` says so at
once), `late` (chess: it says so only after the turn has passed, so that one more
request is sent). A board admits at most `MaxTurns` moves. Chess adds `late`
because `play` asks before `next_turn`.

Abstractions: a request and its response carry the same id (a uuid in the code, a
pair of game and number here); game ids are assumed distinct, though the gateway
takes them from its client without a check; model ids are the numbers AIs have in
the database (recording an answer of a model with another id raises, gm 195); recording, logs and metrics are left out; a publication either raises without effect or succeeds; the loss of the
game server's connection is not modelled.

`Match` is the abstract specification: seats move alternately, each with its own
model, until the game is decided or given up, then it is closed for good.
`GameManager` implements it with the mapping `Abstract` at its end.

### DbQueue

| TLA+ | code |
|---|---|
| `Calls` | the calls of database functions, each in an executor thread: game info, move log, winner, statistics |
| `CallStores`, `CallFails`, `Enqueue` | a database function that succeeds; one that fails and enqueues its record |
| `CheckWorker`, `StartWorker` | the unlocked test and set of `_worker_running` |
| `FlushRead`, `FlushStores`, `FlushFails`, `FlushTruncates`, `FlushWrites`, `FlushRaises` | `_flush_once`: read under the lock, process item by item, truncate and write (or remove) under the lock, or raise and append |
| `Crash` | restart of the process |
| `importable` | the flush finds `game_server.db` (105), or keeps every item by the handler of 155 |

`stored` counts how often the databases hold a record. A winner update needs the
game info of its game; repeating it changes nothing. A call in
`ensure_*_connected` that waits for the database is simply late. A write that
raises is taken to have had no effect. Not modelled: malformed lines, an append
that raises.

Two things are left to the deployment. The setting follows `_get_bool`
(`config.py` 151), whose default applies to unknown words only: unset means off,
whatever the `True` of `config.py` 89 suggests, and without the queue there is nothing to check here, so the
run turns it on. And `import game_server.db` (105) succeeds when the server is
started from the root of the repository, and fails in the image of
`game_server/Dockerfile`, whose working directory and path are `/app`: `importable`
is either from the start and never changes. Where it is false, `Stranded` says that nothing given to the
queue is ever written; `Drains` is about the other case.

### GatewayBuffer

| TLA+ | code |
|---|---|
| `queue`, `unacked`, `consumers` | the progress queue and its consumers at the broker (prefetch 1) |
| `tagged`, `buffer`, `lastUsed` | `_consumers`, `_buffers`, `_last_used` |
| `Call`, `TimeOut`, `DrainBuffer`, `StartConsumer`, `Consume`, `ConsumerStarted`, `StartFailed` | `get_game_progress_messages` and `start_consumer_for_queue` |
| `Deliver`, `Ack` | `_consumer_callback`; the append cannot be interrupted |
| `Age`, `WakeWorker`, `StopNext`, `StopDone` | `_idle_consumer_worker`, `stop_consumer_for_queue` |
| `Reconnect`, `Restart` | `connect_robust` restoring consumers; a new process |

Consumer tags are counted, not named: what matters is whether `_consumers` knows
one. Messages that do not parse, queue creation and `delete_game_progress_queue`
(never called) are left out; the queue is bound from the start.

### BoardGames, the rules, and Serving

| TLA+ | code |
|---|---|
| `Ttt!`, `Omk!`, `Oth!`, `Chs!` `Initial`, `ValidMoves`, `Accepts`, `MakeMove`, `IsGameOver`, `GetWinner` | the subclasses of `BoardGame`: constructor, `get_valid_moves`, the tests and the effect of `make_move`, `is_game_over`, `get_winner` |
| `TrainValidMoves`, `TrainMakeMove`, ... | the same of `model/*/game_state.py`; chess in `ChessTraining` |
| `Select` | all moves `select_best_move_from_probabilities` can return for some policy, with the index files as they are parsed |
| `Play` | `BoardGame.play`: move, test for the end, then the turn |
| `Follow` | `make_move` of the training code, as long as it accepts the moves |
| `BoardState`, `InputArray` | what `proceed_turn` sends and `preprocess_input` makes of it |
| `ForwardStones`, `ForwardChess` | the wrappers' `forward`, up to the network |
| `EncodedStones`, `EncodedChess` | the encodings used in training |

Both implementations of the rules are translated, each in its own terms: `Omok`
remembers its winner on one side and searches the board on the other, chess numbers
its rows and pieces differently. How the training code numbers its moves is not modelled: section 6 has
what differs. Left out: the history of moves, texts, copies, move
numbers and queries that nothing calls.

### AIServer

| TLA+ | code |
|---|---|
| `Take`, `Load`, `Refused`, `Downloaded`, `Cut`, `LoadFile`, `Evict` | `on_message` and `AIManager.load_model` with the download and `cleanup_old_models` |
| `Bind`, `Infer` | the rest of the two handlers |
| `Published`, `NotPublished`, `GiveUp`, `FindClosed`, `ConnectToPublish`, `Ack` | `_safe_publish` with its three attempts, and the acknowledgement on the request's own channel |
| `NoticeLoss`, `Watch`, `Reconnect` | the end of `start_consuming`; `start_reconnect_loop` |
| `Drop`, `Crash`, `Stop` | a lost connection; the end of the process without and with `disconnect`, and the start of the next |

`main.py` has two versions of the server class (130-342, 345-569). They differ in
`start` when the broker is away: the first (180-218) goes on to register its handlers,
which stores them, the second (384-403) only starts the reconnect loop, which then has
no callbacks to register (`rabbitmq_client.py` 96-105). `stored` is either when a
process starts without a connection. Otherwise the model follows what both do and
leaves their metrics out. A consuming thread that dies is dead at once; the thread-unsafety
of pika, other AI servers on the shared load queue, and consumers left behind on
connections the client has lost track of are left out.

### Training

| TLA+ | code |
|---|---|
| `self` | the `AlphaZero` object: what the network has learned, the optimizer and whether it still works on that network, the buffer, the best rate |
| `Collect`, `Train`, `Evaluate`, `WriteBest`, `Open`, `Close`, `Cleanup`, `NextIteration` | the loop of `train`, file by file in the order of `save_model` and `save_checkpoint` |
| `Stop`, `StopCleaning` | Ctrl+C or a crash anywhere, also while a file is open, or when some of the old files are gone |
| `CleanupGoesOn` | Ctrl+C that the bare `except` around `os.remove` swallows (Othello 886-891, Chess 827-832): one old file stays and training goes on |
| `FromScratch`, `LoadCheckpoint`, `LoadModel`, `LoadModelOthello` | the ways `train.py` starts |

The games of an iteration are one entry of the buffer; a network is the set of
iterations it has learned from; an evaluation gives any rate. `_cleanup_old_files` is
one step unless it is interrupted. Omok's `train.py` has no `--load_checkpoint`; the
class has the function, and the model lets it be called. `unswept` counts the stops
since old files were last removed.

### Statistics

| TLA+ | code |
|---|---|
| `End` | the background task, which skips a game that ends while there is no connection |
| `Ping`, `PingFails`, `FindNone`, `Open`, `Retry`, `GiveUp` | per seat, `ensure_mysql_connected`: its test of the connection, and the new one it makes in a later step |
| `UpdateRow`, `InsertRow`, `Commit` | the three statements of `update_ai_statistics` |
| `StatementFails`, `Collide`, `CommitUnknown`, `Raise` | its exception path: rollback, enqueue |
| `usesQueue`, `Enqueue` | `DB_USE_PERSISTENT_QUEUE` (`db.py` 384, 446): off unless set, and then a failed update is only logged |
| `table`, `saved` | what the one connection sees, and what is committed |

A row is the set of games counted in it; sums and averages are left out. Aborted games
come here as draws for both seats, and a model that plays itself is counted for both:
the code does so, and the model has nothing against it. What becomes of a queued update
is in `DbQueue`; `failed` are the updates whose function says that it failed, which with
the queue off is all that remains of them.

## 3. Runs

`MaxTurns`, `MaxFailures`, `MaxItems`, `MaxOutages`, `MaxErrors`, `MaxCrashes`,
`MaxMessages`, `MaxConsumers`, `MaxFaults`, `MaxRequests`, `MaxDrops`, `MaxRestarts`,
`NumIterations`, `MaxStops` and the openings' `plies` are the bounds; each is a
constant of its module and a guard of the actions it limits.

| run | instance | shows |
|---|---|---|
| `gm_single` | 2 games, 2 models, 1 AI server, 2 moves, no raising publication | types; no answer applied twice; each move by the model of its seat; final messages final; every game ends; refinement of `Match` |
| `gm_fanout` | 1 game, 2 models, 2 AI servers, 2 moves, 1 raising publication, url lists with or without entries | no game in the tables without work for its pending request; no game dropped before its client was told |
| `gm_stale` | as `gm_fanout`, 3 moves | **violated**: two AI servers answer one request and both answers are played |
| `dq_queue` | info, winner and statistics of one game; files of up to 3 items; 2 outages, 1 failing overwrite, 1 restart; with and without the import | nothing lost, nothing twice, with the exceptions each names; what can be imported drains, what cannot is stranded |
| `gw_poll` | 1 queue, 2 overlapping polls, 2 messages, 1 fault (late answer, lost connection or restart) | messages in order, repeated only if redelivered; delivered to a client that keeps polling; unused consumers end unless one lost its tag |
| `gw_two` | 2 queues, 1 poll, 1 message each, 1 fault | types; messages lost only if they arrive after their queue was found idle, or with a late answer or a restart |
| `boards` | 19 openings: whole TicTacToe; start and end of Omok (6 x 6) and Othello; chess positions with castling, en passant, pins, promotion, mate, 50 half-moves | the two implementations stay in step, offer the same moves and reach the same verdicts (chess with named exceptions); games that play does not end can go on, games it ends are over; legal moves can be selected and selected ones are accepted; a chess move leaves its king safe |
| `serve` | the same openings | **violated**: the networks do not see the position as in training |
| `ai_server` | 2 models, room for 1, 3 requests, 2 lost connections, 1 restart | requests are answered or still queued; a confirmed model is loaded and bound; keys without a model are those of evicted models; every request answered unless the client tore itself or was started without callbacks |
| `ai_deaf` | 1 model, 1 request, 1 lost connection | **violated**: connected, and consuming nothing for ever |
| `training` | 3 variants, 6 iterations, evaluation every 5th as in the code, buffer of 2, 2 interruptions | a resumed training can be resumed; the last complete checkpoint stays; nothing learned is forgotten; `best_model.pth` never gets worse; each with the exceptions it names; what interruptions leave behind is removed by the next cleaning |
| `stats` | 2 games of the same 2 models, with or without rows, queue on and off, 3 faults | an update is committed, or reported as failed (and queued, where there is a queue), and not both, unless another thread ended the transaction in its midst and something failed; every ended game is counted or kept, or without a queue reported |

Why the bounds are enough. Two games show interference between handlers of
different games; two seats need two models; two AI servers are the fewest that
duplicate a request; two moves reach both seats and a last move, the third is
needed for a wrong one to be followed by another. Three records are the fewest
with a dependency (winner on info) and a counter; two outages let a record fail
in its call and again in the flush; three items in a file are every record once, and
a longer file, which only repetitions make, is not flushed. Two polls overlap, two queues are needed for
a decision that is stale when it is carried out, two messages for an order. A cache
of one evicts with two models, and a third request uses the model that was evicted
while its key stayed; two lost connections let a reconnection be lost again. Six
iterations reach the first evaluation, after the fifth, and exceed the largest bound
of `DiskBounded`, so that files left by two interruptions would be noticed; two interruptions interrupt a resumed training. Two games of the same models share
their rows and their transaction; three faults make a thread fail, the connection
drop and the reconnection fail. The game trees are not searched in full, TicTacToe's
excepted: an opening leads to a position in which the special rules apply and every
continuation of some plies is explored; 6 x 6 is enough for five, and six, in every
direction.

What the exceptions mean. `AppliedOnce`, `SeatsKeepTheirModels` and
`FinishedForGood` hold for one AI server only: with two, the pending id is
compared but not cleared before the await (gm 139, 217), see `gm_stale`. They
also exclude games with a raising publication, whose response is redelivered
after the board has moved. `NothingLost` and `NoDuplicates` of `DbQueue` name an
overlap (an append or a second flush between read and overwrite), a failing
overwrite, and a crash. `NothingLost` of `GatewayBuffer` names messages delivered
after the decision to stop. `SameMoves` lets chess differ in castling (the game
server does not ask for the rook, the training code does not ask for check) and in
captures in passing; `SameVerdict` leaves chess out, whose training code takes every
mate for a draw. `Resumable` and `LastKept` exclude a process that started below the
newest files, since cleaning goes by the iteration's number; `NothingForgotten`
excludes `load_model` and Omok's checkpoint, after which the network is new or the
optimizer works on another one. `Answered` excepts a client that tore its consumers
off and a process that started without callbacks. `CountedOnce` and `Settles` ask for a
queued update only where there is a queue.

Deadlock is not checked: games end, queues drain, clients stop, trainings finish.

## 4. Fairness

* `GameManager`: the broker delivers, a confirmed publication resumes its
  coroutine, an AI server that takes a request answers it (its handlers catch
  exceptions and answer with a failure). No fairness for raising publications.
* `DbQueue`: executor threads run, the worker's loop sleeps a bounded time and
  catches every exception. No fairness for outages, errors and restarts: they are
  finitely many, i.e. the database eventually stays up.
* `GatewayBuffer`: the event loop runs ready coroutines, idle time passes, the
  broker confirms. Delivery is strongly fair: a consumer lives at least the idle
  timeout (30 s), far longer than a delivery takes. Clients have no fairness;
  `Delivered` assumes a polling client as its premise, `IdleStops` an absent one.
* `AIServer`: the consuming thread and the reconnect loop go on; both loops catch
  what their steps raise. No fairness for lost connections and restarts, which are
  finitely many: the broker can be reached again in the end.
* `Statistics`: executor threads go on. Connecting is retried without limit
  (`DB_RECONNECT_MAX_ATTEMPTS` is unlimited by default); its failures are faults and
  finitely many.
* `BoardGames` and `Training` state no liveness: a game asks for its next move from
  outside, and a training is ended by its user.

## 5. Theorems

`GameManagerProofs` proves, for any games, models, servers, board sizes and
numbers of failures, from `GMAssumption` (bounds are naturals, verdicts are
verdicts) alone:

* `TypeCorrect`: `Spec => []TypeOK`.
* `NeverStranded`: `Spec => []NotStranded`: a game in the tables whose models have
  urls and for which no publication raised has a handler, a request, a load
  request or a response on the way that will continue it. There is no timeout in
  the code, so this is all that keeps games alive.
* `ToldFirst`: `Spec => AnnouncedBeforeDrop`: a handler that will drop its game and
  whose publication was accepted has a final message on the feed (`ToldBeforeDrop`).

`NotStranded` is not inductive. `CarryInv` adds `TypeOK` and that a handler whose
publication raised has been counted (`RaisedIsCounted`), that waiting handlers
and pending requests belong to their game (`HandlersOwnGame`, `PendingOwnGame`),
and that a request for a seat with a url knows it (`UrlIsKnown`), without which a
returned request would not become a load request. The argument follows the work:
each handler takes a message away only when it puts the next one in place or
makes the game leave the tables (`CarriedKept`, `FramedStep`); the cases in which a
new request replaces the pending one are `ProceedingStep`.

`MatchProofs` goes on for one AI server (`OneServer`: any two servers are the same),
with any games, models, board sizes, redeliveries and, but for the last theorem,
failures:

* `FinalIsFinal`: `Spec => []FinishedForGood`, `AnswersPlayedOnce`: `Spec =>
  []AppliedOnce`, `SeatsKept`: `Spec => []SeatsKeepTheirModels`.
* `ImplementsMatch`: `MaxFailures = 0` implies `Spec => PlaysMatches`, the refinement
  of `Match`.

The hypotheses are those the code needs: `gm_stale` is the counterexample with two
servers, and a handler that raises has its response redelivered after it was
applied. The argument is about tokens: with one server at most one waiting handler,
queued request, load order or response is on the way for a game (`TokenInv`), each
handler takes the token and passes on at most one (`Handover`). So a
game whose final message was sent has no second handler to say otherwise (`FeedInv`),
and what is on the way is the pending request, for the model whose turn it is and
newer than every answer that was played (`GameInv`); this ties the seat of the meta
data to the player of the board and both to the number of moves, which is what the
refinement mapping needs.

`DbQueueProofs` proves, for any calls, outages, errors and crashes:

* `TypeCorrect`: `Spec => []TypeOK`; `WrittenOnce`: `Spec => []NoDuplicates`.
* `NoRecordLost`: `Spec => []NothingLost` if the queue is switched on (`UsesQueue`;
  without it a record whose write fails is dropped by design).
* `KeptForNothing`: `UsesQueue => (Spec => []Stranded)`: where the import fails, what was given to the
  queue is never written, and is kept for ever.

A flush reads the file, writes item by item without the lock and overwrites the file
at its end. What it holds is in the file until then, and what is in the file is
stored or in its hands, so that the file can be truncated (`Covered`). For
`NoDuplicates` a held record is held once and not stored (`HeldOnce`), and at rest the
same is true of the file (`FiledOnce`): during a flush it is false, because a write
that fails is enqueued a second time. Two workers flush together only if `excuse`
says so (`OneBusy`).

`GatewayBufferProofs` proves, for any queues, polls and messages, from `GBAssumption`:

* `TypeCorrect`: `Spec => []TypeOK`. The bound on `consumers` is not inductive: the
  consumer that has a tag, the one that a start has registered but not tagged and the
  one that is being cancelled are different, and starts that have still to register
  have been allowed for (`Counted`).
* `NoMessageLost`: `Spec => []NothingLost`, with the part that what is in the buffer
  of a queue that was found idle came afterwards (`KeptAt`).
* `ProgressInOrder`: `Spec => []SeenInOrder`: along the way from the broker by the
  buffer to the client nothing is behind a later message unless it was returned to
  the queue (`OrderAt`).

`StatisticsProofs` proves, for any games, AIs and number of failures, from
`StatisticsAssumption`:

* `TypeCorrect`: `Spec => []TypeOK`.
* `EveryUpdateCounted`: `Spec => []CountedOnce`, with the queue on or off: once its
  thread has returned, an update is committed or reported as failed and not both,
  except where another thread ended its transaction after a failure; what failed is
  queued where there is a queue.

`CountedOnce` speaks of threads that have returned; what makes it true happens
before. `IInv` adds: what a thread is about to commit is in the table unless
another thread has undone it (`AtCommit`); what is in the table and not committed
belongs to a thread at its commit (`Uncommitted`), so that a commit saves nothing
of a thread that might still fail unnoticed; an update is nowhere before its thread has
executed it (`NotYet`); and when nothing has failed and every AI has a row, the
connection is the first one and nothing is queued or undone (`NothingFails`), which
is the part of the property that admits no exception.

`AIServerProofs` proves, for any models, cache sizes, lost connections and
restarts:

* `NoRequestLost`: `Spec => []NothingLost`. The acknowledgement removes a request
  although its answer may have been given up. The request in hand is the first of
  its queue (`InHand`), and on its own channel, as long as it is alive, the first
  attempt to publish succeeds and comes before the acknowledgement (`Heard`);
  a publication fails only when that channel is dead, and then the acknowledgement
  is without effect. A channel that the client takes for closed is closed (`Aware`).
* `TypeCorrect`: `Spec => []TypeOK`: the cache has no model twice and at most
  `MaxLoaded`, since a model being downloaded is not loaded (`CacheOnce`), and a
  connecting thread has an attempt left (`Attempts`).
* `KeysExplained`: `Spec => []RoutedOrEvicted`, and `PromisesKept`:
  `Spec => KeepsPromises`. They use `AIServerAssumption` (`MaxLoaded >= 1`): the
  cache would otherwise give up the model it has just loaded. Their invariant
  `CacheInv` says that a bound key was loaded by this process, that what is loaded
  has a whole file, that queued inference requests came by a key (`QueuedByKey`)
  and that a handler about to confirm or answer still has the model and the key
  (`AnswerIsTrue`): handlers of one thread do not interleave.

`TrainingProofs` proves, for any number of iterations, interruptions, win rates and
size of the buffer, from `TrainingAssumption`:

* `TypeCorrect`: `Spec => []TypeOK`, with the buffer within its bound.
* `CanResume`: `Spec => []Resumable`, `LastStays`: `Spec => []LastKept`. While a resumed
  training runs, the checkpoint of the iteration before is whole (`OnCheckpoint`), and
  no file has a later number unless the process started below it (`NoneLater`):
  cleaning goes by numbers, keeps two checkpoints, and comes before the new one is
  written (`LatestKept`).
* `NoneForgotten`: `Spec => []NothingForgotten`: the network in memory has learned from
  every iteration so far and its optimizer is linked to it (`Learning`).
* `BestKept`: `Spec => BestNeverWorse`: the process knows a rate at least as good as the
  one on the disk (`RateKnown`); a torn file has no rate (`BestTorn`).
* `FilesBounded`: `Spec => []DiskBounded`. The bound is sharper before a kind's file of
  the iteration is written than afterwards (`Due`), and a file that is open is there,
  so closing it adds none. Each stop allows one more file of a kind, and cleaning takes
  the allowance back; a removal that Ctrl+C skipped counts as one.

`BoardGamesProofs` proves, for any openings and plies and any Omok board of at least
5 x 5, from `BoardGamesAssumption` alone:

* `TypeCorrect`: `Spec => []TypeOK`; `SeesTheSame`: `Spec => []InStep`.
* `VerdictsAgree`: `Spec => []SameVerdict`, `OverIsOver`: `Spec => []EndIsReal`,
  `GoesOn`: `Spec => []EndNoticed`.
* `AskedAndAccepted`: `Spec => []Selectable`.
* `KingStaysSafe`: `Spec => KingSafe`.
* `MovesAgree`: `Spec => []SameMoves`: the two generators of moves offer the same, chess
  with the differences the property names.

The inductive invariant `Inv` has a part for each game, which says that what an
implementation remembers beside its board is what the board shows:

* `TttInv`: at most the player who has just moved has a line.
* `OmkInv`: the server's `winner`, computed by counting from the last stone, is the
  colour that has five in a row anywhere (`HasFive`), which is what the training code
  searches for: a new five goes through the new stone (`CountIs` and what follows).
  The count is the greatest number of cells that all hold the stone; that a bounded set of numbers has
  a greatest member is proved from `FiniteSetTheorems` (`LeastMember`,
  `GreatestMember`), which takes the place of an induction.
* `OthInv`: a player who follows a pass has a move, so the passes never exceed one in
  a game that goes on. The two ways to find flips are one formula (`Turns`).
* `ChsInv`: a king that has not moved is at home (`KingHome`), the square in passing is
  on the third or sixth row, and board, rights and square correspond to the training
  code's (`ChessInStep`).

For `KingSafe` the question is when a man attacks a square of the board after the
real move but not after the one that the test for check makes. They differ when a
move takes in passing (an exception), promotes (the pawn itself does not shield
less), or castles. Then the only man that stands anew beside the king is the one from
the corner: on the king's side it would have attacked the king's square from there
already, on the queen's side so would any but a king (`CastlesSafely`). What remains
is the other king in the corner, put beside this one, the second exception of the
property.

For `SameMoves` in chess the squares go through `Across` and the men through `Code`, so that lines
and the squares between them correspond (`AcrossLines`, `AcrossClear`), and with them
the ways of every man (`SameSteps`). The training code's test for check leaves out the
squares of `current_player`, not of the attacked player. After a move that makes no
difference (`TrnCheckIs`), and both tests see the same attackers although one board
has a pawn where the other has the queen it became (`SameTest`). Before a move the
test finds nothing whatever the position (`OwnCheckUnseen`); so the training code
castles out of check, and its king's square is never under attack. For empty squares
on the home row the two differ by pawns alone: the training code counts a pawn's step
forward, not its diagonals. A pawn one step in front attacks the square beside, and
next to each square of a castling lies the king or another one that must be safe
(`SafeHome`); so what the game server castles with a rook, the training code does
(`CastlesTrained`). The other way round the rights correspond, and a king that steps
aside is attacked along its row only if it was before (`StepsAside`,
`TrainedCastles`).

Only model-checked is liveness (`GameEnds`, `Drains`, `Delivered`, `IdleStops`,
`Answered`, `Settles`), which is beyond TLAPS here; every safety property of the passing
runs has its theorem. What the runs `gm_stale`, `serve` and `ai_deaf` refute is of
course not proved.

## 6. Findings

Each has a run whose counterexample shows it; PROJECT.json quotes the lines.

1. `gm_stale`: two AI servers with the same model both answer a request and both
   answers are applied, the second as a move of the other seat (gm 139-153).
2. `serve`: the seat is sent as 0 or 1, the wrappers compare cells with 1 and -1.
   Seat 0 sees the empty cells as its own stones and seat 1 plays as the first
   player; in Omok the board is shifted by one cell besides.
3. `ai_deaf`: a publication that finds the channel closed connects without
   registering consumers (`ai_server/rabbitmq_client.py` 224); the reconnect loop
   sees an open channel and the server consumes nothing, for ever.

Noted without a run, most of them as named exceptions of properties:

* Records enqueued during a flush are overwritten (`db_queue.py` 76, 163); a restart
  leaves the queue file unread until another write fails (43). In the image built
  from `game_server/`, `import game_server.db` (105) has no package to import from:
  every flush keeps every item (`Stranded`).
* The persistent queue is off unless its variable is set, although its default is
  written `True` (`config.py` 89, 151): a failed update of the statistics is then lost.
* An AI server whose second version of `start` finds no broker never consumes
  (`ai_server/main.py` 400).
* Stopping an idle consumer discards messages that were acknowledged meanwhile
  (`mq_api_gateway/rabbitmq_client.py` 200).
* A thread's rollback or reconnection discards what other threads have executed;
  their commits succeed with nothing to commit. While one reconnects, a game that
  ends skips its statistics (gm 656).
* Chess on the game server tests for mate and stalemate before the turn passes: a
  mate is never noticed, and a mover without a further move of his own ends the game.
  It castles without a rook, with whatever stands on the corner: a king that has taken
  the rook there is put beside the castled king, which is then attacked. Its test for
  check leaves a pawn taken in passing on the board, and no policy index selects a
  promotion. In the training code a mate is a
  draw, and the rule of repetition hardly fires.
* Othello's training code numbers the pass 0 and the cells from 1, the game server's
  index file numbers the cells from 0 and the pass 64: two tables that differ
  everywhere, so there is nothing about behaviours to check. TicTacToe's agree, and Omok
  has no index file.
* A model's routing key stays bound after it was evicted, and its file is never
  removed though a comment says so (`ai_manager.py` 334).
* Othello's `load_model` never reads the network; Chess and Omok replace the network
  but not the optimizer's parameters, so nothing is learned afterwards. Omok's
  checkpoint holds no network. Self-play and evaluation workers use a network that has
  learned nothing. `model_iteration_*.pth` matches the optimizers' files too, so one
  model is kept where the comment says two.

## 7. Plan

Left: the game server's own lost connection, with the exclusive response queue.

## 8. Not modelled, and why

* Networks, losses, tensors and tree searches are numerical: they hold no state that
  other parts share and are not interrupted by anything.
* HTTP validation and formatting, Redis counters, metrics and logs are input and
  output.
* Configuration and start-up have no state after start.
* Helm charts, compose files and workflows are configuration.
* TicTacToe's `alphazero.py` does not parse; where its text is readable it repeats the
  other variants.
