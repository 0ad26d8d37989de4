----------------------------- MODULE Statistics -----------------------------
(***************************************************************************)
(* The statistics of finished games (game_manager.py, db.py).              *)
(*                                                                         *)
(* A game that ends starts a background task, which has an executor thread *)
(* count the game for one AI and then for the other.  All these threads    *)
(* use one MySQL connection, and with it one transaction: what one of them *)
(* commits or rolls back are the statements of all.  A thread stands       *)
(* between two of its calls to the driver.                                 *)
(*                                                                         *)
(* The persistent queue that takes updates which failed can be switched    *)
(* off, and is when its variable is not set: the model starts either way.  *)
(*                                                                         *)
(* A row of the table is the set of games counted in it: an update belongs *)
(* to one game and seat, so it is enough to keep the set of updates.  What *)
(* becomes of the updates in the persistent queue is DbQueue's matter.     *)
(***************************************************************************)
EXTENDS Naturals

CONSTANTS
  Games,     \* the games that end
  Ais,       \* model ids
  Plays,     \* [Games -> the AIs of its two seats]
  MaxFaults  \* bound: lost connections, failed attempts to connect, collisions

ASSUME StatisticsAssumption ==
  /\ Plays \in [Games -> [1 .. 2 -> Ais]]
  /\ MaxFaults \in Nat

Updates == Games \X (1 .. 2)
Ai(u) == Plays[u[1]][u[2]]

VARIABLES
  usesQueue, \* DB_USE_PERSISTENT_QUEUE, as _get_bool reads it
  conn,    \* mysql_conn: "up", "down" (it is dead) or "none"
  object,  \* how many connection objects there have been
  known,   \* the AIs that had a row at first
  table,   \* what the connection sees: AIs with a row, updates counted
  saved,   \* what is committed of it
  thread,  \* game -> seat it counts, where it is, the object of its cursor
  queued,  \* updates given to the persistent queue
  faults,
  failed,    \* history: updates whose function has returned False
  skipped,   \* history: games whose task found no connection
  disturbed, \* history: updates under way when another thread ended the
             \* transaction without committing, or connected
  exposed    \* history: updates under way when another thread committed, or
             \* committed by a call that raised

fixed == <<usesQueue, known>>
shared == <<conn, object, table, saved>>
outcome == <<queued, failed>>
history == <<skipped, disturbed, exposed>>
vars == <<fixed, shared, thread, outcome, faults, history>>

Update(g) == <<g, thread[g].seat>>
(* The thread has a cursor and has not returned.                           *)
Busy(g) == thread[g].at \in {"update", "insert", "commit"}
Others(g) == {Update(h) : h \in {h \in Games \ {g} : Busy(h)}}

Init ==
  /\ usesQueue \in BOOLEAN
  /\ conn = "up" /\ object = 1
  /\ known \in SUBSET Ais
  /\ table = [rows |-> known, counted |-> {}] /\ saved = table
  /\ thread = [g \in Games |-> [seat |-> 0, at |-> "idle", cursor |-> 0]]
  /\ queued = {} /\ failed = {} /\ faults = 0
  /\ skipped = {} /\ disturbed = {} /\ exposed = {}

-----------------------------------------------------------------------------
Goto(g, at) == thread' = [thread EXCEPT ![g].at = at]

(* The function returns, and the task goes on to the next seat.            *)
Return(g) ==
  thread' = [thread EXCEPT ![g].seat = @ + 1, ![g].at = "idle"]

Fault == faults < MaxFaults /\ faults' = faults + 1

(* The end of an update that did not succeed: with the queue on it is kept *)
(* for later, otherwise the log is all that is left of it.                 *)
Enqueue(g) ==
  /\ queued' = IF usesQueue THEN queued \cup {Update(g)} ELSE queued
  /\ failed' = failed \cup {Update(g)}

(* cleanup_game and the start of _update_ai_statistics_for_game: while     *)
(* another thread is connecting there is no connection object.             *)
End(g) ==
  /\ thread[g].seat = 0
  /\ IF conn = "none"
     THEN /\ thread' = [thread EXCEPT ![g].seat = 3]
          /\ skipped' = skipped \cup {g}
     ELSE /\ thread' = [thread EXCEPT ![g].seat = 1]
          /\ UNCHANGED skipped
  /\ UNCHANGED <<fixed, shared, outcome, faults, disturbed, exposed>>

-----------------------------------------------------------------------------
(* ensure_mysql_connected, then a cursor.                                  *)
Starts(g) == thread[g].seat \in 1 .. 2 /\ thread[g].at = "idle"
WithCursor(g) ==
  thread' = [thread EXCEPT ![g].at = "update", ![g].cursor = object']

(* The transaction ends without a commit, for all.                         *)
Discard(g) == table' = saved /\ disturbed' = disturbed \cup Others(g)

(* A dead connection is revived by the ping as the same object, with a new *)
(* transaction.                                                            *)
Ping(g) ==
  /\ Starts(g) /\ conn # "none"
  /\ conn' = "up" /\ UNCHANGED object
  /\ WithCursor(g)
  /\ disturbed' = IF conn = "up" THEN disturbed ELSE disturbed \cup Others(g)
  /\ UNCHANGED <<fixed, table, saved, outcome, faults, skipped, exposed>>

(* The ping fails, or collides with a call of another thread, which the    *)
(* driver does not expect: the connection is closed for all.               *)
PingFails(g) ==
  /\ Starts(g) /\ conn # "none"
  /\ conn = "up" => Others(g) # {}
  /\ Fault
  /\ conn' = "none" /\ Goto(g, "connecting")
  /\ Discard(g)
  /\ UNCHANGED <<fixed, object, saved, outcome, skipped, exposed>>

FindNone(g) ==
  /\ Starts(g) /\ conn = "none"
  /\ Goto(g, "connecting")
  /\ UNCHANGED <<fixed, shared, outcome, faults, history>>

(* The new connection takes the place of whatever there is by now: one     *)
(* that another thread has opened meanwhile is dropped with its statements.*)
Open(g) ==
  /\ thread[g].at = "connecting"
  /\ conn' = "up" /\ object' = object + 1
  /\ WithCursor(g)
  /\ Discard(g)
  /\ UNCHANGED <<fixed, saved, outcome, faults, skipped, exposed>>

(* It cannot be opened: the connection is set to None, again for all.      *)
OpenFails(g) ==
  /\ thread[g].at = "connecting"
  /\ Fault
  /\ conn' = "none"
  /\ Discard(g)
  /\ UNCHANGED <<fixed, object, saved, skipped, exposed>>

Retry(g) == OpenFails(g) /\ Goto(g, "idle") /\ UNCHANGED outcome

(* Where DB_RECONNECT_MAX_ATTEMPTS is not negative, the last attempt.      *)
GiveUp(g) == OpenFails(g) /\ Return(g) /\ Enqueue(g)

-----------------------------------------------------------------------------
(* Mutant of Raise: what is rolled back is not kept for later.             *)
Bug_Raise(g) ==
  /\ Return(g)
  /\ failed' = failed \cup {Update(g)} /\ UNCHANGED queued
  /\ Discard(g)
  /\ UNCHANGED <<fixed, conn, object, saved, skipped, exposed>>

(* A call raises: rollback, which on a dead connection raises too and has  *)
(* nothing to undo, and the update goes to the queue if there is one.      *)
Raise(g) ==
  /\ Return(g)
  /\ Enqueue(g)
  /\ Discard(g)
  /\ UNCHANGED <<fixed, conn, object, saved, skipped, exposed>>

(* The thread's cursor belongs to the connection object there is.          *)
Usable(g) == conn = "up" /\ thread[g].cursor = object

UpdateRow(g) ==
  /\ thread[g].at = "update" /\ Usable(g)
  /\ IF Ai(Update(g)) \in table.rows
     THEN /\ table' = [table EXCEPT !.counted = @ \cup {Update(g)}]
          /\ Goto(g, "commit")
     ELSE Goto(g, "insert") /\ UNCHANGED table
  /\ UNCHANGED <<fixed, conn, object, saved, outcome, faults, history>>

(* No row was updated: the game is the first of its AI.                    *)
InsertRow(g) ==
  /\ thread[g].at = "insert" /\ Usable(g)
  /\ Ai(Update(g)) \notin table.rows
  /\ table' = [rows |-> table.rows \cup {Ai(Update(g))},
               counted |-> table.counted \cup {Update(g)}]
  /\ Goto(g, "commit")
  /\ UNCHANGED <<fixed, conn, object, saved, outcome, faults, history>>

(* Mutant of Commit: it makes the thread's own update durable, whatever has *)
(* become of the transaction.                                              *)
Bug_OwnCommit(g) ==
  /\ thread[g].at = "commit" /\ conn = "up"
  /\ saved' = [saved EXCEPT !.counted = @ \cup {Update(g)}]
  /\ Return(g)
  /\ exposed' = exposed \cup Others(g)
  /\ UNCHANGED <<fixed, conn, object, table, outcome, faults, skipped, disturbed>>

(* The commit goes to the connection there is, whoever made it.  To close  *)
(* a cursor whose own connection is gone may raise, after the commit.      *)
Commit(g) ==
  /\ thread[g].at = "commit" /\ conn = "up"
  /\ saved' = table
  /\ Return(g)
  /\ \/ UNCHANGED outcome
     \/ ~ Usable(g) /\ Enqueue(g)
  /\ exposed' = exposed \cup Others(g)
  /\ UNCHANGED <<fixed, conn, object, table, faults, skipped, disturbed>>

(* Mutant of StatementFails: an insertion waits for the row to go away.    *)
Bug_InsertWaits(g) ==
  /\ \/ thread[g].at \in {"update", "insert"} /\ ~Usable(g)
     \/ thread[g].at = "commit" /\ conn # "up"
  /\ Raise(g)
  /\ UNCHANGED faults

(* The row has been inserted by another thread since, or the connection    *)
(* is not the cursor's.                                                    *)
StatementFails(g) ==
  /\ \/ thread[g].at \in {"update", "insert"} /\ ~Usable(g)
     \/ thread[g].at = "insert" /\ Ai(Update(g)) \in table.rows
     \/ thread[g].at = "commit" /\ conn # "up"
  /\ Raise(g)
  /\ UNCHANGED faults

(* Two threads in one connection at the same time.                         *)
Collide(g) ==
  /\ Busy(g) /\ Others(g) # {} /\ conn = "up"
  /\ Fault
  /\ Raise(g)

(* The connection is lost before the reply to a commit.                    *)
CommitUnknown(g) ==
  /\ thread[g].at = "commit" /\ conn = "up"
  /\ Fault
  /\ conn' = "down"
  /\ saved' = table
  /\ Return(g)
  /\ Enqueue(g)
  /\ exposed' = exposed \cup Others(g) \cup {Update(g)}
  /\ UNCHANGED <<fixed, object, table, skipped, disturbed>>

Drop ==
  /\ conn = "up" /\ Fault
  /\ conn' = "down"
  /\ table' = saved
  /\ UNCHANGED <<fixed, object, saved, thread, outcome, history>>

Thread(g) ==
  \/ Ping(g) \/ FindNone(g) \/ Open(g)
  \/ UpdateRow(g) \/ InsertRow(g) \/ Commit(g) \/ StatementFails(g)

Breaks(g) ==
  PingFails(g) \/ Retry(g) \/ GiveUp(g) \/ Collide(g) \/ CommitUnknown(g)

Next == (\E g \in Games : End(g) \/ Thread(g) \/ Breaks(g)) \/ Drop

Spec == Init /\ [][Next]_vars

(* Threads go on, and the database can be reached again in the end.        *)
FairSpec == Spec /\ \A g \in Games : WF_vars(Thread(g))

-----------------------------------------------------------------------------
(* Types, and that a transaction only adds to what is committed.           *)
TypeOK ==
  /\ conn \in {"up", "down", "none"} /\ object \in Nat \ {0}
  /\ usesQueue \in BOOLEAN /\ known \in SUBSET Ais
  /\ {table, saved} \subseteq [rows : SUBSET Ais, counted : SUBSET Updates]
  /\ saved.rows \subseteq table.rows /\ saved.counted \subseteq table.counted
  /\ thread \in [Games -> [seat : 0 .. 3, cursor : 0 .. object,
                           at : {"idle", "connecting", "update", "insert",
                                 "commit"}]]
  /\ conn # "up" => table = saved
  /\ queued \subseteq Updates /\ failed \subseteq Updates
  /\ faults \in 0 .. MaxFaults
  /\ skipped \subseteq Games
  /\ disturbed \subseteq Updates /\ exposed \subseteq Updates

(* The game has been through this update of its statistics.                *)
Passed(u) == thread[u[1]].seat > u[2] /\ u[1] \notin skipped

(* Every update is committed, or its function says that it failed, and not *)
(* both, although the threads share a transaction that each of them commits*)
(* and rolls back as its own.  Where that does harm, another thread must   *)
(* have ended the transaction while this one was in it, and something must *)
(* have failed: the connection, or the insertion of a row two threads had  *)
(* found missing.  With the queue on, what failed is queued; with the queue*)
(* off it is lost, but nothing is unless something failed.                 *)
CountedOnce ==
  \A u \in Updates : Passed(u) =>
    /\ u \notin saved.counted => u \in disturbed \cup failed
    /\ u \in saved.counted \cap failed => u \in exposed
    /\ u \in failed /\ usesQueue => u \in queued
    /\ u \notin saved.counted \/ u \in failed => faults > 0 \/ known # Ais

(* A game that ends is counted for both players in the end, or what failed *)
(* of it is kept for later where there is a queue.                         *)
Settles ==
  \A g \in Games :
    (thread[g].seat = 1) ~>
      \A s \in 1 .. 2 :
        <<g, s>> \in saved.counted \cup disturbed
                       \cup (IF usesQueue THEN queued ELSE failed)
=============================================================================
