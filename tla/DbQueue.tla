------------------------------ MODULE DbQueue ------------------------------
(***************************************************************************)
(* The persistent queue of database writes (db_queue.py) and the database  *)
(* functions that fill it (db.py).                                         *)
(*                                                                         *)
(* Each call of a database function runs in an executor thread.  A call    *)
(* that fails appends its record to a file; the first append starts a      *)
(* daemon thread that from then on reads the whole file, repeats the       *)
(* writes, and overwrites the file with what failed again.  The lock is    *)
(* held for an append, a read and an overwrite, not from read to overwrite.*)
(*                                                                         *)
(* A write fails when the outage hits it; a call that waits in             *)
(* ensure_mongodb_connected for the database to return is simply late.     *)
(*                                                                         *)
(* The flush imports the database functions as game_server.db.  Whether    *)
(* that module is found depends on where the server is started: from the   *)
(* root of the repository it is, in the image of its Dockerfile it is not. *)
(***************************************************************************)
EXTENDS Naturals, Sequences

CONSTANTS
  Calls,        \* the calls of database functions, as the records they write
  Setting,      \* environment variable DB_USE_PERSISTENT_QUEUE
  MaxItems,     \* bound: items in a file that is flushed
  MaxOutages,   \* bound: writes that fail
  MaxErrors,    \* bound: overwrites of the file that raise
  MaxCrashes    \* bound: restarts of the game server

Kind == {"info", "log", "winner", "stats"}

ASSUME DQAssumption ==
  /\ \A c \in Calls : c.kind \in Kind
  /\ Setting \in {"unset", "on", "off", "other"}
  /\ MaxItems \in Nat \ {0}
  /\ MaxOutages \in Nat /\ MaxErrors \in Nat /\ MaxCrashes \in Nat

VARIABLES
  file,      \* the items in the queue file
  stored,    \* record -> times the databases hold it
  call,      \* call -> progress of its thread
  running,   \* _worker_running
  worker,    \* thread that started it -> phase of a worker
  batch,     \* worker -> items still to be processed
  remaining, \* worker -> items that failed
  mapped,    \* worker -> info records in client_map
  importable, \* the flush finds the module game_server.db
  outages, errors, crashes,
  given,     \* history: records of calls that failed
  excuse     \* history: what happened that the file format cannot survive

vars == <<file, stored, call, running, worker, batch, remaining, mapped,
          importable, outages, errors, crashes, given, excuse>>

-----------------------------------------------------------------------------
(* Config._get_bool: the default is used for unknown words only.           *)
GetBool(setting, default) ==
  setting = "on" \/ (setting = "other" /\ default)
UsesQueue == GetBool(Setting, TRUE)

(* "spoiled": the flush has replaced the client id of a second info item   *)
(* by a field GameInfoSchema does not take.                                *)
Item == [rec : Calls, spoiled : BOOLEAN]
Fresh(rec) == [rec |-> rec, spoiled |-> FALSE]

InfoOf(rec) == {r \in Calls : r.kind = "info" /\ r.game = rec.game}
Busy == {w \in Calls : worker[w] \in {"flushing", "writing"}}
Unlocked == \A w \in Calls : worker[w] # "writing"

Init ==
  /\ file = <<>>
  /\ stored = [c \in Calls |-> 0]
  /\ call = [c \in Calls |-> "calling"]
  /\ running = FALSE
  /\ worker = [c \in Calls |-> "none"]
  /\ batch = [c \in Calls |-> <<>>]
  /\ remaining = [c \in Calls |-> <<>>]
  /\ mapped = [c \in Calls |-> {}]
  /\ importable \in BOOLEAN
  /\ outages = 0 /\ errors = 0 /\ crashes = 0
  /\ given = {} /\ excuse = {}

(* update_game_info_winner needs the document of its game.                 *)
Findable(rec) ==
  rec.kind = "winner" => \E i \in InfoOf(rec) : stored[i] > 0

(* A repeated insert or counter update counts, a repeated winner does not. *)
Store(rec) ==
  stored' = [stored EXCEPT ![rec] = IF rec.kind = "winner" THEN 1 ELSE @ + 1]

(* The write raises or finds no document.                                  *)
WriteFails(rec) ==
  \/ /\ outages < MaxOutages
     /\ outages' = outages + 1
  \/ /\ ~Findable(rec)
     /\ UNCHANGED outages

(* Mutant of Enqueue: the payload is appended without its wrapper.         *)
Bug_BarePayload(rec) == file' = IF UsesQueue THEN Append(file, rec) ELSE file

Enqueue(rec) == file' = IF UsesQueue THEN Append(file, Fresh(rec)) ELSE file

-----------------------------------------------------------------------------
(* A database function called by the game server.                          *)
CallStores(c) ==
  /\ call[c] = "calling" /\ Findable(c)
  /\ Store(c)
  /\ call' = [call EXCEPT ![c] = "done"]
  /\ UNCHANGED <<file, running, worker, batch, remaining, mapped, outages,
                 importable, errors, crashes, given, excuse>>

CallFails(c) ==
  /\ call[c] = "calling" /\ Unlocked
  /\ WriteFails(c)
  /\ Enqueue(c)
  /\ call' = [call EXCEPT ![c] = IF UsesQueue THEN "enqueued" ELSE "done"]
  /\ given' = given \cup {c}
  /\ excuse' = IF Busy # {} THEN excuse \cup {"overlap"} ELSE excuse
  /\ UNCHANGED <<stored, running, worker, batch, remaining, mapped, importable,
                 errors, crashes>>

(* _start_worker_if_needed tests and sets the flag without the lock.       *)
CheckWorker(c) ==
  /\ call[c] = "enqueued"
  /\ call' = [call EXCEPT ![c] = IF running THEN "done" ELSE "starting"]
  /\ UNCHANGED <<file, stored, running, worker, batch, remaining, mapped,
                 outages, importable, errors, crashes, given, excuse>>

StartWorker(c) ==
  /\ call[c] = "starting"
  /\ call' = [call EXCEPT ![c] = "done"]
  /\ running' = TRUE
  /\ worker' = [worker EXCEPT ![c] = "idle"]
  /\ UNCHANGED <<file, stored, batch, remaining, mapped, outages, importable,
                 errors, crashes, given, excuse>>

-----------------------------------------------------------------------------
(* _flush_once: read all items ...                                         *)
FlushRead(w) ==
  /\ worker[w] = "idle" /\ Unlocked
  /\ file # <<>> /\ Len(file) <= MaxItems
  /\ worker' = [worker EXCEPT ![w] = "flushing"]
  /\ batch' = [batch EXCEPT ![w] = file]
  /\ remaining' = [remaining EXCEPT ![w] = <<>>]
  /\ mapped' = [mapped EXCEPT ![w] = {}]
  /\ excuse' = IF Busy # {} THEN excuse \cup {"overlap"} ELSE excuse
  /\ UNCHANGED <<file, stored, call, running, outages, importable, errors,
                 crashes, given>>

(* An info item whose client id this flush has already inserted is turned  *)
(* into one that the schema refuses, now and in every later flush.         *)
Spoils(w, item) == item.spoiled \/ item.rec \in mapped[w]

(* Mutant of FlushStores: every item goes to remaining.                    *)
Bug_StoredKept(w) ==
  /\ worker[w] = "flushing" /\ batch[w] # <<>>
  /\ LET item == Head(batch[w]) IN
     /\ ~Spoils(w, item) /\ Findable(item.rec)
     /\ Store(item.rec)
     /\ remaining' = [remaining EXCEPT ![w] = Append(@, item)]
  /\ batch' = [batch EXCEPT ![w] = Tail(@)]
  /\ UNCHANGED <<file, call, running, worker, mapped, outages, importable,
                 errors, crashes, given, excuse>>

(* Mutant of FlushStores: the import is not needed.                        *)
Bug_StoresAnyway(w) ==
  /\ worker[w] = "flushing" /\ batch[w] # <<>>
  /\ Findable(Head(batch[w]).rec)
  /\ Store(Head(batch[w]).rec)
  /\ batch' = [batch EXCEPT ![w] = Tail(@)]
  /\ UNCHANGED <<file, call, running, worker, remaining, mapped, outages,
                 importable, errors, crashes, given, excuse>>

(* ... repeat the writes one by one ...                                    *)
FlushStores(w) ==
  /\ worker[w] = "flushing" /\ batch[w] # <<>>
  /\ importable
  /\ LET item == Head(batch[w]) IN
     /\ ~Spoils(w, item) /\ Findable(item.rec)
     /\ Store(item.rec)
     /\ mapped' = [mapped EXCEPT ![w] = IF item.rec.kind = "info"
                                        THEN @ \cup {item.rec} ELSE @]
  /\ batch' = [batch EXCEPT ![w] = Tail(@)]
  /\ UNCHANGED <<file, call, running, worker, remaining, outages, importable,
                 errors, crashes, given, excuse>>

(* Mutant of FlushFails: a failed item is not kept.                        *)
Bug_FailedForgotten(w) ==
  /\ worker[w] = "flushing" /\ batch[w] # <<>> /\ Unlocked
  /\ WriteFails(Head(batch[w]).rec)
  /\ Enqueue(Head(batch[w]).rec)
  /\ batch' = [batch EXCEPT ![w] = Tail(@)]
  /\ UNCHANGED <<stored, call, running, worker, remaining, mapped, importable,
                 errors, crashes, given, excuse>>

(* (a failing database function enqueues its record as for any caller;     *)
(* where there is no function to call, the item is kept as it is)          *)
FlushFails(w) ==
  /\ worker[w] = "flushing" /\ batch[w] # <<>>
  /\ LET item == Head(batch[w]) IN
     /\ \/ /\ ~importable \/ Spoils(w, item)
           /\ UNCHANGED <<file, outages>>
        \/ /\ importable /\ ~Spoils(w, item) /\ Unlocked
           /\ WriteFails(item.rec)
           /\ Enqueue(item.rec)
     /\ remaining' = [remaining EXCEPT
          ![w] = Append(@, [item EXCEPT !.spoiled = Spoils(w, item)])]
  /\ batch' = [batch EXCEPT ![w] = Tail(@)]
  /\ UNCHANGED <<stored, call, running, worker, mapped, importable, errors,
                 crashes, given, excuse>>

(* ... then open the file for writing, which truncates it, and write what  *)
(* remains, or remove it.                                                  *)
FlushTruncates(w) ==
  /\ worker[w] = "flushing" /\ batch[w] = <<>> /\ Unlocked
  /\ worker' = [worker EXCEPT ![w] = "writing"]
  /\ file' = <<>>
  /\ UNCHANGED <<stored, call, running, batch, remaining, mapped, outages,
                 importable, errors, crashes, given, excuse>>

(* Mutant of FlushWrites: the items that failed are not written back.      *)
Bug_RemainingDropped(w) ==
  /\ worker[w] = "writing"
  /\ worker' = [worker EXCEPT ![w] = "idle"]
  /\ remaining' = [remaining EXCEPT ![w] = <<>>]
  /\ UNCHANGED <<file, stored, call, running, batch, mapped, outages,
                 importable, errors, crashes, given, excuse>>

FlushWrites(w) ==
  /\ worker[w] = "writing"
  /\ worker' = [worker EXCEPT ![w] = "idle"]
  /\ file' = remaining[w]
  /\ remaining' = [remaining EXCEPT ![w] = <<>>]
  /\ UNCHANGED <<stored, call, running, batch, mapped, outages, importable,
                 errors, crashes, given, excuse>>

(* The file cannot be opened for writing or removed: what remains is       *)
(* appended to it, or, with nothing left, the file stays as it is.         *)
FlushRaises(w) ==
  /\ worker[w] = "flushing" /\ batch[w] = <<>> /\ Unlocked
  /\ errors < MaxErrors
  /\ errors' = errors + 1
  /\ worker' = [worker EXCEPT ![w] = "idle"]
  /\ file' = file \o remaining[w]
  /\ remaining' = [remaining EXCEPT ![w] = <<>>]
  /\ excuse' = excuse \cup {"error"}
  /\ UNCHANGED <<stored, call, running, batch, mapped, outages, crashes, given,
                 importable>>

-----------------------------------------------------------------------------
(* The game server is restarted: its threads and their calls are gone, the *)
(* file stays.  The worker is started by the next append only.             *)
Crash ==
  /\ crashes < MaxCrashes
  /\ crashes' = crashes + 1
  /\ \E lost \in SUBSET {c \in Calls : call[c] = "calling"} :
       call' = [c \in Calls |-> IF call[c] = "calling" /\ c \notin lost
                                THEN "calling" ELSE "done"]
  /\ running' = FALSE
  /\ worker' = [c \in Calls |-> "none"]
  /\ batch' = [c \in Calls |-> <<>>]
  /\ remaining' = [c \in Calls |-> <<>>]
  /\ mapped' = [c \in Calls |-> {}]
  /\ excuse' = excuse \cup {"crash"} \cup (IF Unlocked THEN {} ELSE {"torn"})
  /\ UNCHANGED <<file, stored, outages, importable, errors, given>>

Thread(c) == CallStores(c) \/ CallFails(c) \/ CheckWorker(c) \/ StartWorker(c)

Flush(w) ==
  \/ FlushRead(w) \/ FlushStores(w) \/ FlushFails(w)
  \/ FlushTruncates(w) \/ FlushWrites(w) \/ FlushRaises(w)

Next == (\E c \in Calls : Thread(c) \/ Flush(c)) \/ Crash

Spec == Init /\ [][Next]_vars

(* Executor threads and the daemon thread, which sleeps for a bounded time *)
(* between two flushes, are scheduled.                                     *)
FairSpec ==
  Spec /\ \A c \in Calls : WF_vars(Thread(c)) /\ WF_vars(Flush(c))

-----------------------------------------------------------------------------
TypeOK ==
  /\ file \in Seq(Item)
  /\ stored \in [Calls -> Nat]
  /\ call \in [Calls -> {"calling", "enqueued", "starting", "done"}]
  /\ running \in BOOLEAN
  /\ worker \in [Calls -> {"none", "idle", "flushing", "writing"}]
  /\ batch \in [Calls -> Seq(Item)]
  /\ remaining \in [Calls -> Seq(Item)]
  /\ mapped \in [Calls -> SUBSET Calls]
  /\ importable \in BOOLEAN
  /\ outages \in Nat /\ errors \in Nat /\ crashes \in Nat
  /\ given \subseteq Calls
  /\ excuse \subseteq {"overlap", "error", "crash", "torn"}

Holds(items, rec) == \E i \in DOMAIN items : items[i].rec = rec
InHand(rec) ==
  \E w \in Calls : Holds(batch[w], rec) \/ Holds(remaining[w], rec)

(* Nothing happened that the file format cannot survive.                   *)
Orderly == excuse \cap {"overlap", "torn"} = {}

(* A record that could not be written is kept until it is, unless a call   *)
(* failed while a flush was between its read and its overwrite, two        *)
(* workers flushed at once, or a crash hit the overwrite.                  *)
NothingLost ==
  Orderly => \A c \in given : stored[c] > 0 \/ Holds(file, c) \/ InHand(c)

(* No record is written twice, although a write that fails in a flush is   *)
(* both enqueued by the database function and kept by the flush: the       *)
(* overwrite removes the first copy.  Only overlapping flushes, a failing  *)
(* overwrite and a crash replay writes.                                    *)
NoDuplicates == excuse = {} => \A c \in Calls : stored[c] <= 1

(* Where the flush does not find the database functions, as in the image,  *)
(* a record whose write failed once is never written, whatever the worker  *)
(* does and however often the server is restarted: the queue only keeps it.*)
Stranded ==
  ~importable => \A c \in given :
    stored[c] = 0 /\ (Orderly => Holds(file, c) \/ InHand(c))

(* A worker runs, or a call is about to start one.                         *)
Served == running \/ \E d \in Calls : call[d] \in {"enqueued", "starting"}

(* Where the flush finds the database functions, what is in the queue file *)
(* reaches the database once it stays up, also what an earlier run of the  *)
(* server has left there, as soon as a failing call has started a worker.  *)
(* (MaxItems bounds the files that are flushed.)                           *)
Drains ==
  \A c \in Calls :
    importable /\ Served /\ Holds(file, c) /\ Findable(c) ~>
      stored[c] > 0 \/ ~Served \/ ~Orderly \/ Len(file) > MaxItems
=============================================================================
