-------------------------- MODULE StatisticsProofs --------------------------
(***************************************************************************)
(* Theorems about Statistics, for every set of games and AIs, whoever      *)
(* plays whom and however often something fails.                           *)
(***************************************************************************)
EXTENDS Statistics, TLAPS

(* A thread under way counts one of the two seats.                         *)
BusyIsSeated ==
  \A g \in Games : thread[g].at # "idle" => thread[g].seat \in 1 .. 2

(* An update is not in the table before its thread has executed it, and    *)
(* has not failed before its thread has returned.                          *)
NotYet ==
  \A g \in Games, s \in 1 .. 2 :
    /\ thread[g].seat < s => <<g, s>> \notin table.counted
    /\ thread[g].seat = s /\ thread[g].at # "commit" =>
         <<g, s>> \notin table.counted
    /\ thread[g].seat <= s => <<g, s>> \notin failed

(* What a thread is about to commit is still in the table, or another      *)
(* thread has undone it; where it is committed, another thread did that.   *)
AtCommit ==
  \A g \in Games : thread[g].at = "commit" =>
    /\ conn = "up" => Update(g) \in table.counted \cup disturbed
    /\ Update(g) \in saved.counted => Update(g) \in exposed

(* What is not committed belongs to a thread that is about to commit, and  *)
(* whose cursor is of the connection there is.                             *)
Uncommitted ==
  \A g \in Games, s \in 1 .. 2 :
    <<g, s>> \in table.counted \ saved.counted =>
      /\ thread[g].seat = s /\ thread[g].at = "commit"
      /\ thread[g].cursor = object

(* What has become of an update whose thread has returned.                 *)
Returned ==
  \A g \in Games, s \in 1 .. 2 : Passed(<<g, s>>) =>
    /\ <<g, s>> \in saved.counted \cup failed \cup disturbed
    /\ <<g, s>> \in saved.counted \cap failed => <<g, s>> \in exposed

(* The queue holds what failed while it is on, and nothing while it is off.*)
Kept == queued = IF usesQueue THEN failed ELSE {}

(* When nothing fails and every AI has a row, the connection stays the one *)
(* it was, no thread connects or inserts and no update fails or is undone. *)
NothingFails ==
  faults = 0 /\ known = Ais =>
    /\ conn = "up" /\ object = 1
    /\ table.rows = Ais /\ saved.rows = Ais
    /\ failed = {} /\ disturbed = {}
    /\ \A g \in Games : Busy(g) => thread[g].cursor = 1 /\ thread[g].at # "insert"
    /\ \A g \in Games : thread[g].at # "connecting"

IInv ==
  /\ TypeOK /\ BusyIsSeated
  /\ NotYet /\ AtCommit /\ Uncommitted /\ Returned /\ Kept /\ NothingFails

-----------------------------------------------------------------------------
Place == [seat : 0 .. 3, cursor : 0 .. object,
          at : {"idle", "connecting", "update", "insert", "commit"}]

(* A busy thread is among the others of any other.                         *)
LEMMA OthersHave ==
  ASSUME NEW g \in Games, NEW h \in Games \ {g}, Busy(h)
  PROVE  Update(h) \in Others(g)
BY DEF Others

(* What other threads have executed are updates.                           *)
LEMMA OthersAreUpdates ==
  ASSUME NEW g \in Games, BusyIsSeated
  PROVE  Others(g) \subseteq Updates
BY DEF Others, Update, Updates, BusyIsSeated, Busy

(* A busy thread has an update in hand.                                    *)
LEMMA UpdateOf ==
  ASSUME NEW g \in Games, BusyIsSeated, thread[g].at # "idle"
  PROVE  Update(g) \in Updates
BY DEF Update, Updates, BusyIsSeated

(* What has failed stays so, and the queue follows.                        *)
LEMMA EnqueueKeeps ==
  ASSUME TypeOK, Kept, NEW g \in Games, Update(g) \in Updates, Enqueue(g),
         UNCHANGED usesQueue
  PROVE  /\ failed' = failed \cup {Update(g)}
         /\ queued' \subseteq Updates /\ failed' \subseteq Updates
         /\ Kept'
BY DEF Enqueue, Kept, TypeOK

(* The steps of a thread leave the other threads where they are.           *)
LEMMA GotoMoves ==
  ASSUME TypeOK, NEW g \in Games,
         NEW at \in {"idle", "connecting", "update", "insert", "commit"},
         Goto(g, at)
  PROVE  /\ thread'[g] = [thread[g] EXCEPT !.at = at]
         /\ thread'[g].at = at
         /\ thread'[g].seat = thread[g].seat
         /\ thread'[g].cursor = thread[g].cursor
         /\ \A h \in Games \ {g} : thread'[h] = thread[h]
         /\ thread' \in [Games -> Place]
BY DEF Goto, TypeOK, Place

(* A thread that returns goes on to its next seat.                         *)
LEMMA ReturnMoves ==
  ASSUME TypeOK, NEW g \in Games, thread[g].seat \in 1 .. 2, Return(g)
  PROVE  /\ thread'[g].at = "idle"
         /\ thread'[g].seat = thread[g].seat + 1
         /\ thread'[g].cursor = thread[g].cursor
         /\ \A h \in Games \ {g} : thread'[h] = thread[h]
         /\ thread' \in [Games -> Place]
<1>1. thread \in [Games -> Place] /\ thread[g] \in Place
  BY DEF TypeOK, Place
<1> DEFINE p == [thread[g] EXCEPT !.seat = @ + 1, !.at = "idle"]
<1>2. /\ p.at = "idle" /\ p.seat = thread[g].seat + 1
      /\ p.cursor = thread[g].cursor
  BY <1>1 DEF Place
<1>3. p \in Place
  <2>1. thread[g].seat + 1 \in 0 .. 3
    OBVIOUS
  <2> QED
    BY <1>1, <2>1 DEF Place
<1>4. thread' = [thread EXCEPT ![g] = p]
  BY <1>1 DEF Return, Place
<1> HIDE DEF p
<1> QED
  BY <1>1, <1>2, <1>3, <1>4

(* A transaction that ends without a commit leaves what was committed.     *)
LEMMA FailingKeeps ==
  ASSUME IInv, NEW g \in Games, thread[g].at # "idle",
         Return(g), Enqueue(g), conn' \in {conn, "none"},
         table' = saved, disturbed' = disturbed \cup Others(g),
         faults' \in 0 .. MaxFaults,
         UNCHANGED <<fixed, object, saved, skipped, exposed>>
  PROVE  /\ TypeOK' /\ BusyIsSeated'
         /\ NotYet' /\ AtCommit' /\ Uncommitted' /\ Returned' /\ Kept'
<1>1. /\ thread[g].seat \in 1 .. 2 /\ Update(g) \in Updates
      /\ Others(g) \subseteq Updates
  BY OthersAreUpdates, UpdateOf DEF IInv, BusyIsSeated
<1>2. /\ thread'[g].at = "idle"
      /\ thread'[g].seat = thread[g].seat + 1
      /\ \A h \in Games \ {g} : thread'[h] = thread[h]
      /\ thread' \in [Games -> Place]
  BY <1>1, ReturnMoves DEF IInv
<1>3. /\ failed' = failed \cup {<<g, thread[g].seat>>}
      /\ queued' \subseteq Updates /\ failed' \subseteq Updates /\ Kept'
  BY <1>1, EnqueueKeeps DEF IInv, fixed, Update
<1>4. TypeOK'
  BY <1>1, <1>2, <1>3 DEF IInv, TypeOK, fixed, Place
<1>5. BusyIsSeated'
  BY <1>1, <1>2 DEF IInv, BusyIsSeated
<1>6. NotYet'
  <2> SUFFICES ASSUME NEW h \in Games, NEW s \in 1 .. 2
      PROVE  /\ thread'[h].seat < s => <<h, s>> \notin table'.counted
             /\ thread'[h].seat = s /\ thread'[h].at # "commit" =>
                  <<h, s>> \notin table'.counted
             /\ thread'[h].seat <= s => <<h, s>> \notin failed'
    BY DEF NotYet
  <2>1. saved.counted \subseteq table.counted /\ table' = saved
    BY DEF IInv, TypeOK
  <2>2. CASE h = g
    <3>1. CASE thread[g].seat < s
      <4>1. thread[g].seat <= s
        BY <1>1, <3>1
      <4>2. <<g, s>> \notin table.counted /\ <<g, s>> \notin failed
        BY <3>1, <4>1 DEF IInv, NotYet
      <4> QED
        BY <1>1, <1>2, <1>3, <2>1, <2>2, <3>1, <4>2
    <3>2. CASE ~ (thread[g].seat < s)
      BY <1>1, <1>2, <2>2, <3>2
    <3> QED
      BY <3>1, <3>2
  <2>3. CASE h # g
    BY <1>2, <1>3, <2>1, <2>3 DEF IInv, NotYet
  <2> QED
    BY <2>2, <2>3
<1>7. AtCommit'
  BY <1>1, <1>2, OthersHave DEF IInv, TypeOK, AtCommit, Update, Busy
<1>8. Uncommitted'
  BY <1>2 DEF Uncommitted
<1>9. Returned'
  <2> SUFFICES ASSUME NEW h \in Games, NEW s \in 1 .. 2, Passed(<<h, s>>)'
      PROVE  /\ <<h, s>> \in (saved.counted \cup failed \cup disturbed)'
             /\ <<h, s>> \in (saved.counted \cap failed)' => <<h, s>> \in exposed'
    BY DEF Returned
  <2>1. /\ saved' = saved /\ skipped' = skipped /\ exposed' = exposed
        /\ disturbed \subseteq disturbed'
    OBVIOUS
  <2>2. Passed(<<h, s>>) \/ (h = g /\ s = thread[g].seat)
    BY <1>1, <1>2, <2>1 DEF Passed
  <2>3. CASE Passed(<<h, s>>)
    <3>1. <<h, s>> # <<g, thread[g].seat>>
      BY <1>1, <2>3 DEF Passed
    <3> QED
      BY <1>3, <2>1, <2>3, <3>1 DEF IInv, Returned
  <2>4. CASE h = g /\ s = thread[g].seat
    BY <1>1, <1>3, <2>1, <2>4 DEF IInv, TypeOK, NotYet, AtCommit, Update
  <2> QED
    BY <2>2, <2>3, <2>4
<1> QED
  BY <1>4, <1>5, <1>6, <1>7, <1>8, <1>9, <1>3

(* A call that raises, and the update fails.                               *)
LEMMA RaiseKeeps ==
  ASSUME IInv, NEW g \in Games, Busy(g), Raise(g), faults' \in 0 .. MaxFaults
  PROVE  /\ TypeOK' /\ BusyIsSeated'
         /\ NotYet' /\ AtCommit' /\ Uncommitted' /\ Returned' /\ Kept'
BY FailingKeeps DEF Raise, Discard, Busy

(* A game ends: its thread, if there is a connection, starts with seat 1.  *)
LEMMA EndKeeps ==
  ASSUME IInv, NEW g \in Games, End(g)
  PROVE  IInv'
<1>1. thread[g].seat = 0 /\ thread[g].at = "idle"
  BY DEF IInv, TypeOK, BusyIsSeated, Busy, End
<1>2. /\ thread'[g].at = "idle" /\ thread'[g].seat \in {1, 3}
      /\ thread'[g].seat = 3 => g \in skipped'
      /\ \A h \in Games \ {g} : thread'[h] = thread[h]
      /\ thread' \in [Games -> Place]
      /\ skipped \subseteq skipped' /\ skipped' \subseteq Games
  BY <1>1 DEF IInv, TypeOK, End, Place
<1>3. UNCHANGED <<fixed, shared, outcome, faults, disturbed, exposed>>
  BY DEF End
<1>4. TypeOK'
  BY <1>2, <1>3 DEF IInv, TypeOK, fixed, shared, outcome, Place
<1>5. BusyIsSeated'
  BY <1>2 DEF IInv, BusyIsSeated, Busy
<1>6. NotYet'
  <2>1. \A s \in 1 .. 2 : thread[g].seat < s /\ thread[g].seat <= s
    BY <1>1
  <2>2. \A s \in 1 .. 2 : <<g, s>> \notin table.counted /\ <<g, s>> \notin failed
    BY <2>1 DEF IInv, NotYet
  <2> QED
    BY <1>2, <1>3, <2>2 DEF IInv, NotYet, shared, outcome
<1>7. AtCommit'
  BY <1>2, <1>3 DEF IInv, AtCommit, Update, shared
<1>8. Uncommitted'
  <2> SUFFICES ASSUME NEW h \in Games, NEW s \in 1 .. 2,
                      <<h, s>> \in table.counted \ saved.counted
               PROVE  /\ thread'[h].seat = s /\ thread'[h].at = "commit"
                      /\ thread'[h].cursor = object
    BY <1>3 DEF Uncommitted, shared
  <2>1. /\ thread[h].seat = s /\ thread[h].at = "commit"
        /\ thread[h].cursor = object
    BY DEF IInv, Uncommitted
  <2> QED
    BY <1>1, <1>2, <2>1
<1>9. Returned'
  <2> SUFFICES ASSUME NEW h \in Games, NEW s \in 1 .. 2, Passed(<<h, s>>)'
               PROVE  Passed(<<h, s>>)
    BY <1>3 DEF IInv, Returned, shared, outcome
  <2>1. h # g
    BY <1>2 DEF Passed
  <2> QED
    BY <1>2, <2>1 DEF Passed
<1>10. NothingFails'
  BY <1>2, <1>3 DEF IInv, NothingFails, Busy, fixed, shared, outcome
<1>11. Kept'
  BY <1>3 DEF IInv, Kept, fixed, outcome
<1> QED
  BY <1>11, <1>4, <1>5, <1>6, <1>7, <1>8, <1>9, <1>10 DEF IInv

(* A thread with a new cursor stays on its seat.                            *)
LEMMA WithCursorMoves ==
  ASSUME TypeOK, NEW g \in Games, WithCursor(g),
         object' \in Nat \ {0}, object <= object'
  PROVE  /\ thread'[g].at = "update" /\ thread'[g].seat = thread[g].seat
         /\ thread'[g].cursor = object'
         /\ \A h \in Games \ {g} : thread'[h] = thread[h]
         /\ thread' \in [Games -> Place']
<1>1. thread \in [Games -> Place] /\ thread[g] \in Place
  BY DEF TypeOK, Place
<1> DEFINE p == [thread[g] EXCEPT !.at = "update", !.cursor = object']
<1>2. p.at = "update" /\ p.seat = thread[g].seat /\ p.cursor = object'
  BY <1>1 DEF Place
<1>3. p \in Place'
  <2>1. object' \in 0 .. object'
    OBVIOUS
  <2> QED
    BY <1>1, <2>1 DEF Place
<1>4. Place \subseteq Place'
  <2>1. 0 .. object \subseteq 0 .. object'
    BY DEF TypeOK
  <2> QED
    BY <2>1 DEF Place
<1>5. thread' = [thread EXCEPT ![g] = p]
  BY <1>1 DEF WithCursor, Place
<1> HIDE DEF p
<1> QED
  BY <1>1, <1>2, <1>3, <1>4, <1>5

(* A thread with a new cursor has executed nothing yet; what the others    *)
(* had executed is still there, or counts as disturbed.                    *)
LEMMA WithCursorKeeps ==
  ASSUME IInv, NEW g \in Games, thread[g].seat \in 1 .. 2,
         thread[g].at \in {"idle", "connecting"}, WithCursor(g),
         conn' = "up", object' \in Nat \ {0}, object <= object',
         \/ table' = table /\ object' = object
         \/ table' = saved,
         disturbed' \in {disturbed, disturbed \cup Others(g)},
         conn # "up" \/ table' # table => Others(g) \subseteq disturbed',
         UNCHANGED <<fixed, saved, outcome, faults, skipped, exposed>>
  PROVE  /\ TypeOK' /\ BusyIsSeated'
         /\ NotYet' /\ AtCommit' /\ Uncommitted' /\ Returned' /\ Kept'
<1>1. Others(g) \subseteq Updates
  BY OthersAreUpdates DEF IInv
<1>2. /\ thread'[g].at = "update" /\ thread'[g].seat = thread[g].seat
      /\ \A h \in Games \ {g} : thread'[h] = thread[h]
      /\ thread' \in [Games -> Place']
  BY WithCursorMoves DEF IInv
<1>3. table' \in {table, saved} /\ disturbed \subseteq disturbed'
  OBVIOUS
<1>4. TypeOK'
  BY <1>1, <1>2 DEF IInv, TypeOK, fixed, outcome, Place
<1>5. BusyIsSeated'
  BY <1>2 DEF IInv, BusyIsSeated
<1>6. NotYet'
  <2>1. table'.counted \subseteq table.counted
    BY <1>3 DEF IInv, TypeOK
  <2> QED
    BY <1>2, <2>1 DEF IInv, NotYet, outcome
<1>7. AtCommit'
  BY <1>2, <1>3, OthersHave DEF IInv, AtCommit, Update, Busy
<1>8. Uncommitted'
  <2>1. CASE table' = saved
    BY <2>1 DEF Uncommitted
  <2>2. CASE table' = table /\ object' = object
    <3> SUFFICES ASSUME NEW h \in Games, NEW s \in 1 .. 2,
                        <<h, s>> \in table.counted \ saved.counted
                 PROVE  /\ thread'[h].seat = s /\ thread'[h].at = "commit"
                        /\ thread'[h].cursor = object
      BY <2>2 DEF Uncommitted
    <3>1. /\ thread[h].seat = s /\ thread[h].at = "commit"
          /\ thread[h].cursor = object
      BY DEF IInv, Uncommitted
    <3> QED
      BY <3>1, <1>2
  <2> QED
    BY <2>1, <2>2
<1>9. Returned'
  BY <1>2, <1>3 DEF IInv, Returned, Passed, outcome
<1>10. Kept'
  BY DEF IInv, Kept, fixed, outcome
<1> QED
  BY <1>4, <1>5, <1>6, <1>7, <1>8, <1>9, <1>10

(* A ping that succeeds keeps the object there is.                         *)
LEMMA PingKeeps ==
  ASSUME IInv, NEW g \in Games, Ping(g)
  PROVE  IInv'
<1>1. /\ thread[g].seat \in 1 .. 2 /\ thread[g].at = "idle"
      /\ WithCursor(g) /\ conn' = "up" /\ object' = object /\ table' = table
      /\ disturbed' \in {disturbed, disturbed \cup Others(g)}
      /\ conn # "up" => Others(g) \subseteq disturbed'
      /\ UNCHANGED <<fixed, saved, outcome, faults, skipped, exposed>>
  BY DEF Ping, Starts
<1>2. object \in Nat \ {0} /\ object <= object'
  BY <1>1 DEF IInv, TypeOK
<1>3. /\ TypeOK' /\ BusyIsSeated'
      /\ NotYet' /\ AtCommit' /\ Uncommitted' /\ Returned' /\ Kept'
  BY <1>1, <1>2, WithCursorKeeps
<1>4. NothingFails'
  <2>1. /\ thread'[g].at = "update" /\ thread'[g].cursor = object'
        /\ \A h \in Games \ {g} : thread'[h] = thread[h]
    BY <1>1, <1>2, WithCursorMoves DEF IInv
  <2>2. conn = "up" => disturbed' = disturbed
    BY DEF Ping
  <2> QED
    BY <1>1, <2>1, <2>2 DEF IInv, NothingFails, Busy, fixed, outcome
<1> QED
  BY <1>3, <1>4 DEF IInv

(* A new connection: the transaction of the one before is gone.            *)
LEMMA OpenKeeps ==
  ASSUME IInv, NEW g \in Games, Open(g)
  PROVE  IInv'
<1>1. /\ thread[g].at = "connecting" /\ conn' = "up" /\ object' = object + 1
      /\ WithCursor(g) /\ table' = saved
      /\ disturbed' = disturbed \cup Others(g)
      /\ UNCHANGED <<fixed, saved, outcome, faults, skipped, exposed>>
  BY DEF Open, Discard
<1>2. thread[g].seat \in 1 .. 2
  BY <1>1 DEF IInv, BusyIsSeated
<1>3. object' \in Nat \ {0} /\ object <= object'
  BY <1>1 DEF IInv, TypeOK
<1>4. /\ TypeOK' /\ BusyIsSeated'
      /\ NotYet' /\ AtCommit' /\ Uncommitted' /\ Returned' /\ Kept'
  BY <1>1, <1>2, <1>3, WithCursorKeeps
<1>5. ~ (faults = 0 /\ known = Ais)
  BY <1>1 DEF IInv, NothingFails
<1>6. NothingFails'
  BY <1>1, <1>5 DEF NothingFails, fixed
<1> QED
  BY <1>4, <1>6 DEF IInv

(* Without a connection a thread goes to open one.                         *)
LEMMA FindNoneKeeps ==
  ASSUME IInv, NEW g \in Games, FindNone(g)
  PROVE  IInv'
<1>1. /\ thread[g].seat \in 1 .. 2 /\ thread[g].at = "idle" /\ conn = "none"
      /\ Goto(g, "connecting")
      /\ UNCHANGED <<fixed, shared, outcome, faults, history>>
  BY DEF FindNone, Starts
<1>2. ~ (faults = 0 /\ known = Ais)
  BY <1>1 DEF IInv, NothingFails
<1>3. /\ thread'[g].at = "connecting" /\ thread'[g].seat = thread[g].seat
      /\ \A h \in Games \ {g} : thread'[h] = thread[h]
      /\ thread' \in [Games -> Place]
  BY <1>1, GotoMoves DEF IInv
<1>4. TypeOK'
  BY <1>1, <1>3 DEF IInv, TypeOK, fixed, shared, outcome, history, Place
<1>5. BusyIsSeated' /\ AtCommit'
  BY <1>1, <1>3 DEF IInv, BusyIsSeated, AtCommit, Update, shared, history
<1>6. NotYet' /\ Uncommitted'
  BY <1>1, <1>3 DEF IInv, NotYet, Uncommitted, shared, outcome
<1>7. Returned' /\ Kept'
  BY <1>1, <1>3
  DEF IInv, Returned, Passed, Kept, fixed, shared, outcome, history
<1>8. NothingFails'
  BY <1>1, <1>2 DEF NothingFails, fixed
<1> QED
  BY <1>4, <1>5, <1>6, <1>7, <1>8 DEF IInv

(* The connection is closed or stays away; the thread has executed nothing. *)
LEMMA ClosingKeeps ==
  ASSUME IInv, NEW g \in Games, thread[g].seat \in 1 .. 2,
         thread'[g].seat = thread[g].seat,
         thread'[g].at \in {"idle", "connecting"},
         thread[g].at \in {"idle", "connecting"},
         \A h \in Games \ {g} : thread'[h] = thread[h],
         thread' \in [Games -> Place],
         conn' = "none", Discard(g), faults' \in 0 .. MaxFaults, faults' > 0,
         UNCHANGED <<fixed, object, saved, outcome, skipped, exposed>>
  PROVE  IInv'
<1>1. /\ Others(g) \subseteq Updates
      /\ table' = saved /\ disturbed' = disturbed \cup Others(g)
  BY OthersAreUpdates DEF IInv, Discard
<1>2. TypeOK'
  BY <1>1 DEF IInv, TypeOK, fixed, outcome, Place
<1>3. BusyIsSeated' /\ Uncommitted'
  BY <1>1 DEF IInv, BusyIsSeated, Uncommitted
<1>4. NotYet'
  BY <1>1 DEF IInv, TypeOK, NotYet, outcome
<1>5. AtCommit'
  BY DEF IInv, AtCommit, Update
<1>6. Returned' /\ Kept'
  BY <1>1 DEF IInv, Returned, Passed, Kept, fixed, outcome
<1>7. NothingFails'
  BY DEF NothingFails
<1> QED
  BY <1>2, <1>3, <1>4, <1>5, <1>6, <1>7 DEF IInv

(* The connection is closed for all.                                       *)
LEMMA PingFailsKeeps ==
  ASSUME IInv, NEW g \in Games, PingFails(g)
  PROVE  IInv'
<1>1. /\ thread[g].seat \in 1 .. 2 /\ thread[g].at = "idle"
      /\ Goto(g, "connecting") /\ conn' = "none"
      /\ UNCHANGED <<fixed, object, saved, outcome, skipped, exposed>>
  BY DEF PingFails, Starts
<1>2. faults' \in 0 .. MaxFaults /\ faults' > 0
  BY StatisticsAssumption
  DEF IInv, TypeOK, PingFails, Fault, StatisticsAssumption
<1>3. /\ thread'[g].at = "connecting" /\ thread'[g].seat = thread[g].seat
      /\ \A h \in Games \ {g} : thread'[h] = thread[h]
      /\ thread' \in [Games -> Place]
  BY <1>1, GotoMoves DEF IInv
<1>4. Discard(g)
  BY DEF PingFails
<1> QED
  BY <1>1, <1>2, <1>3, <1>4, ClosingKeeps

(* The attempt fails: another is made.                                     *)
LEMMA RetryKeeps ==
  ASSUME IInv, NEW g \in Games, Retry(g)
  PROVE  IInv'
<1>1. /\ thread[g].at = "connecting" /\ Goto(g, "idle") /\ conn' = "none"
      /\ UNCHANGED <<fixed, object, saved, outcome, skipped, exposed>>
  BY DEF Retry, OpenFails
<1>2. faults' \in 0 .. MaxFaults /\ faults' > 0
  BY StatisticsAssumption
  DEF IInv, TypeOK, Retry, OpenFails, Fault, StatisticsAssumption
<1>3. /\ thread'[g].at = "idle" /\ thread'[g].seat = thread[g].seat
      /\ \A h \in Games \ {g} : thread'[h] = thread[h]
      /\ thread' \in [Games -> Place]
  BY <1>1, GotoMoves DEF IInv
<1>4. Discard(g)
  BY DEF Retry, OpenFails
<1>5. thread[g].seat \in 1 .. 2
  BY <1>1 DEF IInv, BusyIsSeated
<1> QED
  BY <1>1, <1>2, <1>3, <1>4, <1>5, ClosingKeeps

(* The last attempt fails, and with it the update.                         *)
LEMMA GiveUpKeeps ==
  ASSUME IInv, NEW g \in Games, GiveUp(g)
  PROVE  IInv'
<1>1. /\ thread[g].at = "connecting" /\ Return(g) /\ Enqueue(g)
      /\ conn' = "none" /\ table' = saved
      /\ disturbed' = disturbed \cup Others(g)
      /\ UNCHANGED <<fixed, object, saved, skipped, exposed>>
  BY DEF GiveUp, OpenFails, Discard
<1>2. faults' \in 0 .. MaxFaults /\ faults' > 0
  BY StatisticsAssumption
  DEF IInv, TypeOK, GiveUp, OpenFails, Fault, StatisticsAssumption
<1>3. /\ TypeOK' /\ BusyIsSeated'
      /\ NotYet' /\ AtCommit' /\ Uncommitted' /\ Returned' /\ Kept'
  BY <1>1, <1>2, FailingKeeps
<1>4. NothingFails'
  BY <1>2 DEF NothingFails
<1> QED
  BY <1>3, <1>4 DEF IInv

(* The connection is lost; the threads have not noticed yet.               *)
LEMMA DropKeeps ==
  ASSUME IInv, Drop
  PROVE  IInv'
<1>1. /\ conn' = "down" /\ table' = saved
      /\ UNCHANGED <<fixed, object, saved, thread, outcome, history>>
  BY DEF Drop
<1>2. faults' \in 0 .. MaxFaults /\ faults' > 0
  BY StatisticsAssumption DEF IInv, TypeOK, Drop, Fault, StatisticsAssumption
<1>3. TypeOK'
  BY <1>1, <1>2 DEF IInv, TypeOK, fixed, outcome, history
<1>4. BusyIsSeated' /\ Uncommitted' /\ AtCommit'
  BY <1>1 DEF IInv, BusyIsSeated, Busy, Uncommitted, AtCommit, Update, history
<1>5. NotYet'
  BY <1>1 DEF IInv, TypeOK, NotYet, outcome
<1>6. Returned'
  BY <1>1 DEF IInv, Returned, Passed, outcome, history
<1>7. NothingFails'
  BY <1>2 DEF NothingFails
<1>8. Kept'
  BY <1>1 DEF IInv, Kept, fixed, outcome
<1> QED
  BY <1>8, <1>3, <1>4, <1>5, <1>6, <1>7 DEF IInv

(* The two ways to execute an update: it enters the transaction.           *)
LEMMA ExecuteKeeps ==
  ASSUME IInv, NEW g \in Games, Busy(g), thread[g].at # "commit",
         thread[g].cursor = object,
         Goto(g, "commit"), conn = "up",
         table' \in [rows : SUBSET Ais, counted : SUBSET Updates],
         table.rows \subseteq table'.rows,
         table'.counted = table.counted \cup {Update(g)},
         UNCHANGED <<fixed, conn, object, saved, outcome, faults, history>>
  PROVE  /\ TypeOK' /\ BusyIsSeated'
         /\ NotYet' /\ AtCommit' /\ Uncommitted' /\ Returned' /\ Kept'
<1>1. /\ thread[g].seat \in 1 .. 2 /\ Update(g) = <<g, thread[g].seat>>
      /\ Update(g) \in Updates
  BY UpdateOf DEF IInv, BusyIsSeated, Busy, Update
<1>2. /\ thread'[g].at = "commit" /\ thread'[g].seat = thread[g].seat
      /\ thread'[g].cursor = thread[g].cursor
      /\ \A h \in Games \ {g} : thread'[h] = thread[h]
      /\ thread' \in [Games -> Place]
  BY GotoMoves DEF IInv
<1>3. Update(g) \notin saved.counted
  <2>1. Update(g) \notin table.counted
    BY <1>1 DEF IInv, NotYet
  <2> QED
    BY <2>1 DEF IInv, TypeOK
<1>4. TypeOK'
  BY <1>1, <1>2 DEF IInv, TypeOK, Place, fixed, outcome, history
<1>5. BusyIsSeated'
  BY <1>1, <1>2 DEF IInv, BusyIsSeated, Busy
<1>6. NotYet'
  <2> SUFFICES ASSUME NEW h \in Games, NEW s \in 1 .. 2
      PROVE  /\ thread'[h].seat < s => <<h, s>> \notin table'.counted
             /\ thread'[h].seat = s /\ thread'[h].at # "commit" =>
                  <<h, s>> \notin table'.counted
             /\ thread'[h].seat <= s => <<h, s>> \notin failed
    BY DEF NotYet, outcome
  <2>1. /\ thread[h].seat < s => <<h, s>> \notin table.counted
        /\ thread[h].seat = s /\ thread[h].at # "commit" =>
             <<h, s>> \notin table.counted
        /\ thread[h].seat <= s => <<h, s>> \notin failed
    BY DEF IInv, NotYet
  <2>2. CASE h = g
    BY <1>1, <1>2, <2>1, <2>2
  <2>3. CASE h # g
    BY <1>1, <1>2, <2>1, <2>3
  <2> QED
    BY <2>2, <2>3
<1>7. AtCommit'
  <2> SUFFICES ASSUME NEW h \in Games, thread'[h].at = "commit"
      PROVE  /\ Update(h)' \in (table.counted \cup disturbed)'
             /\ Update(h)' \in saved.counted => Update(h)' \in exposed
    BY DEF AtCommit, history
  <2>1. CASE h = g
    BY <1>1, <1>2, <1>3, <2>1 DEF Update
  <2>2. CASE h # g
    BY <1>2, <2>2 DEF IInv, AtCommit, Update, history
  <2> QED
    BY <2>1, <2>2
<1>8. Uncommitted'
  <2> SUFFICES ASSUME NEW h \in Games, NEW s \in 1 .. 2,
                      <<h, s>> \in table'.counted \ saved.counted
               PROVE  /\ thread'[h].seat = s /\ thread'[h].at = "commit"
                      /\ thread'[h].cursor = object
    BY DEF Uncommitted
  <2>1. CASE <<h, s>> = <<g, thread[g].seat>>
    BY <1>2, <2>1
  <2>2. CASE <<h, s>> \in table.counted
    <3>1. /\ thread[h].seat = s /\ thread[h].at = "commit"
          /\ thread[h].cursor = object
      BY <2>2 DEF IInv, Uncommitted
    <3> QED
      BY <1>2, <3>1
  <2> QED
    BY <1>1, <2>1, <2>2
<1>9. Returned'
  <2> SUFFICES ASSUME NEW h \in Games, NEW s \in 1 .. 2, Passed(<<h, s>>)'
               PROVE  Passed(<<h, s>>)
    BY DEF IInv, Returned, outcome, history
  <2> QED
    BY <1>2 DEF Passed, history
<1>10. Kept'
  BY DEF IInv, Kept, fixed, outcome
<1> QED
  BY <1>10, <1>4, <1>5, <1>6, <1>7, <1>8, <1>9

(* A row that is missing is a reason to fail, a row that is there is used. *)
LEMMA UpdateRowKeeps ==
  ASSUME IInv, NEW g \in Games, UpdateRow(g)
  PROVE  IInv'
<1>1. /\ Busy(g) /\ conn = "up" /\ thread[g].at = "update"
      /\ thread[g].cursor = object
      /\ UNCHANGED <<fixed, conn, object, saved, outcome, faults, history>>
  BY DEF UpdateRow, Usable, Busy
<1>2. Update(g) \in Updates /\ Ai(Update(g)) \in Ais
  BY <1>1, UpdateOf, StatisticsAssumption
  DEF IInv, Updates, Ai, StatisticsAssumption
<1>3. CASE Ai(Update(g)) \in table.rows
  <2>1. Goto(g, "commit") /\ table' = [table EXCEPT !.counted = @ \cup {Update(g)}]
    BY <1>3 DEF UpdateRow
  <2>2. /\ table' \in [rows : SUBSET Ais, counted : SUBSET Updates]
        /\ table'.rows = table.rows
        /\ table'.counted = table.counted \cup {Update(g)}
    BY <1>2, <2>1 DEF IInv, TypeOK
  <2>3. /\ TypeOK' /\ BusyIsSeated'
        /\ NotYet' /\ AtCommit' /\ Uncommitted' /\ Returned' /\ Kept'
    BY <1>1, <2>1, <2>2, ExecuteKeeps
  <2>4. NothingFails'
    <3>1. /\ thread'[g].at = "commit" /\ thread'[g].cursor = thread[g].cursor
          /\ \A h \in Games \ {g} : thread'[h] = thread[h]
      BY <2>1, GotoMoves DEF IInv
    <3> QED
      BY <1>1, <2>2, <3>1 DEF IInv, NothingFails, Busy, fixed, outcome, history
  <2> QED
    BY <2>3, <2>4 DEF IInv
<1>4. CASE Ai(Update(g)) \notin table.rows
  <2>1. Goto(g, "insert") /\ table' = table
    BY <1>4 DEF UpdateRow
  <2>2. /\ thread'[g].at = "insert" /\ thread'[g].seat = thread[g].seat
        /\ thread'[g].cursor = thread[g].cursor
        /\ \A h \in Games \ {g} : thread'[h] = thread[h]
        /\ thread' \in [Games -> Place]
    BY <2>1, GotoMoves DEF IInv
  <2>3. ~ (faults = 0 /\ known = Ais)
    BY <1>2, <1>4 DEF IInv, NothingFails
  <2>4. TypeOK'
    BY <1>1, <2>1, <2>2 DEF IInv, TypeOK, Place, fixed, outcome, history
  <2>5. BusyIsSeated'
    BY <1>1, <2>2 DEF IInv, BusyIsSeated, Busy
  <2>6. NotYet'
    BY <1>1, <2>1, <2>2 DEF IInv, NotYet, outcome
  <2>7. AtCommit'
    BY <1>1, <2>1, <2>2 DEF IInv, AtCommit, Update, history
  <2>8. Uncommitted'
    <3> SUFFICES ASSUME NEW h \in Games, NEW s \in 1 .. 2,
                        <<h, s>> \in table.counted \ saved.counted
                 PROVE  /\ thread'[h].seat = s /\ thread'[h].at = "commit"
                        /\ thread'[h].cursor = object
      BY <1>1, <2>1 DEF Uncommitted
    <3>1. /\ thread[h].seat = s /\ thread[h].at = "commit"
          /\ thread[h].cursor = object
      BY DEF IInv, Uncommitted
    <3> QED
      BY <3>1, <1>1, <2>2
  <2>9. Returned'
    BY <1>1, <2>1, <2>2 DEF IInv, Returned, Passed, outcome, history
  <2>10. NothingFails'
    BY <1>1, <2>3 DEF NothingFails, fixed
  <2>11. Kept'
    BY <1>1 DEF IInv, Kept, fixed, outcome
  <2> QED
    BY <2>4, <2>5, <2>6, <2>7, <2>8, <2>9, <2>10, <2>11 DEF IInv
<1> QED
  BY <1>3, <1>4

(* An insertion happens only when an AI had no row at first.               *)
LEMMA InsertRowKeeps ==
  ASSUME IInv, NEW g \in Games, InsertRow(g)
  PROVE  IInv'
<1>1. /\ Busy(g) /\ conn = "up" /\ thread[g].at = "insert"
      /\ thread[g].cursor = object
      /\ Goto(g, "commit")
      /\ UNCHANGED <<fixed, conn, object, saved, outcome, faults, history>>
  BY DEF InsertRow, Usable, Busy
<1>2. Update(g) \in Updates /\ Ai(Update(g)) \in Ais
  BY <1>1, UpdateOf, StatisticsAssumption
  DEF IInv, Updates, Ai, StatisticsAssumption
<1>3. /\ table' \in [rows : SUBSET Ais, counted : SUBSET Updates]
      /\ table'.rows = table.rows \cup {Ai(Update(g))}
      /\ table'.counted = table.counted \cup {Update(g)}
  BY <1>2 DEF IInv, TypeOK, InsertRow
<1>4. /\ TypeOK' /\ BusyIsSeated'
      /\ NotYet' /\ AtCommit' /\ Uncommitted' /\ Returned' /\ Kept'
  BY <1>1, <1>3, ExecuteKeeps
<1>5. NothingFails'
  BY <1>1 DEF IInv, NothingFails, Busy, fixed
<1> QED
  BY <1>4, <1>5 DEF IInv

(* A commit takes all that is in the transaction along.                    *)
LEMMA SaveKeeps ==
  ASSUME IInv, NEW g \in Games, thread[g].at = "commit", Return(g),
         saved' = table, conn' \in {"up", "down"},
         conn' = "up" => conn = "up",
         exposed' \subseteq exposed \cup Others(g) \cup {Update(g)},
         exposed \cup Others(g) \subseteq exposed',
         UNCHANGED outcome \/ Enqueue(g),
         faults' \in 0 .. MaxFaults,
         Update(g) \in table.counted \cup failed' \cup disturbed,
         Update(g) \in table.counted \cap failed' => Update(g) \in exposed',
         UNCHANGED <<fixed, object, table, skipped, disturbed>>
  PROVE  /\ TypeOK' /\ BusyIsSeated'
         /\ NotYet' /\ AtCommit' /\ Uncommitted' /\ Returned' /\ Kept'
<1>1. /\ Busy(g) /\ thread[g].seat \in 1 .. 2
      /\ Update(g) = <<g, thread[g].seat>>
      /\ Update(g) \in Updates /\ Others(g) \subseteq Updates
  BY UpdateOf, OthersAreUpdates DEF IInv, BusyIsSeated, Busy, Update
<1>2. /\ thread'[g].at = "idle"
      /\ thread'[g].seat = thread[g].seat + 1
      /\ \A h \in Games \ {g} : thread'[h] = thread[h]
      /\ thread' \in [Games -> Place]
  BY <1>1, ReturnMoves DEF IInv
<1>3. /\ failed \subseteq failed' /\ failed' \subseteq failed \cup {Update(g)}
      /\ queued' \subseteq Updates /\ failed' \subseteq Updates /\ Kept'
  <2>1. CASE UNCHANGED outcome
    BY <2>1 DEF IInv, TypeOK, Kept, fixed, outcome
  <2>2. CASE Enqueue(g)
    BY <1>1, <2>2, EnqueueKeeps DEF IInv, fixed
  <2> QED
    BY <2>1, <2>2
<1>4. TypeOK'
  BY <1>1, <1>2, <1>3 DEF IInv, TypeOK, fixed, Place
<1>5. BusyIsSeated'
  BY <1>2 DEF IInv, BusyIsSeated
<1>6. NotYet'
  <2> SUFFICES ASSUME NEW h \in Games, NEW s \in 1 .. 2
      PROVE  /\ thread'[h].seat < s => <<h, s>> \notin table.counted
             /\ thread'[h].seat = s /\ thread'[h].at # "commit" =>
                  <<h, s>> \notin table.counted
             /\ thread'[h].seat <= s => <<h, s>> \notin failed'
    BY DEF NotYet
  <2>1. /\ thread[h].seat < s => <<h, s>> \notin table.counted
        /\ thread[h].seat = s /\ thread[h].at # "commit" =>
             <<h, s>> \notin table.counted
        /\ thread[h].seat <= s => <<h, s>> \notin failed
    BY DEF IInv, NotYet
  <2>2. CASE h = g
    <3>1. thread'[h].seat <= s => thread[h].seat < s
      BY <1>1, <1>2, <2>2
    <3>2. thread[h].seat < s => thread[h].seat <= s /\ <<h, s>> # Update(g)
      BY <1>1, <2>2
    <3>3. thread'[h].seat < s \/ thread'[h].seat = s => thread'[h].seat <= s
      BY <1>1, <1>2, <2>2
    <3> QED
      BY <1>3, <2>1, <3>1, <3>2, <3>3
  <2>3. CASE h # g
    BY <1>1, <1>2, <1>3, <2>1, <2>3
  <2> QED
    BY <2>2, <2>3
<1>7. AtCommit'
  <2> SUFFICES ASSUME NEW h \in Games, thread'[h].at = "commit"
      PROVE  /\ conn' = "up" => Update(h)' \in table.counted \cup disturbed
             /\ Update(h)' \in exposed'
    BY DEF AtCommit
  <2>1. h # g /\ thread'[h] = thread[h]
    BY <1>2
  <2>2. Update(h)' = Update(h) /\ Update(h) \in Others(g)
    BY <2>1, OthersHave DEF Update, Busy
  <2> QED
    BY <2>1, <2>2 DEF IInv, AtCommit
<1>8. Uncommitted'
  BY DEF Uncommitted
<1>9. Returned'
  <2> SUFFICES ASSUME NEW h \in Games, NEW s \in 1 .. 2, Passed(<<h, s>>)'
      PROVE  /\ <<h, s>> \in (saved.counted \cup failed \cup disturbed)'
             /\ <<h, s>> \in (saved.counted \cap failed)' => <<h, s>> \in exposed'
    BY DEF Returned
  <2>1. Passed(<<h, s>>) \/ <<h, s>> = Update(g)
    BY <1>1, <1>2 DEF Passed
  <2>2. CASE <<h, s>> = Update(g)
    BY <2>2
  <2>3. CASE <<h, s>> # Update(g) /\ Passed(<<h, s>>)
    <3>1. /\ <<h, s>> \in saved.counted \cup failed \cup disturbed
          /\ <<h, s>> \in saved.counted \cap failed => <<h, s>> \in exposed
      BY <2>3 DEF IInv, Returned
    <3>2. <<h, s>> \in table.counted => <<h, s>> \in saved.counted
      <4>1. thread[h].seat # s
        BY <2>3 DEF IInv, TypeOK, Passed
      <4> QED
        BY <4>1 DEF IInv, Uncommitted
    <3>3. saved.counted \subseteq table.counted
      BY DEF IInv, TypeOK
    <3> QED
      BY <1>3, <2>3, <3>1, <3>2, <3>3
  <2> QED
    BY <2>1, <2>2, <2>3
<1> QED
  BY <1>4, <1>5, <1>6, <1>7, <1>8, <1>9, <1>3

(* A commit returns the thread: its update is saved or was disturbed.  Only *)
(* with a cursor of another connection can it fail after that, and then it *)
(* was not this commit that saved the update.                              *)
LEMMA CommitKeeps ==
  ASSUME IInv, NEW g \in Games, Commit(g)
  PROVE  IInv'
<1>1. /\ Busy(g) /\ thread[g].at = "commit" /\ conn = "up"
      /\ saved' = table /\ Return(g) /\ exposed' = exposed \cup Others(g)
      /\ UNCHANGED <<fixed, conn, object, table, faults, skipped, disturbed>>
  BY DEF Commit, Busy
<1>2. /\ thread[g].seat \in 1 .. 2 /\ Update(g) = <<g, thread[g].seat>>
      /\ Update(g) \in Updates
  BY <1>1, UpdateOf DEF IInv, BusyIsSeated, Update
<1>3. Update(g) \in table.counted \cup disturbed
  BY <1>1 DEF IInv, AtCommit
<1>4. Update(g) \notin failed
  <2>1. thread[g].seat <= thread[g].seat
    BY <1>2
  <2> QED
    BY <1>2, <2>1 DEF IInv, NotYet
<1>5. UNCHANGED outcome \/ (thread[g].cursor # object /\ Enqueue(g))
  BY <1>1 DEF Commit, Usable
<1>6. thread[g].cursor # object /\ Update(g) \in table.counted =>
        Update(g) \in exposed
  <2>1. thread[g].cursor # object /\ Update(g) \in table.counted =>
          Update(g) \in saved.counted
    BY <1>2 DEF IInv, Uncommitted
  <2> QED
    BY <1>1, <2>1 DEF IInv, AtCommit
<1>7. Update(g) \in table.counted \cap failed' => Update(g) \in exposed'
  BY <1>1, <1>4, <1>5, <1>6 DEF outcome
<1>8. /\ TypeOK' /\ BusyIsSeated'
      /\ NotYet' /\ AtCommit' /\ Uncommitted' /\ Returned' /\ Kept'
  <2>1. faults' \in 0 .. MaxFaults
    BY <1>1 DEF IInv, TypeOK
  <2> QED
    BY <1>1, <1>3, <1>5, <1>7, <2>1, SaveKeeps
<1>9. NothingFails'
  <2>1. thread'[g].at = "idle" /\ \A h \in Games \ {g} : thread'[h] = thread[h]
    BY <1>1, <1>2, ReturnMoves DEF IInv
  <2>2. faults = 0 /\ known = Ais => UNCHANGED outcome
    <3>1. faults = 0 /\ known = Ais => thread[g].cursor = 1 /\ object = 1
      BY <1>1 DEF IInv, NothingFails
    <3> QED
      BY <1>5, <3>1
  <2> QED
    BY <1>1, <2>1, <2>2 DEF IInv, NothingFails, Busy, fixed, outcome
<1> QED
  BY <1>8, <1>9 DEF IInv

(* The update may be saved and is queued: it counts as exposed.            *)
LEMMA CommitUnknownKeeps ==
  ASSUME IInv, NEW g \in Games, CommitUnknown(g)
  PROVE  IInv'
<1>1. /\ Busy(g) /\ thread[g].at = "commit" /\ conn' = "down"
      /\ saved' = table /\ Return(g) /\ Enqueue(g)
      /\ exposed' = exposed \cup Others(g) \cup {Update(g)}
      /\ UNCHANGED <<fixed, object, table, skipped, disturbed>>
  BY DEF CommitUnknown, Busy
<1>2. faults' \in 0 .. MaxFaults /\ faults' > 0
  BY StatisticsAssumption
  DEF IInv, TypeOK, CommitUnknown, Fault, StatisticsAssumption
<1>3. Update(g) \in failed'
  BY <1>1 DEF Enqueue
<1>4. /\ TypeOK' /\ BusyIsSeated'
      /\ NotYet' /\ AtCommit' /\ Uncommitted' /\ Returned' /\ Kept'
  BY <1>1, <1>2, <1>3, SaveKeeps
<1>5. NothingFails'
  BY <1>2 DEF NothingFails
<1> QED
  BY <1>4, <1>5 DEF IInv

(* A statement fails only after a fault or for want of a row.              *)
LEMMA StatementFailsKeeps ==
  ASSUME IInv, NEW g \in Games, StatementFails(g)
  PROVE  IInv'
<1>1. Busy(g) /\ Raise(g) /\ faults' = faults /\ known' = known
  BY DEF StatementFails, Busy, Raise, fixed
<1>2. faults' \in 0 .. MaxFaults
  BY <1>1 DEF IInv, TypeOK
<1>3. /\ TypeOK' /\ BusyIsSeated'
      /\ NotYet' /\ AtCommit' /\ Uncommitted' /\ Returned' /\ Kept'
  BY <1>1, <1>2, RaiseKeeps
<1>4. ~ (faults = 0 /\ known = Ais)
  BY <1>1 DEF IInv, NothingFails, StatementFails, Usable
<1>5. NothingFails'
  BY <1>1, <1>4 DEF NothingFails
<1> QED
  BY <1>3, <1>5 DEF IInv

(* Two threads collide: that is a fault.                                   *)
LEMMA CollideKeeps ==
  ASSUME IInv, NEW g \in Games, Collide(g)
  PROVE  IInv'
<1>1. Busy(g) /\ Raise(g)
  BY DEF Collide
<1>2. faults' \in 0 .. MaxFaults /\ faults' > 0
  BY StatisticsAssumption DEF IInv, TypeOK, Collide, Fault, StatisticsAssumption
<1>3. /\ TypeOK' /\ BusyIsSeated'
      /\ NotYet' /\ AtCommit' /\ Uncommitted' /\ Returned' /\ Kept'
  BY <1>1, <1>2, RaiseKeeps
<1>4. NothingFails'
  BY <1>2 DEF NothingFails
<1> QED
  BY <1>3, <1>4 DEF IInv

-----------------------------------------------------------------------------
(* At first nothing has been counted.                                      *)
LEMMA InitKeeps == Init => IInv
<1> SUFFICES ASSUME Init PROVE IInv
  OBVIOUS
<1>1. TypeOK
  BY StatisticsAssumption DEF Init, TypeOK, StatisticsAssumption
<1>2. BusyIsSeated /\ NotYet /\ AtCommit /\ Uncommitted
  BY DEF Init, BusyIsSeated, Busy, NotYet, AtCommit, Uncommitted
<1>3. Returned /\ Kept
  BY DEF Init, Returned, Passed, Kept
<1>4. NothingFails
  BY DEF Init, NothingFails, Busy
<1> QED
  BY <1>1, <1>2, <1>3, <1>4 DEF IInv

(* Every step keeps the invariant.                                         *)
LEMMA StepKeeps == IInv /\ [Next]_vars => IInv'
<1> SUFFICES ASSUME IInv, [Next]_vars PROVE IInv'
  OBVIOUS
<1>1. ASSUME NEW g \in Games, End(g) PROVE IInv'
  BY <1>1, EndKeeps
<1>2. ASSUME NEW g \in Games, Thread(g) PROVE IInv'
  BY <1>2, PingKeeps, FindNoneKeeps, OpenKeeps, UpdateRowKeeps,
     InsertRowKeeps, CommitKeeps, StatementFailsKeeps
  DEF Thread
<1>3. ASSUME NEW g \in Games, Breaks(g) PROVE IInv'
  BY <1>3, PingFailsKeeps, RetryKeeps, GiveUpKeeps, CollideKeeps,
     CommitUnknownKeeps
  DEF Breaks
<1>4. CASE Drop
  BY <1>4, DropKeeps
<1>5. CASE UNCHANGED vars
  <2>1. /\ TypeOK' /\ BusyIsSeated' /\ NotYet' /\ AtCommit'
    BY <1>5 DEF IInv, TypeOK, BusyIsSeated, Busy, NotYet, AtCommit, Update,
                vars, fixed, shared, outcome, history
  <2>2. Uncommitted' /\ Returned' /\ NothingFails'
    BY <1>5 DEF IInv, Uncommitted, Returned, Passed, NothingFails, Busy,
                vars, fixed, shared, outcome, history
  <2>3. Kept'
    BY <1>5 DEF IInv, Kept, vars, fixed, outcome
  <2> QED
    BY <2>1, <2>2, <2>3 DEF IInv
<1> QED
  BY <1>1, <1>2, <1>3, <1>4, <1>5 DEF Next

(* The argument of both theorems: all parts of IInv hold together, none of *)
(* AtCommit, Uncommitted and Returned without the others.                  *)
THEOREM Invariance == Spec => []IInv
  BY InitKeeps, StepKeeps, PTL DEF Spec

(* The shapes of the connection, the transaction and the threads.          *)
THEOREM TypeCorrect == Spec => []TypeOK
<1>1. IInv => TypeOK
  BY DEF IInv
<1> QED
  BY <1>1, Invariance, PTL

(* An update of a game's statistics is committed or has failed, and where  *)
(* the queue is on it is kept then; it is lost otherwise, or counted twice, *)
(* only if a thread ended the transaction of another and something failed. *)
THEOREM EveryUpdateCounted == Spec => []CountedOnce
<1>1. IInv => CountedOnce
  <2> SUFFICES ASSUME IInv, NEW u \in Updates, Passed(u)
      PROVE  /\ u \notin saved.counted => u \in disturbed \cup failed
             /\ u \in saved.counted \cap failed => u \in exposed
             /\ u \in failed /\ usesQueue => u \in queued
             /\ u \notin saved.counted \/ u \in failed =>
                  faults > 0 \/ known # Ais
    BY DEF CountedOnce
  <2>1. PICK g \in Games, s \in 1 .. 2 : u = <<g, s>>
    BY DEF Updates
  <2>2. /\ u \in saved.counted \cup failed \cup disturbed
        /\ u \in saved.counted \cap failed => u \in exposed
    BY <2>1 DEF IInv, Returned
  <2>3. u \in disturbed \/ u \in failed => faults > 0 \/ known # Ais
    BY DEF IInv, TypeOK, NothingFails
  <2>4. u \in failed /\ usesQueue => u \in queued
    BY DEF IInv, Kept
  <2> QED
    BY <2>2, <2>3, <2>4
<1> QED
  BY <1>1, Invariance, PTL
=============================================================================
