---------------------------- MODULE DbQueueProofs ----------------------------
(***************************************************************************)
(* Theorems about DbQueue, for every set of calls and however often a      *)
(* write fails, an overwrite raises or the game server is restarted.       *)
(***************************************************************************)
EXTENDS DbQueue, TLAPS

(* The records of a list of items.                                         *)
Recs(items) == {items[i].rec : i \in DOMAIN items}

Distinct(items) ==
  \A i, j \in DOMAIN items : items[i].rec = items[j].rec => i = j

(* Holding a record is having it among one's records.                      *)
LEMMA HoldsRecs ==
  ASSUME NEW items, NEW rec
  PROVE  Holds(items, rec) <=> rec \in Recs(items)
BY DEF Holds, Recs

(* The empty list.                                                         *)
LEMMA EmptyRecs == <<>> \in Seq(Item) /\ Recs(<<>>) = {} /\ Distinct(<<>>)
BY DEF Recs, Distinct

(* Appending an item adds its record.                                      *)
LEMMA AppendRecs ==
  ASSUME NEW s \in Seq(Item), NEW x \in Item
  PROVE  /\ Append(s, x) \in Seq(Item)
         /\ Recs(Append(s, x)) = Recs(s) \cup {x.rec}
         /\ Distinct(s) /\ x.rec \notin Recs(s) => Distinct(Append(s, x))
<1> DEFINE t == Append(s, x)
<1>1. /\ t \in Seq(Item) /\ Len(t) = Len(s) + 1
      /\ \A i \in 1 .. Len(s) : t[i] = s[i]
      /\ t[Len(s) + 1] = x
  OBVIOUS
<1>2. /\ DOMAIN s = 1 .. Len(s) /\ DOMAIN t = (1 .. Len(s)) \cup {Len(s) + 1}
      /\ Len(s) + 1 \notin 1 .. Len(s)
  BY <1>1
<1> HIDE DEF t
<1>3. Recs(t) = Recs(s) \cup {x.rec}
  BY <1>1, <1>2 DEF Recs
<1>4. Distinct(s) /\ x.rec \notin Recs(s) => Distinct(t)
  BY <1>1, <1>2 DEF Recs, Distinct
<1> QED
  BY <1>1, <1>3, <1>4 DEF t

(* The first item and the others.                                          *)
LEMMA HeadTailRecs ==
  ASSUME NEW s \in Seq(Item), s # <<>>
  PROVE  /\ Head(s) \in Item /\ Tail(s) \in Seq(Item)
         /\ Recs(s) = {Head(s).rec} \cup Recs(Tail(s))
         /\ Distinct(s) => Distinct(Tail(s)) /\ Head(s).rec \notin Recs(Tail(s))
<1> DEFINE t == Tail(s)
           h == Head(s)
<1>1. /\ h \in Item /\ t \in Seq(Item) /\ h = s[1] /\ Len(s) >= 1
      /\ \A i \in 1 .. Len(s) - 1 : t[i] = s[i + 1]
  OBVIOUS
<1>2. DOMAIN s = 1 .. Len(s) /\ DOMAIN t = 1 .. Len(s) - 1 /\ Len(s) \in Nat
  BY <1>1
<1> HIDE DEF t, h
<1>3. \A i \in DOMAIN s : i = 1 \/ (i - 1 \in DOMAIN t /\ t[i - 1] = s[i])
  BY <1>1, <1>2
<1>4. \A i \in DOMAIN t : i + 1 \in DOMAIN s /\ i + 1 # 1 /\ t[i] = s[i + 1]
  BY <1>1, <1>2
<1>5. 1 \in DOMAIN s
  BY <1>1, <1>2
<1>6. Recs(s) = {h.rec} \cup Recs(t)
  <2>1. ASSUME NEW i \in DOMAIN s PROVE s[i].rec \in {h.rec} \cup Recs(t)
    BY <1>1, <1>3 DEF Recs
  <2>2. ASSUME NEW i \in DOMAIN t PROVE t[i].rec \in Recs(s)
    BY <1>4 DEF Recs
  <2>3. h.rec \in Recs(s)
    BY <1>1, <1>5 DEF Recs
  <2>4. /\ \A c \in Recs(s) : \E i \in DOMAIN s : c = s[i].rec
        /\ \A c \in Recs(t) : \E i \in DOMAIN t : c = t[i].rec
    BY DEF Recs
  <2> QED
    BY <2>1, <2>2, <2>3, <2>4
<1>7. ASSUME Distinct(s) PROVE Distinct(t) /\ h.rec \notin Recs(t)
  <2>1. Distinct(t)
    <3> SUFFICES ASSUME NEW i \in DOMAIN t, NEW j \in DOMAIN t,
                        t[i].rec = t[j].rec
                 PROVE  i = j
      BY DEF Distinct
    <3> DEFINE a == i + 1
               b == j + 1
    <3>1. /\ a \in DOMAIN s /\ b \in DOMAIN s
          /\ t[i] = s[a] /\ t[j] = s[b]
      BY <1>4
    <3>2. a = b
      <4> HIDE DEF a, b
      <4> QED
        BY <3>1, <1>7 DEF Distinct
    <3> QED
      BY <3>2, <1>2
  <2>2. h.rec \notin Recs(t)
    BY <1>1, <1>4, <1>5, <1>7 DEF Distinct, Recs
  <2> QED
    BY <2>1, <2>2
<1> QED
  BY <1>1, <1>6, <1>7 DEF t, h

(* Two lists, one after the other.                                         *)
LEMMA ConcatRecs ==
  ASSUME NEW s \in Seq(Item), NEW t \in Seq(Item)
  PROVE  s \o t \in Seq(Item) /\ Recs(s \o t) = Recs(s) \cup Recs(t)
<1> DEFINE u == s \o t
<1>1. /\ u \in Seq(Item) /\ Len(u) = Len(s) + Len(t)
      /\ \A i \in 1 .. Len(s) : u[i] = s[i]
      /\ \A i \in 1 .. Len(t) : u[i + Len(s)] = t[i]
      /\ \A i \in 1 .. Len(u) : i > Len(s) => u[i] = t[i - Len(s)]
  OBVIOUS
<1>2. /\ DOMAIN s = 1 .. Len(s) /\ DOMAIN t = 1 .. Len(t)
      /\ DOMAIN u = 1 .. Len(u) /\ Len(s) \in Nat /\ Len(t) \in Nat
  BY <1>1
<1> HIDE DEF u
<1>3. \A i \in DOMAIN u : i \in DOMAIN s \/ i - Len(s) \in DOMAIN t
  BY <1>1, <1>2
<1>4. \A i \in DOMAIN s : i \in DOMAIN u
  BY <1>1, <1>2
<1>5. \A i \in DOMAIN t : i + Len(s) \in DOMAIN u
  BY <1>1, <1>2
<1>6. Recs(u) \subseteq Recs(s) \cup Recs(t)
  <2> SUFFICES ASSUME NEW i \in DOMAIN u
               PROVE  u[i].rec \in Recs(s) \cup Recs(t)
    BY DEF Recs
  <2>1. CASE i \in DOMAIN s
    BY <2>1, <1>1, <1>2 DEF Recs
  <2>2. CASE i \notin DOMAIN s
    <3>1. i > Len(s) /\ i \in 1 .. Len(u) /\ i - Len(s) \in DOMAIN t
      BY <2>2, <1>2, <1>3
    <3> QED
      BY <3>1, <1>1 DEF Recs
  <2> QED
    BY <2>1, <2>2
<1>7. Recs(s) \subseteq Recs(u)
  BY <1>1, <1>2, <1>4 DEF Recs
<1>8. Recs(t) \subseteq Recs(u)
  BY <1>1, <1>2, <1>5 DEF Recs
<1> QED
  BY <1>1, <1>6, <1>7, <1>8 DEF u

(* The records of items are calls.                                         *)
LEMMA RecsAreCalls ==
  ASSUME NEW s \in Seq(Item)
  PROVE  Recs(s) \subseteq Calls
<1>1. \A i \in DOMAIN s : s[i] \in Item
  OBVIOUS
<1> QED
  BY <1>1 DEF Recs, Item

-----------------------------------------------------------------------------
(* What a flush has in its hands.                                          *)
Kept(w) == Recs(batch[w]) \cup Recs(remaining[w])

(* A thread starts at most one worker.                                     *)
StartsOnce == \A c \in Calls : call[c] # "done" => worker[c] = "none"

(* Between two flushes a worker holds nothing, and it writes only when it  *)
(* has processed all items.                                                *)
AtRest ==
  \A w \in Calls :
    /\ worker[w] # "flushing" => batch[w] = <<>>
    /\ w \notin Busy => remaining[w] = <<>>

OneBusy == "overlap" \notin excuse => \A v, w \in Busy : v = w

(* What a flush holds is still in the file, in case of a crash; what is in *)
(* the file is stored or in the flush's hands, so that it can be truncated.*)
Covered ==
  excuse \cap {"overlap", "torn"} = {} =>
    \A w \in Busy :
      /\ worker[w] = "flushing" =>
           /\ Kept(w) \subseteq Recs(file)
           /\ \A c \in Recs(file) : stored[c] > 0 \/ c \in Kept(w)
      /\ worker[w] = "writing" => file = <<>>

(* The record of a call that has not been made is nowhere.                 *)
NotYet ==
  excuse = {} =>
    \A c \in Calls : call[c] = "calling" =>
      /\ stored[c] = 0 /\ c \notin Recs(file)
      /\ \A w \in Calls : c \notin Kept(w)

(* What a flush still has to write, or could not write, is there once and  *)
(* not stored.                                                             *)
HeldOnce ==
  excuse = {} =>
    \A w \in Busy :
      /\ Distinct(batch[w]) /\ Distinct(remaining[w])
      /\ Recs(batch[w]) \cap Recs(remaining[w]) = {}
      /\ \A c \in Kept(w) : stored[c] = 0

(* Between two flushes the same is true of the file.                       *)
FiledOnce ==
  excuse = {} /\ Busy = {} =>
    Distinct(file) /\ \A c \in Recs(file) : stored[c] = 0

(* Without the setting a record whose write failed is not kept at all.     *)
Queued == UsesQueue => NothingLost

IInv ==
  /\ TypeOK
  /\ StartsOnce /\ AtRest /\ OneBusy /\ Covered
  /\ NotYet /\ HeldOnce /\ FiledOnce /\ NoDuplicates /\ Queued

(* A record in some hand is in the hand of a busy worker.                  *)
LEMMA HandIsBusy ==
  ASSUME AtRest, NEW w \in Calls, NEW c, c \in Kept(w)
  PROVE  w \in Busy
BY EmptyRecs DEF AtRest, Kept, Busy

(* A record is in hand when a call has kept it.                            *)
LEMMA InHandKept ==
  ASSUME NEW c
  PROVE  InHand(c) <=> \E w \in Calls : c \in Kept(w)
BY HoldsRecs DEF InHand, Kept

(* A record that could not be written the first time is somewhere.         *)
Safe(c) == stored[c] > 0 \/ c \in Recs(file) \/ \E w \in Calls : c \in Kept(w)

(* What NothingLost says, in terms of records.                             *)
LEMMA SafeGiven ==
  Queued <=> (UsesQueue /\ Orderly => \A c \in given : Safe(c))
BY HoldsRecs, InHandKept DEF Queued, NothingLost, Orderly, Safe

(* Queued after a step, record by record.                                  *)
LEMMA SafeGivenNext ==
  Queued' <=> (UsesQueue /\ Orderly' => \A c \in given' : Safe(c)')
<1>1. \A items, rec : Holds(items, rec) <=> rec \in Recs(items)
  BY HoldsRecs
<1> QED
  BY <1>1 DEF Queued, NothingLost, InHand, Kept, Orderly, Safe

(* A step that forgets no record.                                          *)
LEMMA KeepsSafe ==
  ASSUME TypeOK, Queued, given' = given, Orderly' => Orderly,
         Orderly' => \A c \in Calls : Safe(c) => Safe(c)'
  PROVE  Queued'
<1>1. given \subseteq Calls
  BY DEF TypeOK
<1> QED
  BY <1>1, SafeGiven, SafeGivenNext

(* What happened stays happened.                                           *)
LEMMA OrderlyBefore ==
  ASSUME excuse \subseteq excuse'
  PROVE  Orderly' => Orderly /\ "overlap" \notin excuse /\ "overlap" \notin excuse'
                             /\ "torn" \notin excuse'
BY DEF Orderly

(* Storing a record changes the count of this record only.                 *)
LEMMA StoreEffect ==
  ASSUME TypeOK, NEW rec \in Calls, Store(rec)
  PROVE  /\ stored' \in [Calls -> Nat] /\ stored'[rec] > 0
         /\ \A c \in Calls : stored[c] > 0 => stored'[c] > 0
         /\ \A c \in Calls \ {rec} : stored'[c] = stored[c]
         /\ stored[rec] = 0 => stored'[rec] = 1
<1>1. stored \in [Calls -> Nat]
  BY DEF TypeOK
<1>2. CASE rec.kind = "winner"
  BY <1>1, <1>2 DEF Store
<1>3. CASE rec.kind # "winner"
  <2>1. stored[rec] \in Nat /\ stored[rec] + 1 \in Nat
    BY <1>1
  <2>2. stored' = [stored EXCEPT ![rec] = stored[rec] + 1]
    BY <1>3 DEF Store
  <2> QED
    BY <1>1, <2>1, <2>2
<1> QED
  BY <1>2, <1>3

(* An enqueued record is at the end of the file, if there is a file.       *)
LEMMA EnqueueEffect ==
  ASSUME file \in Seq(Item), NEW rec \in Calls, Enqueue(rec)
  PROVE  /\ file' \in Seq(Item)
         /\ Recs(file) \subseteq Recs(file')
         /\ Recs(file') \subseteq Recs(file) \cup {rec}
         /\ UsesQueue => rec \in Recs(file')
         /\ Distinct(file) /\ rec \notin Recs(file) => Distinct(file')
<1>1. Fresh(rec) \in Item /\ Fresh(rec).rec = rec
  BY DEF Fresh, Item
<1>2. CASE UsesQueue
  <2>1. file' = Append(file, Fresh(rec))
    BY <1>2 DEF Enqueue
  <2> QED
    BY <1>1, <2>1, AppendRecs
<1>3. CASE ~UsesQueue
  BY <1>3 DEF Enqueue
<1> QED
  BY <1>2, <1>3

(* The item a flush is about to process.                                   *)
LEMMA ItemInHand ==
  ASSUME TypeOK, NEW w \in Calls, batch[w] # <<>>
  PROVE  /\ Head(batch[w]) \in Item /\ Head(batch[w]).rec \in Calls
         /\ Tail(batch[w]) \in Seq(Item)
<1>1. batch[w] \in Seq(Item)
  BY DEF TypeOK
<1> QED
  BY <1>1, HeadTailRecs DEF Item

-----------------------------------------------------------------------------
(* Types.                                                                  *)
LEMMA InitType == Init => TypeOK
<1> SUFFICES ASSUME Init PROVE TypeOK
  OBVIOUS
<1>1. file \in Seq(Item) /\ [c \in Calls |-> <<>>] \in [Calls -> Seq(Item)]
  BY EmptyRecs DEF Init
<1>2. batch \in [Calls -> Seq(Item)] /\ remaining \in [Calls -> Seq(Item)]
  BY <1>1 DEF Init
<1>3. /\ stored \in [Calls -> Nat] /\ mapped \in [Calls -> SUBSET Calls]
      /\ worker \in [Calls -> {"none", "idle", "flushing", "writing"}]
      /\ call \in [Calls -> {"calling", "enqueued", "starting", "done"}]
  BY DEF Init
<1>4. /\ running \in BOOLEAN /\ given = {} /\ excuse = {}
      /\ importable \in BOOLEAN
      /\ outages \in Nat /\ errors \in Nat /\ crashes \in Nat
  BY DEF Init
<1> QED
  BY <1>1, <1>2, <1>3, <1>4 DEF TypeOK

(* The steps of the calls and the workers keep the types.                  *)
LEMMA ThreadType ==
  ASSUME TypeOK, NEW c \in Calls, Thread(c)
  PROVE  TypeOK'
<1>1. CASE CallStores(c)
  BY <1>1, StoreEffect DEF CallStores, TypeOK
<1>2. CASE CallFails(c)
  <2>1. file' \in Seq(Item)
    BY <1>2, EnqueueEffect DEF CallFails, TypeOK
  <2>2. outages' \in Nat
    BY <1>2 DEF CallFails, WriteFails, TypeOK
  <2>3. /\ call' = [call EXCEPT ![c] = IF UsesQueue THEN "enqueued" ELSE "done"]
        /\ given' = given \cup {c}
        /\ excuse' \subseteq excuse \cup {"overlap"}
        /\ UNCHANGED <<stored, running, worker, batch, remaining, mapped,
                       importable, errors, crashes>>
    BY <1>2 DEF CallFails
  <2> QED
    BY <2>1, <2>2, <2>3 DEF TypeOK
<1>3. CASE CheckWorker(c)
  BY <1>3 DEF CheckWorker, TypeOK
<1>4. CASE StartWorker(c)
  BY <1>4 DEF StartWorker, TypeOK
<1> QED
  BY <1>1, <1>2, <1>3, <1>4 DEF Thread

(* A flush keeps the types.                                                *)
LEMMA FlushType ==
  ASSUME TypeOK, NEW w \in Calls, Flush(w)
  PROVE  TypeOK'
<1>1. CASE FlushRead(w)
  <2>1. excuse' \subseteq excuse \cup {"overlap"}
    BY <1>1 DEF FlushRead
  <2> QED
    BY <1>1, <2>1, EmptyRecs DEF FlushRead, TypeOK
<1>2. CASE FlushStores(w)
  <2> DEFINE item == Head(batch[w])
  <2>1. item.rec \in Calls /\ Tail(batch[w]) \in Seq(Item)
    BY <1>2, ItemInHand DEF FlushStores
  <2>2. stored' \in [Calls -> Nat]
    BY <1>2, <2>1, StoreEffect DEF FlushStores
  <2>3. mapped' \in [Calls -> SUBSET Calls]
    <3>1. mapped' = [mapped EXCEPT ![w] = IF item.rec.kind = "info"
                                          THEN mapped[w] \cup {item.rec}
                                          ELSE mapped[w]]
      BY <1>2 DEF FlushStores
    <3> HIDE DEF item
    <3> QED
      BY <2>1, <3>1 DEF TypeOK
  <2>4. /\ batch' = [batch EXCEPT ![w] = Tail(batch[w])]
        /\ UNCHANGED <<file, call, running, worker, remaining, outages, importable,
                       errors, crashes, given, excuse>>
    BY <1>2 DEF FlushStores
  <2> QED
    BY <2>1, <2>2, <2>3, <2>4 DEF TypeOK
<1>3. CASE FlushFails(w)
  <2> DEFINE item == Head(batch[w])
             failed == [item EXCEPT !.spoiled = Spoils(w, item)]
  <2>1. /\ item \in Item /\ item.rec \in Calls
        /\ Tail(batch[w]) \in Seq(Item)
    BY <1>3, ItemInHand DEF FlushFails
  <2>2. failed \in Item
    <3>1. Spoils(w, item) \in BOOLEAN
      BY <2>1 DEF Spoils, Item
    <3> QED
      BY <2>1, <3>1 DEF Item
  <2>3. file' \in Seq(Item) /\ outages' \in Nat
    BY <1>3, <2>1, EnqueueEffect DEF FlushFails, WriteFails, TypeOK
  <2>4. /\ remaining' = [remaining EXCEPT ![w] = Append(remaining[w], failed)]
        /\ batch' = [batch EXCEPT ![w] = Tail(batch[w])]
        /\ UNCHANGED <<stored, call, running, worker, mapped, importable,
                       errors, crashes, given, excuse>>
    BY <1>3 DEF FlushFails
  <2> HIDE DEF failed
  <2>5. Append(remaining[w], failed) \in Seq(Item)
    BY <2>2, AppendRecs DEF TypeOK
  <2> QED
    BY <2>1, <2>3, <2>4, <2>5 DEF TypeOK
<1>4. CASE FlushTruncates(w)
  BY <1>4, EmptyRecs DEF FlushTruncates, TypeOK
<1>5. CASE FlushWrites(w)
  BY <1>5, EmptyRecs DEF FlushWrites, TypeOK
<1>6. CASE FlushRaises(w)
  <2>1. remaining[w] \in Seq(Item) /\ file \o remaining[w] \in Seq(Item)
    BY ConcatRecs DEF TypeOK
  <2>2. excuse' = excuse \cup {"error"} /\ errors' = errors + 1
    BY <1>6 DEF FlushRaises
  <2>3. /\ worker' = [worker EXCEPT ![w] = "idle"]
        /\ file' = file \o remaining[w]
        /\ remaining' = [remaining EXCEPT ![w] = <<>>]
        /\ UNCHANGED <<stored, call, running, batch, mapped, outages, crashes,
                       given, importable>>
    BY <1>6 DEF FlushRaises
  <2> QED
    BY <2>1, <2>2, <2>3, EmptyRecs DEF TypeOK
<1> QED
  BY <1>1, <1>2, <1>3, <1>4, <1>5, <1>6 DEF Flush

(* A restart keeps the types.                                              *)
LEMMA CrashType ==
  ASSUME TypeOK, Crash
  PROVE  TypeOK'
<1>1. excuse' \subseteq excuse \cup {"crash", "torn"} /\ crashes' = crashes + 1
  BY DEF Crash
<1>2. call' \in [Calls -> {"calling", "enqueued", "starting", "done"}]
  BY DEF Crash
<1>3. [c \in Calls |-> <<>>] \in [Calls -> Seq(Item)]
  BY EmptyRecs
<1>4. batch' \in [Calls -> Seq(Item)] /\ remaining' \in [Calls -> Seq(Item)]
  BY <1>3 DEF Crash
<1>5. /\ running' \in BOOLEAN /\ mapped' \in [Calls -> SUBSET Calls]
      /\ worker' \in [Calls -> {"none", "idle", "flushing", "writing"}]
      /\ UNCHANGED <<file, stored, outages, importable, errors, given>>
  BY DEF Crash
<1> QED
  BY <1>1, <1>2, <1>4, <1>5 DEF TypeOK

(* Every step keeps the types.                                             *)
LEMMA TypeStep == TypeOK /\ [Next]_vars => TypeOK'
<1> SUFFICES ASSUME TypeOK, [Next]_vars PROVE TypeOK'
  OBVIOUS
<1>1. CASE UNCHANGED vars
  BY <1>1 DEF TypeOK, vars
<1> QED
  BY <1>1, ThreadType, FlushType, CrashType DEF Next

(* The file, the databases' counts and the threads keep their shapes.      *)
THEOREM TypeCorrect == Spec => []TypeOK
  BY InitType, TypeStep, PTL DEF Spec

-----------------------------------------------------------------------------
(* The parts of the invariant that are about who is doing what.            *)
Steady == StartsOnce /\ AtRest /\ OneBusy

(* A busy worker that nothing overlapped is the only one.                  *)
LEMMA Alone ==
  ASSUME Steady, "overlap" \notin excuse, NEW w \in Busy
  PROVE  \A v \in Calls \ {w} : v \notin Busy /\ Kept(v) = {}
<1> SUFFICES ASSUME NEW v \in Calls \ {w}
             PROVE  v \notin Busy /\ Kept(v) = {}
  OBVIOUS
<1>1. v \notin Busy
  BY DEF Steady, OneBusy
<1> QED
  BY <1>1, HandIsBusy DEF Steady

(* Without a busy worker nothing is in hand.                               *)
LEMMA NobodyHolds ==
  ASSUME Steady, Busy = {}
  PROVE  \A v \in Calls : Kept(v) = {}
BY HandIsBusy DEF Steady

(* A step that leaves the workers and what they hold alone.                *)
LEMMA SteadyFrame ==
  ASSUME Steady, UNCHANGED <<worker, batch, remaining>>, excuse \subseteq excuse',
         \A c \in Calls : call'[c] # "done" => worker[c] = "none"
  PROVE  Steady'
BY DEF Steady, StartsOnce, AtRest, OneBusy, Busy

(* Every step keeps this part.                                             *)
LEMMA SteadyStep ==
  ASSUME TypeOK, Steady, [Next]_vars
  PROVE  Steady'
<1>1. ASSUME NEW c \in Calls, CallStores(c) PROVE Steady'
  <2>1. \A d \in Calls : call'[d] # "done" => call[d] # "done"
    BY <1>1 DEF CallStores, TypeOK
  <2> QED
    BY <1>1, <2>1, SteadyFrame DEF CallStores, Steady, StartsOnce
<1>2. ASSUME NEW c \in Calls, CallFails(c) PROVE Steady'
  <2>1. \A d \in Calls : call'[d] # "done" => call[d] # "done"
    BY <1>2 DEF CallFails, TypeOK
  <2>2. excuse \subseteq excuse'
    BY <1>2 DEF CallFails
  <2> QED
    BY <1>2, <2>1, <2>2, SteadyFrame DEF CallFails, Steady, StartsOnce
<1>3. ASSUME NEW c \in Calls, CheckWorker(c) PROVE Steady'
  <2>1. \A d \in Calls : call'[d] # "done" => call[d] # "done"
    BY <1>3 DEF CheckWorker, TypeOK
  <2> QED
    BY <1>3, <2>1, SteadyFrame DEF CheckWorker, Steady, StartsOnce
<1>4. ASSUME NEW c \in Calls, StartWorker(c) PROVE Steady'
  <2>1. /\ worker[c] = "none" /\ worker' = [worker EXCEPT ![c] = "idle"]
        /\ call' = [call EXCEPT ![c] = "done"]
        /\ UNCHANGED <<batch, remaining, excuse>>
    BY <1>4 DEF StartWorker, Steady, StartsOnce
  <2>2. Busy' = Busy
    BY <2>1 DEF Busy, TypeOK
  <2> QED
    BY <2>1, <2>2 DEF Steady, StartsOnce, AtRest, OneBusy, TypeOK
<1>5. ASSUME NEW w \in Calls, FlushRead(w) PROVE Steady'
  <2>1. /\ worker[w] = "idle" /\ worker' = [worker EXCEPT ![w] = "flushing"]
        /\ batch' = [batch EXCEPT ![w] = file]
        /\ remaining' = [remaining EXCEPT ![w] = <<>>]
        /\ call' = call /\ excuse \subseteq excuse'
        /\ Busy # {} => "overlap" \in excuse'
    BY <1>5 DEF FlushRead
  <2>2. Busy' = Busy \cup {w}
    BY <2>1 DEF Busy, TypeOK
  <2>3. StartsOnce' /\ AtRest'
    BY <2>1, <2>2 DEF Steady, StartsOnce, AtRest, TypeOK
  <2>4. OneBusy'
    BY <2>1, <2>2 DEF OneBusy
  <2> QED
    BY <2>3, <2>4 DEF Steady
<1>6. ASSUME NEW w \in Calls, FlushStores(w) \/ FlushFails(w) PROVE Steady'
  <2>1. /\ worker[w] = "flushing" /\ UNCHANGED <<worker, call, excuse>>
        /\ \A v \in Calls \ {w} : /\ batch'[v] = batch[v]
                                  /\ remaining'[v] = remaining[v]
    BY <1>6 DEF FlushStores, FlushFails, TypeOK
  <2>2. Busy' = Busy /\ w \in Busy
    BY <2>1 DEF Busy
  <2> QED
    BY <2>1, <2>2 DEF Steady, StartsOnce, AtRest, OneBusy
<1>7. ASSUME NEW w \in Calls, FlushTruncates(w) PROVE Steady'
  <2>1. /\ worker[w] = "flushing" /\ worker' = [worker EXCEPT ![w] = "writing"]
        /\ batch[w] = <<>>
        /\ UNCHANGED <<call, batch, remaining, excuse>>
    BY <1>7 DEF FlushTruncates
  <2>2. Busy' = Busy /\ w \in Busy
    BY <2>1 DEF Busy, TypeOK
  <2> QED
    BY <2>1, <2>2 DEF Steady, StartsOnce, AtRest, OneBusy, TypeOK
<1>8. ASSUME NEW w \in Calls, FlushWrites(w) \/ FlushRaises(w) PROVE Steady'
  <2>1. /\ worker[w] # "none" /\ worker' = [worker EXCEPT ![w] = "idle"]
        /\ remaining' = [remaining EXCEPT ![w] = <<>>]
        /\ UNCHANGED <<call, batch>> /\ excuse \subseteq excuse'
        /\ worker[w] = "flushing" => batch[w] = <<>>
    BY <1>8 DEF FlushWrites, FlushRaises
  <2>2. Busy' = Busy \ {w}
    BY <2>1 DEF Busy, TypeOK
  <2> QED
    BY <2>1, <2>2 DEF Steady, StartsOnce, AtRest, OneBusy, TypeOK
<1>9. CASE Crash
  <2>1. /\ \A c \in Calls : /\ worker'[c] = "none" /\ batch'[c] = <<>>
                            /\ remaining'[c] = <<>>
    BY <1>9 DEF Crash
  <2>2. Busy' = {}
    BY <2>1 DEF Busy
  <2> QED
    BY <2>1, <2>2 DEF Steady, StartsOnce, AtRest, OneBusy
<1>10. CASE UNCHANGED vars
  BY <1>10, SteadyFrame DEF vars, Steady, StartsOnce
<1> QED
  BY <1>1, <1>2, <1>3, <1>4, <1>5, <1>6, <1>7, <1>8, <1>9, <1>10
  DEF Next, Thread, Flush

-----------------------------------------------------------------------------
(* What processing the first item does to what a flush holds.              *)
LEMMA ProcessEffect ==
  ASSUME TypeOK, NEW w \in Calls, batch[w] # <<>>,
         batch' = [batch EXCEPT ![w] = Tail(batch[w])]
  PROVE  /\ batch'[w] = Tail(batch[w])
         /\ \A v \in Calls \ {w} : batch'[v] = batch[v]
         /\ Recs(batch[w]) = {Head(batch[w]).rec} \cup Recs(batch'[w])
         /\ Head(batch[w]) \in Item /\ Head(batch[w]).rec \in Calls
         /\ Distinct(batch[w]) =>
              /\ Distinct(batch'[w])
              /\ Head(batch[w]).rec \notin Recs(batch'[w])
<1>1. batch[w] \in Seq(Item) /\ batch \in [Calls -> Seq(Item)]
  BY DEF TypeOK
<1>2. batch'[w] = Tail(batch[w]) /\ \A v \in Calls \ {w} : batch'[v] = batch[v]
  BY <1>1
<1> QED
  BY <1>1, <1>2, HeadTailRecs, ItemInHand

(* An item that could not be stored is still held.                         *)
LEMMA FailEffect ==
  ASSUME TypeOK, NEW w \in Calls, FlushFails(w)
  PROVE  /\ \A v \in Calls : Kept(v)' = Kept(v)
         /\ \A v \in Calls \ {w} : remaining'[v] = remaining[v]
         /\ Recs(remaining'[w]) = Recs(remaining[w]) \cup {Head(batch[w]).rec}
         /\ Distinct(remaining[w]) /\ Head(batch[w]).rec \notin Recs(remaining[w])
              => Distinct(remaining'[w])
         /\ Recs(file) \subseteq Recs(file')
         /\ Recs(file') \subseteq Recs(file) \cup {Head(batch[w]).rec}
<1> DEFINE item == Head(batch[w])
           failed == [item EXCEPT !.spoiled = Spoils(w, item)]
<1>1. /\ batch[w] # <<>> /\ batch' = [batch EXCEPT ![w] = Tail(batch[w])]
      /\ remaining' = [remaining EXCEPT ![w] = Append(remaining[w], failed)]
      /\ file' = file \/ Enqueue(item.rec)
  BY DEF FlushFails
<1>2. /\ item \in Item /\ item.rec \in Calls
      /\ Recs(batch[w]) = {item.rec} \cup Recs(batch'[w])
      /\ \A v \in Calls \ {w} : batch'[v] = batch[v]
  BY <1>1, ProcessEffect
<1>3. failed \in Item /\ failed.rec = item.rec
  <2>1. Spoils(w, item) \in BOOLEAN
    BY <1>2 DEF Spoils, Item
  <2> QED
    BY <1>2, <2>1 DEF Item
<1> HIDE DEF failed
<1>4. /\ remaining'[w] = Append(remaining[w], failed)
      /\ \A v \in Calls \ {w} : remaining'[v] = remaining[v]
      /\ remaining[w] \in Seq(Item)
  BY <1>1 DEF TypeOK
<1>5. /\ Recs(remaining'[w]) = Recs(remaining[w]) \cup {item.rec}
      /\ Distinct(remaining[w]) /\ item.rec \notin Recs(remaining[w])
           => Distinct(remaining'[w])
  BY <1>3, <1>4, AppendRecs
<1>6. /\ Recs(file) \subseteq Recs(file')
      /\ Recs(file') \subseteq Recs(file) \cup {item.rec}
  BY <1>1, <1>2, EnqueueEffect DEF TypeOK
<1>7. \A v \in Calls : Kept(v)' = Kept(v)
  BY <1>2, <1>4, <1>5 DEF Kept
<1> QED
  BY <1>4, <1>5, <1>6, <1>7

(* The database functions: their records are stored or queued.             *)
LEMMA ThreadLoses ==
  ASSUME TypeOK, Steady, Covered, Queued, NEW c \in Calls, Thread(c)
  PROVE  Covered' /\ Queued'
<1>1. CASE CallStores(c)
  <2>1. /\ UNCHANGED <<file, worker, batch, remaining, excuse, given>>
        /\ \A d \in Calls : stored[d] > 0 => stored'[d] > 0
    BY <1>1, StoreEffect DEF CallStores
  <2>2. Busy' = Busy /\ \A w \in Calls : Kept(w)' = Kept(w)
    BY <2>1 DEF Busy, Kept
  <2>3. Covered'
    <3>1. Recs(file) \subseteq Calls
      BY RecsAreCalls DEF TypeOK
    <3> QED
      BY <2>1, <2>2, <3>1 DEF Covered, Busy
  <2>4. Queued'
    <3>1. \A d \in Calls : Safe(d) => Safe(d)'
      BY <2>1, <2>2 DEF Safe
    <3> QED
      BY <2>1, <3>1, KeepsSafe DEF Orderly
  <2> QED
    BY <2>3, <2>4
<1>2. CASE CallFails(c)
  <2>1. /\ UNCHANGED <<stored, worker, batch, remaining>>
        /\ Recs(file) \subseteq Recs(file')
        /\ UsesQueue => c \in Recs(file')
        /\ excuse \subseteq excuse'
        /\ Busy # {} => "overlap" \in excuse'
        /\ given' = given \cup {c}
    BY <1>2, EnqueueEffect DEF CallFails, TypeOK
  <2>2. Busy' = Busy /\ \A w \in Calls : Kept(w)' = Kept(w)
    BY <2>1 DEF Busy, Kept
  <2>3. Covered'
    <3>1. Orderly' => Busy = {}
      BY <2>1, OrderlyBefore
    <3> QED
      BY <2>2, <3>1 DEF Covered, Orderly
  <2>4. Queued'
    <3> SUFFICES ASSUME UsesQueue, Orderly', NEW d \in given'
                 PROVE  Safe(d)'
      BY SafeGivenNext
    <3>1. CASE d = c
      BY <2>1, <3>1 DEF Safe
    <3>2. CASE d \in given
      <4>1. Safe(d)
        BY <2>1, <3>2, OrderlyBefore, SafeGiven
      <4> QED
        BY <2>1, <2>2, <4>1 DEF Safe
    <3> QED
      BY <2>1, <3>1, <3>2
  <2> QED
    BY <2>3, <2>4
<1>3. CASE CheckWorker(c)
  <2>1. UNCHANGED <<file, stored, worker, batch, remaining, excuse, given>>
    BY <1>3 DEF CheckWorker
  <2> QED
    BY <2>1 DEF Covered, Busy, Kept, Queued, NothingLost, InHand, Orderly
<1>4. CASE StartWorker(c)
  <2>1. /\ worker[c] = "none" /\ worker' = [worker EXCEPT ![c] = "idle"]
        /\ UNCHANGED <<file, stored, batch, remaining, excuse, given>>
    BY <1>4 DEF StartWorker, Steady, StartsOnce
  <2>2. /\ Busy' = Busy
        /\ \A w \in Busy : worker'[w] = worker[w]
    BY <2>1 DEF Busy, TypeOK
  <2> QED
    BY <2>1, <2>2 DEF Covered, Kept, Queued, NothingLost, InHand, Orderly
<1> QED
  BY <1>1, <1>2, <1>3, <1>4 DEF Thread

(* A flush has a copy of the file, or has stored it, when it truncates it. *)
LEMMA FlushLoses ==
  ASSUME TypeOK, Steady, Covered, Queued, NEW w \in Calls, Flush(w)
  PROVE  Covered' /\ Queued'
<1>1. CASE FlushRead(w)
  <2>1. /\ worker' = [worker EXCEPT ![w] = "flushing"]
        /\ batch' = [batch EXCEPT ![w] = file]
        /\ remaining' = [remaining EXCEPT ![w] = <<>>]
        /\ UNCHANGED <<file, stored, given>> /\ excuse \subseteq excuse'
        /\ Busy # {} => "overlap" \in excuse'
    BY <1>1 DEF FlushRead
  <2>2. /\ Busy' = Busy \cup {w}
        /\ batch'[w] = file /\ remaining'[w] = <<>> /\ worker'[w] = "flushing"
    BY <2>1 DEF Busy, TypeOK
  <2>3. Kept(w)' = Recs(file)
    BY <2>2, EmptyRecs DEF Kept
  <2>4. Covered'
    BY <2>1, <2>2, <2>3 DEF Covered
  <2>5. Queued'
    <3>1. Orderly' => Orderly /\ Busy = {}
      BY <2>1, OrderlyBefore
    <3>2. Busy = {} => \A d \in Calls : Safe(d) => Safe(d)'
      BY <2>1, NobodyHolds DEF Safe
    <3> QED
      BY <2>1, <3>1, <3>2, KeepsSafe
  <2> QED
    BY <2>4, <2>5
<1>2. CASE FlushStores(w)
  <2> DEFINE rec == Head(batch[w]).rec
  <2>1. /\ worker[w] = "flushing" /\ batch[w] # <<>> /\ Store(rec)
        /\ batch' = [batch EXCEPT ![w] = Tail(batch[w])]
        /\ UNCHANGED <<file, worker, remaining, excuse, given>>
    BY <1>2 DEF FlushStores
  <2>2. /\ rec \in Calls /\ Recs(batch[w]) = {rec} \cup Recs(batch'[w])
        /\ \A v \in Calls \ {w} : batch'[v] = batch[v]
    BY <2>1, ProcessEffect
  <2>3. stored'[rec] > 0 /\ \A c \in Calls : stored[c] > 0 => stored'[c] > 0
    BY <2>1, <2>2, StoreEffect
  <2>4. /\ Kept(w) = Kept(w)' \cup {rec} \/ Kept(w) = Kept(w)'
        /\ \A v \in Calls \ {w} : Kept(v)' = Kept(v)
        /\ Busy' = Busy
    BY <2>1, <2>2 DEF Kept, Busy
  <2> HIDE DEF rec
  <2>5. Covered'
    <3>1. Recs(file) \subseteq Calls
      BY RecsAreCalls DEF TypeOK
    <3> QED
      BY <2>1, <2>3, <2>4, <3>1 DEF Covered, Busy
  <2>6. Queued'
    <3>1. \A d \in Calls : Safe(d) => Safe(d)'
      BY <2>1, <2>3, <2>4 DEF Safe
    <3> QED
      BY <2>1, <3>1, KeepsSafe DEF Orderly
  <2> QED
    BY <2>5, <2>6
<1>3. CASE FlushFails(w)
  <2>1. /\ worker[w] = "flushing" /\ batch[w] # <<>>
        /\ UNCHANGED <<stored, worker, excuse, given>>
    BY <1>3 DEF FlushFails
  <2>2. /\ \A v \in Calls : Kept(v)' = Kept(v)
        /\ Recs(file) \subseteq Recs(file')
        /\ Recs(file') \subseteq Recs(file) \cup {Head(batch[w]).rec}
    BY <1>3, FailEffect
  <2>3. Head(batch[w]).rec \in Kept(w)
    <3>1. batch[w] \in Seq(Item)
      BY DEF TypeOK
    <3> QED
      BY <2>1, <3>1, HeadTailRecs DEF Kept
  <2>4. Busy' = Busy /\ w \in Busy
    BY <2>1 DEF Busy
  <2>5. Covered'
    <3> SUFFICES ASSUME Orderly' PROVE Covered'
      BY DEF Covered, Orderly
    <3>1. \A v \in Busy : v = w
      BY <2>1, <2>4 DEF Steady, OneBusy, Orderly
    <3> QED
      BY <2>1, <2>2, <2>3, <2>4, <3>1 DEF Covered, Orderly
  <2>6. Queued'
    <3>1. \A d \in Calls : Safe(d) => Safe(d)'
      BY <2>1, <2>2 DEF Safe
    <3> QED
      BY <2>1, <3>1, KeepsSafe DEF Orderly
  <2> QED
    BY <2>5, <2>6
<1>4. CASE FlushTruncates(w)
  <2>1. /\ worker[w] = "flushing" /\ worker' = [worker EXCEPT ![w] = "writing"]
        /\ file' = <<>>
        /\ UNCHANGED <<stored, batch, remaining, excuse, given>>
    BY <1>4 DEF FlushTruncates
  <2>2. /\ Busy' = Busy /\ w \in Busy /\ worker'[w] = "writing"
        /\ \A v \in Calls : Kept(v)' = Kept(v)
    BY <2>1 DEF Busy, TypeOK, Kept
  <2>3. Covered'
    <3> SUFFICES ASSUME Orderly' PROVE Covered'
      BY DEF Covered, Orderly
    <3>1. \A v \in Busy : v = w
      BY <2>1, <2>2 DEF Steady, OneBusy, Orderly
    <3> QED
      BY <2>1, <2>2, <3>1 DEF Covered, Busy
  <2>4. Queued'
    <3>1. Orderly => \A c \in Recs(file) : stored[c] > 0 \/ c \in Kept(w)
      BY <2>1, <2>2 DEF Covered, Orderly
    <3>2. Orderly => \A d \in Calls : Safe(d) => Safe(d)'
      BY <2>1, <2>2, <3>1 DEF Safe
    <3> QED
      BY <2>1, <3>2, KeepsSafe DEF Orderly
  <2> QED
    BY <2>3, <2>4
<1>5. CASE FlushWrites(w)
  <2>1. /\ worker[w] = "writing" /\ worker' = [worker EXCEPT ![w] = "idle"]
        /\ file' = remaining[w]
        /\ UNCHANGED <<stored, batch, excuse, given>>
    BY <1>5 DEF FlushWrites
  <2>2. /\ Busy' = Busy \ {w} /\ w \in Busy
        /\ Kept(w) = Recs(file')
    BY <2>1, EmptyRecs DEF Busy, TypeOK, Kept, Steady, AtRest
  <2>3. Orderly => /\ \A v \in Calls \ {w} : v \notin Busy /\ Kept(v) = {}
                   /\ file = <<>>
    BY <2>1, <2>2, Alone DEF Orderly, Covered
  <2>4. Covered'
    BY <2>1, <2>2, <2>3 DEF Covered, Busy, Orderly
  <2>5. Queued'
    <3>1. Orderly => \A d \in Calls : Safe(d) => Safe(d)'
      BY <2>1, <2>2, <2>3, EmptyRecs DEF Safe
    <3> QED
      BY <2>1, <3>1, KeepsSafe DEF Orderly
  <2> QED
    BY <2>4, <2>5
<1>6. CASE FlushRaises(w)
  <2>1. /\ worker[w] = "flushing" /\ worker' = [worker EXCEPT ![w] = "idle"]
        /\ batch[w] = <<>> /\ file' = file \o remaining[w]
        /\ excuse' = excuse \cup {"error"}
        /\ UNCHANGED <<stored, batch, given>>
    BY <1>6 DEF FlushRaises
  <2>2. /\ Busy' = Busy \ {w} /\ w \in Busy
        /\ Kept(w) = Recs(remaining[w])
    BY <2>1, EmptyRecs DEF Busy, TypeOK, Kept
  <2>3. Recs(file') = Recs(file) \cup Kept(w)
    BY <2>1, <2>2, ConcatRecs DEF TypeOK
  <2>4. Orderly' => Orderly
    BY <2>1 DEF Orderly
  <2>5. Orderly => \A v \in Calls \ {w} : v \notin Busy /\ Kept(v) = {}
    BY <2>2, Alone DEF Orderly
  <2>6. Covered'
    BY <2>2, <2>4, <2>5 DEF Covered, Busy, Orderly
  <2>7. Queued'
    <3>1. Orderly => \A d \in Calls : Safe(d) => Safe(d)'
      BY <2>1, <2>3, <2>5 DEF Safe
    <3> QED
      BY <2>1, <2>4, <3>1, KeepsSafe
  <2> QED
    BY <2>6, <2>7
<1> QED
  BY <1>1, <1>2, <1>3, <1>4, <1>5, <1>6 DEF Flush

(* A restart finds in the file whatever a flush had in its hands.          *)
LEMMA CrashLoses ==
  ASSUME TypeOK, Steady, Covered, Queued, Crash
  PROVE  Covered' /\ Queued'
<1>1. /\ \A w \in Calls : worker'[w] = "none"
      /\ UNCHANGED <<file, stored, given>>
      /\ excuse \subseteq excuse'
      /\ ~ Unlocked => "torn" \in excuse'
  BY DEF Crash
<1>2. Busy' = {}
  BY <1>1 DEF Busy
<1>3. Covered'
  BY <1>2 DEF Covered
<1>4. Orderly' => \A w \in Calls : Kept(w) \subseteq Recs(file)
  <2> SUFFICES ASSUME Orderly', NEW w \in Calls, NEW c \in Kept(w)
               PROVE  c \in Recs(file)
    OBVIOUS
  <2>1. w \in Busy /\ Unlocked /\ Orderly
    BY <1>1, HandIsBusy, OrderlyBefore DEF Steady
  <2>2. worker[w] = "flushing"
    BY <2>1 DEF Busy, Unlocked
  <2> QED
    BY <2>1, <2>2 DEF Covered, Orderly
<1>5. Queued'
  <2>1. Orderly' => \A d \in Calls : Safe(d) => Safe(d)'
    BY <1>1, <1>4 DEF Safe
  <2> QED
    BY <1>1, <2>1, OrderlyBefore, KeepsSafe
<1> QED
  BY <1>3, <1>5

(* A stutter.                                                              *)
LEMMA StutterLoses ==
  ASSUME Covered, Queued, UNCHANGED vars
  PROVE  Covered' /\ Queued'
BY DEF vars, Covered, Busy, Kept, Queued, NothingLost, InHand, Orderly

(* Every step keeps what flushes rely on and loses no record.              *)
LEMMA LossStep ==
  ASSUME TypeOK, Steady, Covered, Queued, [Next]_vars
  PROVE  Covered' /\ Queued'
BY ThreadLoses, FlushLoses, CrashLoses, StutterLoses DEF Next

-----------------------------------------------------------------------------
(* No record is written twice, and why.                                    *)
Once == NotYet /\ HeldOnce /\ FiledOnce /\ NoDuplicates

(* A step that changes nothing these parts speak of.                       *)
LEMMA OnceFrame ==
  ASSUME Once, UNCHANGED <<file, stored, batch, remaining, excuse>>, Busy' = Busy,
         \A c \in Calls : call'[c] = "calling" => call[c] = "calling"
  PROVE  Once'
<1>1. \A w \in Calls : Kept(w)' = Kept(w)
  BY DEF Kept
<1>2. \A w \in Busy : w \in Calls
  BY DEF Busy
<1> QED
  BY <1>1, <1>2 DEF Once, NotYet, HeldOnce, FiledOnce, NoDuplicates

(* The database functions write or enqueue the record of their call, once. *)
LEMMA ThreadOnce ==
  ASSUME TypeOK, Steady, Once, NEW c \in Calls, Thread(c), excuse' = {}
  PROVE  Once'
<1>1. CASE CallStores(c)
  <2>1. /\ call[c] = "calling" /\ Store(c)
        /\ call' = [call EXCEPT ![c] = "done"]
        /\ UNCHANGED <<file, worker, batch, remaining, excuse>>
    BY <1>1 DEF CallStores
  <2>2. /\ stored[c] = 0 /\ c \notin Recs(file)
        /\ \A w \in Calls : c \notin Kept(w)
    BY <2>1 DEF Once, NotYet
  <2>3. stored'[c] = 1 /\ \A d \in Calls \ {c} : stored'[d] = stored[d]
    BY <2>1, <2>2, StoreEffect
  <2>4. /\ Busy' = Busy /\ Busy \subseteq Calls
        /\ \A w \in Calls : Kept(w)' = Kept(w) /\ Kept(w) \subseteq Calls
        /\ Recs(file) \subseteq Calls
    BY <2>1, RecsAreCalls DEF Busy, Kept, TypeOK
  <2>5. \A d \in Calls : call'[d] = "calling" => call[d] = "calling" /\ d # c
    BY <2>1 DEF TypeOK
  <2>6. NotYet'
    BY <2>1, <2>3, <2>4, <2>5 DEF Once, NotYet
  <2>7. HeldOnce'
    BY <2>1, <2>2, <2>3, <2>4 DEF Once, HeldOnce
  <2>8. FiledOnce'
    BY <2>1, <2>2, <2>3, <2>4 DEF Once, FiledOnce
  <2>9. NoDuplicates'
    BY <2>1, <2>3 DEF Once, NoDuplicates
  <2> QED
    BY <2>6, <2>7, <2>8, <2>9 DEF Once
<1>2. CASE CallFails(c)
  <2>1. /\ call[c] = "calling" /\ Enqueue(c)
        /\ call' = [call EXCEPT ![c] = IF UsesQueue THEN "enqueued" ELSE "done"]
        /\ UNCHANGED <<stored, worker, batch, remaining>>
        /\ excuse = {} /\ Busy = {}
    BY <1>2 DEF CallFails
  <2>2. stored[c] = 0 /\ c \notin Recs(file)
    BY <2>1 DEF Once, NotYet
  <2>3. Distinct(file') /\ Recs(file') \subseteq Recs(file) \cup {c}
    BY <2>1, <2>2, EnqueueEffect DEF Once, FiledOnce, TypeOK
  <2>4. Busy' = {} /\ \A w \in Calls : Kept(w)' = {}
    BY <2>1, NobodyHolds DEF Busy, Kept
  <2>5. \A d \in Calls : call'[d] = "calling" => call[d] = "calling" /\ d # c
    BY <2>1 DEF TypeOK
  <2>6. NotYet'
    BY <2>1, <2>3, <2>4, <2>5 DEF Once, NotYet
  <2>7. HeldOnce'
    BY <2>4 DEF HeldOnce
  <2>8. FiledOnce'
    BY <2>1, <2>2, <2>3 DEF Once, FiledOnce
  <2>9. NoDuplicates'
    BY <2>1 DEF Once, NoDuplicates
  <2> QED
    BY <2>6, <2>7, <2>8, <2>9 DEF Once
<1>3. CASE CheckWorker(c)
  <2>1. \A d \in Calls : call'[d] = "calling" => call[d] = "calling"
    BY <1>3 DEF CheckWorker, TypeOK
  <2> QED
    BY <1>3, <2>1, OnceFrame DEF CheckWorker, Busy
<1>4. CASE StartWorker(c)
  <2>1. \A d \in Calls : call'[d] = "calling" => call[d] = "calling"
    BY <1>4 DEF StartWorker, TypeOK
  <2>2. Busy' = Busy
    BY <1>4 DEF StartWorker, Steady, StartsOnce, Busy, TypeOK
  <2> QED
    BY <1>4, <2>1, <2>2, OnceFrame DEF StartWorker
<1> QED
  BY <1>1, <1>2, <1>3, <1>4 DEF Thread

(* A flush that nothing overlaps holds what is not stored, and writes back *)
(* each item that it could not store once, whatever was enqueued meanwhile.*)
LEMMA FlushOnce ==
  ASSUME TypeOK, Steady, Once, NEW w \in Calls, Flush(w), excuse' = {}
  PROVE  Once'
<1>1. CASE FlushRead(w)
  <2>1. /\ worker' = [worker EXCEPT ![w] = "flushing"]
        /\ batch' = [batch EXCEPT ![w] = file]
        /\ remaining' = [remaining EXCEPT ![w] = <<>>]
        /\ UNCHANGED <<file, stored, call>>
        /\ excuse = {} /\ Busy = {}
    BY <1>1 DEF FlushRead
  <2>2. /\ Busy' = {w} /\ batch'[w] = file /\ remaining'[w] = <<>>
        /\ \A v \in Calls \ {w} : /\ batch'[v] = batch[v]
                                  /\ remaining'[v] = remaining[v]
    BY <2>1 DEF Busy, TypeOK
  <2>3. /\ Kept(w)' = Recs(file)
        /\ \A v \in Calls \ {w} : Kept(v)' = {}
    BY <2>1, <2>2, EmptyRecs, NobodyHolds DEF Kept
  <2>4. NotYet'
    BY <2>1, <2>3 DEF Once, NotYet
  <2>5. HeldOnce'
    BY <2>1, <2>2, <2>3, EmptyRecs DEF Once, FiledOnce, HeldOnce
  <2>6. FiledOnce' /\ NoDuplicates'
    BY <2>1, <2>2 DEF Once, FiledOnce, NoDuplicates
  <2> QED
    BY <2>4, <2>5, <2>6 DEF Once
<1>2. CASE FlushStores(w)
  <2> DEFINE rec == Head(batch[w]).rec
  <2>1. /\ worker[w] = "flushing" /\ batch[w] # <<>> /\ Store(rec)
        /\ batch' = [batch EXCEPT ![w] = Tail(batch[w])]
        /\ UNCHANGED <<file, call, worker, remaining, excuse>>
    BY <1>2 DEF FlushStores
  <2>2. w \in Busy /\ Busy' = Busy /\ Busy \subseteq Calls /\ excuse = {}
    BY <2>1 DEF Busy
  <2>3. /\ Distinct(batch[w]) /\ Distinct(remaining[w])
        /\ Recs(batch[w]) \cap Recs(remaining[w]) = {}
        /\ \A d \in Kept(w) : stored[d] = 0
    BY <2>2 DEF Once, HeldOnce
  <2>4. /\ rec \in Calls /\ Recs(batch[w]) = {rec} \cup Recs(batch'[w])
        /\ Distinct(batch'[w]) /\ rec \notin Recs(batch'[w])
    BY <2>1, <2>3, ProcessEffect
  <2>5. rec \in Kept(w) /\ stored[rec] = 0
    BY <2>3, <2>4 DEF Kept
  <2>6. stored'[rec] = 1 /\ \A d \in Calls \ {rec} : stored'[d] = stored[d]
    BY <2>1, <2>4, <2>5, StoreEffect
  <2>7. Kept(w)' \subseteq Kept(w) /\ rec \notin Kept(w)' /\ Kept(w) \subseteq Calls
    BY <2>1, <2>3, <2>4, RecsAreCalls DEF Kept, TypeOK
  <2>8. \A v \in Calls \ {w} : v \notin Busy /\ Kept(v)' = {}
    <3>1. \A v \in Calls \ {w} : batch'[v] = batch[v]
      BY <2>1 DEF TypeOK
    <3> QED
      BY <2>1, <2>2, <3>1, Alone DEF Kept
  <2> HIDE DEF rec
  <2>9. NotYet'
    <3>1. call[rec] # "calling"
      BY <2>2, <2>4, <2>5 DEF Once, NotYet
    <3> QED
      BY <2>1, <2>2, <2>6, <2>7, <2>8, <3>1 DEF Once, NotYet
  <2>10. HeldOnce'
    <3>1. \A v \in Busy' : v = w
      BY <2>2, <2>8
    <3>2. Recs(batch'[w]) \cap Recs(remaining'[w]) = {}
      BY <2>1, <2>3, <2>4
    <3>3. \A d \in Kept(w)' : stored'[d] = 0
      BY <2>3, <2>6, <2>7
    <3> QED
      BY <2>1, <2>3, <2>4, <3>1, <3>2, <3>3 DEF HeldOnce
  <2>11. FiledOnce' /\ NoDuplicates'
    BY <2>2, <2>4, <2>6 DEF Once, FiledOnce, NoDuplicates
  <2> QED
    BY <2>9, <2>10, <2>11 DEF Once
<1>3. CASE FlushFails(w)
  <2> DEFINE rec == Head(batch[w]).rec
  <2>1. /\ worker[w] = "flushing" /\ batch[w] # <<>>
        /\ batch' = [batch EXCEPT ![w] = Tail(batch[w])]
        /\ UNCHANGED <<stored, call, worker, excuse>>
    BY <1>3 DEF FlushFails
  <2>2. w \in Busy /\ Busy' = Busy /\ Busy \subseteq Calls /\ excuse = {}
    BY <2>1 DEF Busy
  <2>3. /\ Distinct(batch[w]) /\ Distinct(remaining[w])
        /\ Recs(batch[w]) \cap Recs(remaining[w]) = {}
        /\ \A d \in Kept(w) : stored[d] = 0
    BY <2>2 DEF Once, HeldOnce
  <2>4. /\ rec \in Calls /\ Recs(batch[w]) = {rec} \cup Recs(batch'[w])
        /\ Distinct(batch'[w]) /\ rec \notin Recs(batch'[w])
    BY <2>1, <2>3, ProcessEffect
  <2>5. /\ \A v \in Calls : Kept(v)' = Kept(v)
        /\ Recs(remaining'[w]) = Recs(remaining[w]) \cup {rec}
        /\ Distinct(remaining'[w])
        /\ Recs(file') \subseteq Recs(file) \cup {rec}
    <3>1. rec \notin Recs(remaining[w])
      BY <2>3, <2>4
    <3> QED
      BY <1>3, <2>3, <3>1, FailEffect
  <2> HIDE DEF rec
  <2>6. NotYet'
    <3>1. rec \in Kept(w)
      BY <2>4 DEF Kept
    <3>2. call[rec] # "calling"
      BY <2>2, <2>4, <3>1 DEF Once, NotYet
    <3> QED
      BY <2>1, <2>2, <2>5, <3>2 DEF Once, NotYet
  <2>7. HeldOnce'
    <3>1. \A v \in Busy' : v = w
      BY <2>2, Alone
    <3>2. Recs(batch'[w]) \cap Recs(remaining'[w]) = {}
      BY <2>3, <2>4, <2>5
    <3> QED
      BY <2>1, <2>3, <2>4, <2>5, <3>1, <3>2 DEF HeldOnce
  <2>8. FiledOnce' /\ NoDuplicates'
    BY <2>1, <2>2 DEF Once, FiledOnce, NoDuplicates
  <2> QED
    BY <2>6, <2>7, <2>8 DEF Once
<1>4. CASE FlushTruncates(w)
  <2>1. /\ worker[w] = "flushing" /\ worker' = [worker EXCEPT ![w] = "writing"]
        /\ file' = <<>>
        /\ UNCHANGED <<stored, call, batch, remaining, excuse>>
    BY <1>4 DEF FlushTruncates
  <2>2. /\ Busy' = Busy /\ w \in Busy /\ Busy \subseteq Calls
        /\ \A v \in Calls : Kept(v)' = Kept(v)
    BY <2>1 DEF Busy, TypeOK, Kept
  <2>3. NotYet' /\ FiledOnce' /\ NoDuplicates'
    BY <2>1, <2>2, EmptyRecs DEF Once, NotYet, FiledOnce, NoDuplicates
  <2>4. HeldOnce'
    BY <2>1, <2>2 DEF Once, HeldOnce
  <2> QED
    BY <2>3, <2>4 DEF Once
<1>5. CASE FlushWrites(w)
  <2>1. /\ worker[w] = "writing" /\ worker' = [worker EXCEPT ![w] = "idle"]
        /\ file' = remaining[w] /\ remaining' = [remaining EXCEPT ![w] = <<>>]
        /\ UNCHANGED <<stored, call, batch, excuse>>
    BY <1>5 DEF FlushWrites
  <2>2. /\ w \in Busy /\ Busy' = Busy \ {w} /\ excuse = {}
        /\ Kept(w) = Recs(remaining[w])
    BY <2>1, EmptyRecs DEF Busy, TypeOK, Kept, Steady, AtRest
  <2>3. Busy' = {}
    BY <2>2, Alone DEF Busy
  <2>4. /\ Distinct(remaining[w])
        /\ \A d \in Kept(w) : stored[d] = 0
    BY <2>2 DEF Once, HeldOnce
  <2>5. \A v \in Calls : Kept(v)' \subseteq Kept(v)
    BY <2>1, EmptyRecs DEF Kept, TypeOK
  <2>6. NotYet'
    BY <2>1, <2>2, <2>5 DEF Once, NotYet
  <2>7. HeldOnce'
    BY <2>3 DEF HeldOnce
  <2>8. FiledOnce' /\ NoDuplicates'
    BY <2>1, <2>2, <2>4 DEF Once, FiledOnce, NoDuplicates
  <2> QED
    BY <2>6, <2>7, <2>8 DEF Once
<1>6. CASE FlushRaises(w)
  BY <1>6 DEF FlushRaises
<1> QED
  BY <1>1, <1>2, <1>3, <1>4, <1>5, <1>6 DEF Flush

(* Every step keeps these parts.                                           *)
LEMMA OnceStep ==
  ASSUME TypeOK, Steady, Once, [Next]_vars
  PROVE  Once'
<1>1. CASE excuse' # {}
  BY <1>1 DEF Once, NotYet, HeldOnce, FiledOnce, NoDuplicates
<1>2. CASE UNCHANGED vars
  BY <1>2, OnceFrame DEF vars, Busy
<1>3. CASE Crash
  <2>1. excuse' # {}
    BY <1>3 DEF Crash
  <2> QED
    BY <1>1, <2>1
<1> QED
  BY <1>1, <1>2, <1>3, ThreadOnce, FlushOnce DEF Next

-----------------------------------------------------------------------------
(* At the start every record is still to be written by its call.           *)
LEMMA InitInv == Init => IInv
<1> SUFFICES ASSUME Init PROVE IInv
  OBVIOUS
<1>1. TypeOK
  BY InitType
<1>2. /\ \A c \in Calls : /\ worker[c] = "none" /\ stored[c] = 0
                          /\ batch[c] = <<>> /\ remaining[c] = <<>>
      /\ file = <<>> /\ given = {}
  BY DEF Init
<1>3. Busy = {} /\ \A w \in Calls : Kept(w) = {}
  BY <1>2, EmptyRecs DEF Busy, Kept
<1>4. StartsOnce /\ AtRest /\ OneBusy /\ Covered
  BY <1>2, <1>3 DEF StartsOnce, AtRest, OneBusy, Covered
<1>5. NotYet /\ HeldOnce /\ FiledOnce
  BY <1>2, <1>3, EmptyRecs DEF NotYet, HeldOnce, FiledOnce
<1>6. NoDuplicates /\ Queued
  BY <1>2 DEF NoDuplicates, Queued, NothingLost
<1> QED
  BY <1>1, <1>4, <1>5, <1>6 DEF IInv

(* The invariant is inductive.                                             *)
LEMMA InvStep == IInv /\ [Next]_vars => IInv'
BY TypeStep, SteadyStep, LossStep, OnceStep DEF IInv, Steady, Once

(* Nothing is written twice unless flushes overlapped, an overwrite raised *)
(* or the server was restarted: the record a failing write enqueues during *)
(* a flush disappears with the overwrite (db_queue.py, _flush_once).       *)
THEOREM WrittenOnce == Spec => []NoDuplicates
<1>1. IInv => NoDuplicates
  BY DEF IInv
<1> QED
  BY <1>1, InitInv, InvStep, PTL DEF Spec

(* With the queue on, a record whose write failed is stored, in the file   *)
(* or in the hands of a flush, through any failures, raising overwrites    *)
(* and restarts outside an overwrite (db.py; db_queue.py, _flush_once).    *)
THEOREM NoRecordLost ==
  ASSUME UsesQueue
  PROVE  Spec => []NothingLost
<1>1. IInv => NothingLost
  BY DEF IInv, Queued
<1> QED
  BY <1>1, InitInv, InvStep, PTL DEF Spec

(* Without the import only the calls themselves store records, each once,  *)
(* and a call whose record is kept has been made.                          *)
Unwritten ==
  ~importable =>
    /\ \A c \in Calls : call[c] = "calling" => stored[c] = 0 /\ c \notin given
    /\ \A c \in given : stored[c] = 0

(* No step of a flush writes such a record.                                *)
LEMMA UnwrittenStep == TypeOK /\ Unwritten /\ [Next]_vars => Unwritten'
<1> SUFFICES ASSUME TypeOK, Unwritten, [Next]_vars, ~importable'
             PROVE  Unwritten'
  BY DEF Unwritten
<1>1. ASSUME NEW c \in Calls, CallStores(c) PROVE Unwritten'
  <2>1. /\ call[c] = "calling" /\ call' = [call EXCEPT ![c] = "done"]
        /\ UNCHANGED <<importable, given>>
    BY <1>1 DEF CallStores
  <2>2. \A d \in Calls \ {c} : stored'[d] = stored[d] /\ call'[d] = call[d]
    BY <1>1, <2>1, StoreEffect DEF CallStores, TypeOK
  <2>3. call'[c] = "done" /\ given \subseteq Calls
    BY <2>1 DEF TypeOK
  <2> QED
    BY <2>1, <2>2, <2>3 DEF Unwritten
<1>2. ASSUME NEW c \in Calls, CallFails(c) PROVE Unwritten'
  <2>1. /\ call[c] = "calling" /\ given' = given \cup {c}
        /\ call' = [call EXCEPT ![c] = IF UsesQueue THEN "enqueued" ELSE "done"]
        /\ UNCHANGED <<importable, stored>>
    BY <1>2 DEF CallFails
  <2>2. \A d \in Calls : call'[d] = "calling" => call[d] = "calling" /\ d # c
    BY <2>1 DEF TypeOK
  <2> QED
    BY <2>1, <2>2 DEF Unwritten
<1>3. ASSUME NEW c \in Calls, CheckWorker(c) \/ StartWorker(c)
      PROVE  Unwritten'
  <2>1. \A d \in Calls : call'[d] = "calling" => call[d] = "calling"
    BY <1>3 DEF CheckWorker, StartWorker, TypeOK
  <2> QED
    BY <1>3, <2>1 DEF CheckWorker, StartWorker, Unwritten
<1>4. ASSUME NEW w \in Calls, Flush(w) PROVE Unwritten'
  <2>1. UNCHANGED <<importable, call, given>>
    BY <1>4
    DEF Flush, FlushRead, FlushStores, FlushFails, FlushTruncates, FlushWrites,
        FlushRaises
  <2>2. UNCHANGED stored
    BY <1>4, <2>1
    DEF Flush, FlushRead, FlushStores, FlushFails, FlushTruncates, FlushWrites,
        FlushRaises
  <2> QED
    BY <2>1, <2>2 DEF Unwritten
<1>5. CASE Crash
  <2>1. UNCHANGED <<importable, stored, given>>
    BY <1>5 DEF Crash
  <2>2. \A c \in Calls : call'[c] = "calling" => call[c] = "calling"
    BY <1>5 DEF Crash
  <2> QED
    BY <2>1, <2>2 DEF Unwritten
<1>6. CASE UNCHANGED vars
  BY <1>6 DEF vars, Unwritten
<1> QED
  BY <1>1, <1>2, <1>3, <1>4, <1>5, <1>6 DEF Next, Thread

(* With the queue on, and the module game_server.db missing as it is in    *)
(* the image, a record whose write failed is kept and never written        *)
(* (db_queue.py, _flush_once: the import and what catches its failure).    *)
THEOREM KeptForNothing ==
  ASSUME UsesQueue
  PROVE  Spec => []Stranded
<1>1. Init => Unwritten
  BY DEF Init, Unwritten
<1>2. IInv /\ Unwritten => Stranded
  <2> SUFFICES ASSUME IInv, Unwritten, ~importable, NEW c \in given
               PROVE  /\ stored[c] = 0
                      /\ Orderly => Holds(file, c) \/ InHand(c)
    BY DEF Stranded
  <2>1. stored[c] = 0
    BY DEF Unwritten
  <2>2. Orderly => stored[c] > 0 \/ Holds(file, c) \/ InHand(c)
    BY DEF IInv, Queued, NothingLost
  <2> QED
    BY <2>1, <2>2
<1>3. IInv => TypeOK
  BY DEF IInv
<1> QED
  BY <1>1, <1>2, <1>3, UnwrittenStep, InitInv, InvStep, PTL DEF Spec
=============================================================================
