--------------------------- MODULE TrainingProofs ---------------------------
(***************************************************************************)
(* Theorems about Training, for every number of iterations, interruptions  *)
(* and win rates, and every size of the buffer.                            *)
(***************************************************************************)
EXTENDS Training, FiniteSetTheorems, SequenceTheorems, TLAPS

(* The kinds of file by name.                                              *)
LEMMA KindsAre ==
  Kinds = {"model", "optimizer", "buffer", "metadata", "summary", "checkpoint"}
<1>1. DOMAIN SaveOrder = 1 .. 5
  BY DEF SaveOrder
<1>2. 1 .. 5 = {1, 2, 3, 4, 5}
  OBVIOUS
<1>3. ToSet(SaveOrder) = {SaveOrder[1], SaveOrder[2], SaveOrder[3],
                          SaveOrder[4], SaveOrder[5]}
  BY <1>1, <1>2 DEF ToSet
<1>4. /\ SaveOrder[1] = "model" /\ SaveOrder[2] = "optimizer"
      /\ SaveOrder[3] = "buffer" /\ SaveOrder[4] = "metadata"
      /\ SaveOrder[5] = "summary"
  BY DEF SaveOrder
<1> QED
  BY <1>3, <1>4 DEF Kinds

(* The order of the phases that write a file.                              *)
LEMMA Order ==
  /\ After("model") = "optimizer" /\ After("optimizer") = "buffer"
  /\ After("buffer") = "metadata" /\ After("metadata") = "summary"
  /\ After("summary") = "clean" /\ After("checkpoint") = "next"
<1>1. /\ SaveOrder[1] = "model" /\ SaveOrder[2] = "optimizer"
      /\ SaveOrder[3] = "buffer" /\ SaveOrder[4] = "metadata"
      /\ SaveOrder[5] = "summary" /\ Len(SaveOrder) = 5
  BY DEF SaveOrder
<1>2. 2 .. 5 = {2, 3, 4, 5}
  OBVIOUS
<1>3. ASSUME NEW m \in {2, 3, 4, 5}
      PROVE  (CHOOSE n \in 2 .. Len(SaveOrder) : SaveOrder[n - 1] = SaveOrder[m - 1]) = m
  <2> DEFINE P(n) == n \in 2 .. Len(SaveOrder) /\ SaveOrder[n - 1] = SaveOrder[m - 1]
  <2>1. 2 - 1 = 1 /\ 3 - 1 = 2 /\ 4 - 1 = 3 /\ 5 - 1 = 4
    OBVIOUS
  <2>2. P(m) /\ \A n : P(n) => n = m
    BY <1>1, <1>2, <2>1
  <2>3. (CHOOSE n : P(n)) = m
    <3> HIDE DEF P
    <3> QED
      BY <2>2
  <2> QED
    BY <2>3
<1>4. 2 - 1 = 1 /\ 3 - 1 = 2 /\ 4 - 1 = 3 /\ 5 - 1 = 4
  OBVIOUS
<1>5. \A kind : kind # "checkpoint" /\ kind # "summary" =>
        After(kind) = SaveOrder[CHOOSE n \in 2 .. Len(SaveOrder) : SaveOrder[n - 1] = kind]
  BY DEF After
<1>6. After("summary") = "clean" /\ After("checkpoint") = "next"
  BY DEF After
<1> QED
  BY <1>1, <1>3, <1>4, <1>5, <1>6

-----------------------------------------------------------------------------
(* Types                                                                   *)

Sound(object) == object \in Objects /\ Len(object.buffer) <= BufferMax

(* What has been written was the state of an object, and is there.         *)
StoredOK(content) ==
  /\ content \in Contents /\ Sound(content.of)
  /\ content.whole => content.there

Phases == {"collect", "train", "evaluate", "best", "clean", "next", "off"} \cup Kinds

TypeInv ==
  /\ variant \in Variants /\ Sound(self)
  /\ iteration \in 0 .. NumIterations
  /\ phase \notin {"collect", "off"} => iteration \in Iterations
  /\ phase \in Phases /\ writing \in BOOLEAN
  /\ disk \in [Kinds -> [Iterations -> Contents]]
  /\ \A k \in Kinds, i \in Iterations : StoredOK(disk[k][i])
  /\ StoredOK(best)
  /\ last \in Iterations \cup {-1} /\ resumed \in BOOLEAN
  /\ lower \in BOOLEAN /\ behind \in BOOLEAN
  /\ stops \in Nat /\ unswept \in 0 .. stops

(* A new object is well formed.                                            *)
LEMMA FreshSound == Sound(Fresh)
<1>1. Fresh \in Objects
  BY DEF Fresh, Objects
<1>2. Len(Fresh.buffer) = 0
  BY DEF Fresh
<1> QED
  BY <1>1, <1>2, TrainingAssumption DEF Sound

(* Every content a file can have is well formed.                           *)
LEMMA WrittenOK ==
  ASSUME NEW object, Sound(object)
  PROVE  /\ StoredOK(Whole(object)) /\ StoredOK(Torn) /\ StoredOK(None)
         /\ Whole(object).of = object
         /\ Whole(object).whole /\ Whole(object).there
         /\ ~Torn.whole /\ Torn.there /\ ~None.whole /\ ~None.there
         /\ Torn.of = Fresh /\ None.of = Fresh
<1>1. object \in Objects /\ Fresh \in Objects
  BY FreshSound DEF Sound
<1> HIDE DEF Fresh
<1>2. None \in Contents /\ ~None.whole /\ ~None.there /\ None.of = Fresh
  BY <1>1 DEF None, Contents
<1>3. /\ Torn \in Contents /\ ~Torn.whole /\ Torn.there /\ Torn.of = Fresh
  <2> HIDE DEF None
  <2>1. \A n \in Contents : /\ [n EXCEPT !.there = TRUE] \in Contents
                            /\ [n EXCEPT !.there = TRUE].whole = n.whole
                            /\ [n EXCEPT !.there = TRUE].there
                            /\ [n EXCEPT !.there = TRUE].of = n.of
    BY DEF Contents
  <2> QED
    BY <2>1, <1>2 DEF Torn
<1>4. /\ Whole(object) \in Contents /\ Whole(object).of = object
      /\ Whole(object).whole /\ Whole(object).there
  BY <1>1 DEF Whole, Contents
<1> QED
  BY <1>2, <1>3, <1>4, FreshSound DEF StoredOK

(* Writing one file.                                                       *)
LEMMA FileWritten ==
  ASSUME TypeInv, NEW kind \in Kinds, NEW i \in Iterations,
         NEW content, StoredOK(content),
         disk' = [disk EXCEPT ![kind][i] = content]
  PROVE  /\ disk' \in [Kinds -> [Iterations -> Contents]]
         /\ disk'[kind][i] = content
         /\ \A k \in Kinds, j \in Iterations :
              k # kind \/ j # i => disk'[k][j] = disk[k][j]
         /\ \A k \in Kinds, j \in Iterations : StoredOK(disk'[k][j])
<1>1. disk \in [Kinds -> [Iterations -> Contents]] /\ content \in Contents
  BY DEF TypeInv, StoredOK
<1>2. /\ disk' \in [Kinds -> [Iterations -> Contents]]
      /\ disk'[kind][i] = content
      /\ \A k \in Kinds, j \in Iterations :
           k # kind \/ j # i => disk'[k][j] = disk[k][j]
  BY <1>1
<1> QED
  BY <1>2 DEF TypeInv

(* A first start is well formed.                                           *)
LEMMA TypeInvInit == Init => TypeInv
<1> SUFFICES ASSUME Init PROVE TypeInv
  OBVIOUS
<1>1. Sound(Fresh) /\ StoredOK(None)
  BY FreshSound, WrittenOK
<1>2. None \in Contents
  BY <1>1 DEF StoredOK
<1>3. 0 \in 0 .. NumIterations
  BY TrainingAssumption
<1>4. /\ disk \in [Kinds -> [Iterations -> Contents]]
      /\ \A k \in Kinds, i \in Iterations : disk[k][i] = None
  BY <1>2 DEF Init
<1>5. stops \in Nat /\ unswept \in 0 .. stops
  BY DEF Init
<1>6. /\ variant \in Variants /\ Sound(self) /\ iteration \in 0 .. NumIterations
      /\ phase = "collect" /\ writing \in BOOLEAN /\ StoredOK(best)
      /\ last = -1 /\ resumed \in BOOLEAN /\ lower \in BOOLEAN /\ behind \in BOOLEAN
  BY <1>1, <1>3 DEF Init
<1> HIDE DEF Init, None
<1> QED
  BY <1>1, <1>4, <1>5, <1>6 DEF TypeInv, Phases


(* The object after each step of the loop.                                 *)
LEMMA BufferKept ==
  ASSUME NEW b \in Seq(Iterations), NEW i \in Iterations
  PROVE  LET c == Append(b, i)
             kept == SubSeq(c, Len(c) - (IF Len(c) < BufferMax THEN Len(c)
                                         ELSE BufferMax) + 1, Len(c))
         IN kept \in Seq(Iterations) /\ Len(kept) <= BufferMax
<1> DEFINE c == Append(b, i)
           m == IF Len(c) < BufferMax THEN Len(c) ELSE BufferMax
           kept == SubSeq(c, Len(c) - m + 1, Len(c))
<1>1. c \in Seq(Iterations) /\ Len(c) \in Nat
  OBVIOUS
<1>2. m \in Nat /\ m <= Len(c) /\ m <= BufferMax
  BY <1>1, TrainingAssumption
<1> HIDE DEF c, m
<1>3. Len(c) - m + 1 >= 1 /\ Len(c) - m + 1 \in Int
  BY <1>1, <1>2
<1>4. kept \in Seq(Iterations) /\ Len(kept) <= m
  <2> DEFINE n == Len(c) - m + 1
  <2>1. \A j \in n .. Len(c) : c[j] \in Iterations
    <3>1. \A j \in 1 .. Len(c) : c[j] \in Iterations
      BY <1>1
    <3> QED
      BY <3>1, <1>1, <1>3
  <2>2. n \in Int /\ n >= 1
    BY <1>3
  <2>3. Len(c) - n + 1 = m
    BY <1>1, <1>2
  <2> HIDE DEF n
  <2>4. SubSeq(c, n, Len(c)) \in Seq(Iterations)
    BY <1>1, <2>1, <2>2, SubSeqProperties
  <2>5. Len(SubSeq(c, n, Len(c))) = IF n <= Len(c) THEN Len(c) - n + 1 ELSE 0
    BY <1>1, <2>2
  <2> QED
    BY <2>3, <2>4, <2>5, <1>1, <1>2 DEF n
<1> QED
  BY <1>2, <1>4, <1>1 DEF c, m

(* What two objects have in common when only their buffers differ.         *)
SameBut(o, p) ==
  /\ p.net = o.net /\ p.bestRate = o.bestRate
  /\ (p.linked <=> o.linked) /\ (p.astray <=> o.astray)

(* Self-play adds its games to the buffer, cuts it to its bound, and       *)
(* changes nothing else of the object.                                     *)
LEMMA Collected ==
  ASSUME TypeInv, Collect
  PROVE  Sound(self') /\ SameBut(self, self')
<1> DEFINE c == Append(self.buffer, iteration)
           kept == SubSeq(c, Len(c) - (IF Len(c) < BufferMax THEN Len(c)
                                       ELSE BufferMax) + 1, Len(c))
<1>1. self \in Objects /\ iteration \in Iterations
  BY TrainingAssumption DEF TypeInv, Sound, Collect, Iterations
<1>2. self.buffer \in Seq(Iterations)
  BY <1>1 DEF Objects
<1>3. kept \in Seq(Iterations) /\ Len(kept) <= BufferMax
  BY <1>1, <1>2, BufferKept
<1>4. self' = [self EXCEPT !.buffer = kept]
  BY DEF Collect
<1> HIDE DEF kept
<1>5. /\ self' \in Objects /\ self'.buffer = kept
      /\ self'.net = self.net /\ self'.bestRate = self.bestRate
      /\ self'.linked = self.linked /\ self'.astray = self.astray
  BY <1>1, <1>3, <1>4 DEF Objects
<1> QED
  BY <1>3, <1>5 DEF Sound, SameBut

(* Learning reaches the network only while the optimizer is linked to it.  *)
LEMMA Learned ==
  ASSUME NEW o, Sound(o), iteration \in Iterations
  PROVE  /\ Sound(Learn(o)) /\ Learn(o).bestRate = o.bestRate
         /\ (Learn(o).linked <=> o.linked) /\ (Learn(o).astray <=> o.astray)
         /\ o.linked => Learn(o).net = o.net \cup {iteration}
<1>1. o \in Objects
  BY DEF Sound
<1> DEFINE n == o.net \cup {iteration}
           m == o.opt \cup {iteration}
           p == [o EXCEPT !.net = n, !.opt = m]
<1>2. CASE o.linked
  <2>1. Learn(o) = p
    BY <1>2 DEF Learn
  <2>2. n \in SUBSET Iterations /\ m \in SUBSET Iterations
    BY <1>1 DEF Objects
  <2> HIDE DEF n, m
  <2>3. /\ p \in Objects /\ p.net = n /\ p.buffer = o.buffer
        /\ p.bestRate = o.bestRate /\ p.linked = o.linked /\ p.astray = o.astray
    BY <1>1, <2>2 DEF Objects
  <2> HIDE DEF p
  <2> QED
    BY <2>1, <2>3 DEF Sound, n
<1>3. CASE ~o.linked
  BY <1>3 DEF Learn
<1> QED
  BY <1>2, <1>3

(* A new best rate changes nothing else of the object.                     *)
LEMMA Rated ==
  ASSUME NEW o, Sound(o), NEW rate \in Rates
  PROVE  LET p == [o EXCEPT !.bestRate = rate]
         IN /\ Sound(p) /\ p.bestRate = rate /\ p.net = o.net
            /\ (p.linked <=> o.linked) /\ (p.astray <=> o.astray)
<1> DEFINE p == [o EXCEPT !.bestRate = rate]
<1>1. o \in Objects
  BY DEF Sound
<1>2. /\ p \in Objects /\ p.net = o.net /\ p.buffer = o.buffer
      /\ p.bestRate = rate /\ p.linked = o.linked /\ p.astray = o.astray
  BY <1>1 DEF Objects
<1> HIDE DEF p
<1> QED
  BY <1>2 DEF Sound, p

(* The objects a process starts with.                                      *)
LEMMA Starts ==
  ASSUME NEW o, Sound(o)
  PROVE  /\ Sound(Restored(o))
         /\ variant # "Omok" => /\ Restored(o).net = o.net
                                /\ (Restored(o).astray <=> o.astray)
                                /\ Restored(o).linked
         /\ variant = "Omok" => Restored(o).astray
<1>1. /\ o \in Objects /\ Fresh \in Objects
      /\ Len(o.buffer) <= BufferMax /\ Len(Fresh.buffer) <= BufferMax
  BY FreshSound DEF Sound
<1>2. CASE variant = "Omok"
  <2> DEFINE p == [Fresh EXCEPT !.bestRate = o.bestRate, !.astray = TRUE]
  <2>1. Restored(o) = p
    BY <1>2 DEF Restored
  <2>2. o.bestRate \in Rates \cup {0}
    BY <1>1 DEF Objects
  <2>3. ASSUME NEW f \in Objects, NEW r \in Rates \cup {0}
        PROVE  LET q == [f EXCEPT !.bestRate = r, !.astray = TRUE]
               IN q \in Objects /\ q.buffer = f.buffer /\ q.astray
    BY DEF Objects
  <2>4. p \in Objects /\ p.buffer = Fresh.buffer /\ p.astray
    <3> HIDE DEF Fresh
    <3> QED
      BY <1>1, <2>2, <2>3
  <2> HIDE DEF p
  <2> QED
    BY <1>1, <1>2, <2>1, <2>4 DEF Sound
<1>3. CASE variant # "Omok"
  <2> DEFINE p == [o EXCEPT !.linked = TRUE]
  <2>1. Restored(o) = p
    BY <1>3 DEF Restored
  <2>2. /\ p \in Objects /\ p.net = o.net /\ p.buffer = o.buffer
        /\ p.linked /\ p.astray = o.astray
    BY <1>1 DEF Objects
  <2> HIDE DEF p
  <2> QED
    BY <1>1, <1>3, <2>1, <2>2 DEF Sound
<1> QED
  BY <1>2, <1>3

(* What load_checkpoint and load_model put together from the files is well *)
(* formed, and counts as having gone astray.                               *)
LEMMA LoadedSound ==
  ASSUME TypeInv, NEW i \in Iterations
  PROVE  /\ Sound(Loaded(i)) /\ Loaded(i).astray
         /\ Sound([Loaded(i) EXCEPT !.net = disk["model"][i].of.net,
                                    !.linked = FALSE])
         /\ [Loaded(i) EXCEPT !.net = disk["model"][i].of.net,
                              !.linked = FALSE].astray
<1> DEFINE part(k) == disk[k][i].of
<1>1. \A k \in {"model", "optimizer", "buffer", "metadata"} :
        part(k) \in Objects /\ Len(part(k).buffer) <= BufferMax
  BY KindsAre DEF TypeInv, StoredOK, Sound
<1>2. /\ part("model").net \in SUBSET Iterations
      /\ part("optimizer").opt \in SUBSET Iterations
      /\ part("buffer").buffer \in Seq(Iterations)
      /\ Len(part("buffer").buffer) <= BufferMax
      /\ part("metadata").bestRate \in Rates \cup {0}
  BY <1>1 DEF Objects
<1>3. Fresh \in Objects
  BY FreshSound DEF Sound
<1>4. Loaded(i) = [Fresh EXCEPT !.opt = part("optimizer").opt,
                                !.buffer = part("buffer").buffer,
                                !.bestRate = part("metadata").bestRate,
                                !.astray = TRUE]
  BY DEF Loaded
<1>5. ASSUME NEW f \in Objects, NEW o \in SUBSET Iterations,
             NEW b \in Seq(Iterations), NEW r \in Rates \cup {0}
      PROVE  LET q == [f EXCEPT !.opt = o, !.buffer = b, !.bestRate = r,
                                !.astray = TRUE]
             IN q \in Objects /\ q.buffer = b /\ q.astray
  BY DEF Objects
<1>6. /\ Loaded(i) \in Objects /\ Loaded(i).astray
      /\ Loaded(i).buffer = part("buffer").buffer
  <2> DEFINE opt == part("optimizer").opt
             buffer == part("buffer").buffer
             rate == part("metadata").bestRate
             q == [Fresh EXCEPT !.opt = opt, !.buffer = buffer,
                                !.bestRate = rate, !.astray = TRUE]
  <2>1. /\ opt \in SUBSET Iterations /\ buffer \in Seq(Iterations)
        /\ rate \in Rates \cup {0}
    BY <1>2
  <2>2. Loaded(i) = q
    BY <1>4
  <2>3. q \in Objects /\ q.buffer = buffer /\ q.astray
    <3> HIDE DEF Fresh, opt, buffer, rate
    <3> QED
      BY <1>3, <1>5, <2>1
  <2> HIDE DEF q
  <2> QED
    BY <2>2, <2>3
<1>7. ASSUME NEW f \in Objects, NEW n \in SUBSET Iterations
      PROVE  LET q == [f EXCEPT !.net = n, !.linked = FALSE]
             IN q \in Objects /\ q.buffer = f.buffer /\ (q.astray <=> f.astray)
  <2> DEFINE q == [f EXCEPT !.net = n, !.linked = FALSE]
  <2>1. q \in Objects /\ q.buffer = f.buffer /\ q.astray = f.astray
    BY DEF Objects
  <2> QED
    BY <2>1
<1> DEFINE q == [Loaded(i) EXCEPT !.net = disk["model"][i].of.net,
                                  !.linked = FALSE]
<1>8. /\ q \in Objects /\ q.buffer = part("buffer").buffer
      /\ q.astray
  BY <1>2, <1>6, <1>7
<1> HIDE DEF part, q
<1>9. Sound(Loaded(i)) /\ Sound(q)
  BY <1>2, <1>6, <1>8 DEF Sound
<1> QED
  BY <1>6, <1>8, <1>9 DEF q


(* What the newest files of a set are taken from.                          *)
LEMMA NewestAre ==
  ASSUME NEW files, NEW kept \in Newest(files)
  PROVE  kept \subseteq files
BY DEF Newest

(* Removing files leaves the others as they were.                          *)
LEMMA Remains ==
  ASSUME TypeInv, NEW files, Remain(files)
  PROVE  /\ disk' \in [Kinds -> [Iterations -> Contents]]
         /\ \A k \in Kinds, i \in Iterations :
              disk'[k][i] = IF <<k, i>> \in files THEN disk[k][i] ELSE None
         /\ \A k \in Kinds, i \in Iterations : StoredOK(disk'[k][i])
<1>1. None \in Contents /\ StoredOK(None)
  BY FreshSound, WrittenOK DEF StoredOK
<1>2. \A k \in Kinds, i \in Iterations :
        disk[k][i] \in Contents /\ StoredOK(disk[k][i])
  BY DEF TypeInv
<1> HIDE DEF None
<1>3. \A k \in Kinds, i \in Iterations :
        disk'[k][i] = IF <<k, i>> \in files THEN disk[k][i] ELSE None
  BY DEF Remain
<1>4. disk' \in [Kinds -> [Iterations -> Contents]]
  BY <1>1, <1>2 DEF Remain
<1> QED
  BY <1>1, <1>2, <1>3, <1>4

(* However cleaning goes, some files remain, among them those it keeps.    *)
LEMMA Cleaning ==
  ASSUME Cleanup \/ CleanupGoesOn \/ StopCleaning
  PROVE  /\ phase = "clean"
         /\ \E kept \in Kept : \E files :
              Remain(files) /\ kept \cap Files(Kinds) \subseteq files
<1>1. CASE Cleanup
  BY <1>1 DEF Cleanup
<1>2. CASE CleanupGoesOn
  BY <1>2 DEF CleanupGoesOn
<1>3. CASE StopCleaning
  <2>5. PICK kept \in Kept : \E f \in Files(Kinds) \ kept :
          \/ Remain({g \in Files(Kinds) : g \in Files(Kinds) \ kept =>
                       g # f /\ ~Sooner(g, f)})
          \/ Remain({g \in Files(Kinds) : g \in Files(Kinds) \ kept => Sooner(f, g)})
    BY <1>3 DEF StopCleaning
  <2>1. PICK f \in Files(Kinds) \ kept :
          \/ Remain({g \in Files(Kinds) : g \in Files(Kinds) \ kept =>
                       g # f /\ ~Sooner(g, f)})
          \/ Remain({g \in Files(Kinds) : g \in Files(Kinds) \ kept => Sooner(f, g)})
    BY <2>5
  <2>2. kept \cap Files(Kinds) \subseteq
          {g \in Files(Kinds) : g \in Files(Kinds) \ kept =>
             g # f /\ ~Sooner(g, f)}
    OBVIOUS
  <2>3. kept \cap Files(Kinds) \subseteq
          {g \in Files(Kinds) : g \in Files(Kinds) \ kept => Sooner(f, g)}
    OBVIOUS
  <2>4. phase = "clean"
    BY <1>3 DEF StopCleaning
  <2> HIDE DEF Kept, Remain, Sooner
  <2> QED
    BY <2>1, <2>2, <2>3, <2>4
<1> QED
  BY <1>1, <1>2, <1>3

(* Every step keeps object, loop and files well formed.                    *)
LEMMA TypeInvNext == TypeInv /\ [Next]_vars => TypeInv'
<1> SUFFICES ASSUME TypeInv, [Next]_vars PROVE TypeInv'
  OBVIOUS
<1> USE TrainingAssumption, KindsAre
<1>1. CASE Collect
  <2>1. Sound(self')
    BY <1>1, Collected
  <2>2. iteration \in Iterations
    BY <1>1 DEF TypeInv, Collect, Iterations
  <2>3. phase' \in Phases /\ writing' = FALSE
    BY <1>1 DEF Collect, Phase, Phases
  <2> QED
    BY <1>1, <2>1, <2>2, <2>3 DEF TypeInv, Collect, history
<1>2. CASE Train
  <2>1. iteration \in Iterations
    BY <1>2 DEF TypeInv, Train
  <2>2. Sound(self')
    BY <1>2, <2>1, Learned DEF TypeInv, Train
  <2>3. phase' \in Phases /\ writing' = FALSE
    BY <1>2 DEF Train, Phase, Phases
  <2> QED
    BY <1>2, <2>1, <2>2, <2>3 DEF TypeInv, Train, history
<1>3. ASSUME NEW rate \in Rates, Evaluate(rate) PROVE TypeInv'
  <2>1. iteration \in Iterations
    BY <1>3 DEF TypeInv, Evaluate
  <2>2. Sound(self')
    BY <1>3, Rated DEF TypeInv, Evaluate
  <2>3. phase' \in Phases /\ writing' = FALSE
    BY <1>3 DEF Evaluate, Phase, Phases
  <2> QED
    BY <1>3, <2>1, <2>2, <2>3 DEF TypeInv, Evaluate, history
<1>4. CASE WriteBest
  <2>1. iteration \in Iterations
    BY <1>4 DEF TypeInv, WriteBest
  <2>2. StoredOK(best')
    BY <1>4, WrittenOK DEF TypeInv, WriteBest
  <2>3. phase' \in Phases /\ writing' \in BOOLEAN
    BY <1>4 DEF TypeInv, WriteBest, Phase, Phases
  <2> QED
    BY <1>4, <2>1, <2>2, <2>3 DEF TypeInv, WriteBest, history
<1>5. ASSUME NEW kind \in Kinds, Open(kind) PROVE TypeInv'
  <2>1. iteration \in Iterations
    BY <1>5 DEF TypeInv, Open
  <2>2. StoredOK(Torn)
    BY WrittenOK DEF TypeInv
  <2>3. /\ disk' \in [Kinds -> [Iterations -> Contents]]
        /\ \A k \in Kinds, i \in Iterations : StoredOK(disk'[k][i])
    BY <1>5, <2>1, <2>2, FileWritten DEF Open
  <2>4. last' \in Iterations \cup {-1}
    BY <1>5 DEF TypeInv, Open
  <2> QED
    BY <1>5, <2>1, <2>3, <2>4 DEF TypeInv, Open
<1>6. ASSUME NEW kind \in Kinds, Close(kind) PROVE TypeInv'
  <2>1. iteration \in Iterations
    BY <1>6 DEF TypeInv, Close
  <2>2. StoredOK(Whole(self))
    BY WrittenOK DEF TypeInv
  <2>3. /\ disk' \in [Kinds -> [Iterations -> Contents]]
        /\ \A k \in Kinds, i \in Iterations : StoredOK(disk'[k][i])
    BY <1>6, <2>1, <2>2, FileWritten DEF Close
  <2>4. last' \in Iterations \cup {-1}
    BY <1>6, <2>1 DEF TypeInv, Close
  <2>5. phase' \in Phases /\ writing' = FALSE
    BY <1>6, Order DEF Close, Phase, Phases
  <2> QED
    BY <1>6, <2>1, <2>3, <2>4, <2>5 DEF TypeInv, Close
<1>7. CASE Cleanup
  <2>1. iteration \in Iterations
    BY <1>7 DEF TypeInv, Cleanup
  <2>2. PICK files : Remain(files)
    BY <1>7, Cleaning
  <2>3. /\ disk' \in [Kinds -> [Iterations -> Contents]]
        /\ \A k \in Kinds, i \in Iterations : StoredOK(disk'[k][i])
    BY <2>2, Remains
  <2>4. unswept' \in 0 .. stops'
    BY <1>7 DEF TypeInv, Cleanup
  <2> QED
    BY <1>7, <2>1, <2>3, <2>4 DEF TypeInv, Cleanup, Phase, Phases
<1>16. CASE CleanupGoesOn
  <2>1. iteration \in Iterations
    BY <1>16 DEF TypeInv, CleanupGoesOn
  <2>2. PICK files : Remain(files)
    BY <1>16, Cleaning
  <2>3. /\ disk' \in [Kinds -> [Iterations -> Contents]]
        /\ \A k \in Kinds, i \in Iterations : StoredOK(disk'[k][i])
    BY <2>2, Remains
  <2>4. stops' \in Nat /\ unswept' \in 0 .. stops'
    BY <1>16 DEF TypeInv, CleanupGoesOn
  <2> QED
    BY <1>16, <2>1, <2>3, <2>4 DEF TypeInv, CleanupGoesOn, Phase, Phases
<1>8. CASE NextIteration
  <2>1. iteration' \in 0 .. NumIterations
    BY <1>8 DEF TypeInv, NextIteration, Iterations
  <2> QED
    BY <1>8, <2>1 DEF TypeInv, NextIteration, Phase, Phases, history
<1>9. ASSUME Die,
             /\ disk' \in [Kinds -> [Iterations -> Contents]]
             /\ \A k \in Kinds, i \in Iterations : StoredOK(disk'[k][i])
      PROVE  TypeInv'
  <2>1. 0 \in 0 .. NumIterations /\ stops' \in Nat /\ unswept' \in 0 .. stops'
    BY <1>9 DEF TypeInv, Die
  <2> QED
    BY <1>9, <2>1, FreshSound DEF TypeInv, Die, Phase, Phases
<1>17. CASE Stop
  BY <1>9, <1>17 DEF Stop, TypeInv
<1>18. CASE StopCleaning
  <2>1. PICK files : Remain(files)
    BY <1>18, Cleaning
  <2> QED
    BY <1>9, <1>18, <2>1, Remains DEF StopCleaning
<1>10. ASSUME NEW object, NEW i, Start(object, i), Sound(object),
              i \in 0 .. NumIterations, resumed' \in BOOLEAN,
              last' \in Iterations \cup {-1}
       PROVE  TypeInv'
  <2>1. lower' \in BOOLEAN /\ behind' \in BOOLEAN
    <3>1. \/ lower' = lower
          \/ lower' = TRUE
      BY <1>10 DEF Start, TypeInv
    <3>2. behind' = (object.bestRate < best.of.bestRate)
      BY <1>10 DEF Start
    <3>3. lower' \in BOOLEAN
      <4>1. lower \in BOOLEAN
        BY DEF TypeInv
      <4>2. CASE lower' = lower
        BY <4>1, <4>2, Zenon
      <4>3. CASE lower' = TRUE
        BY <4>3, Zenon
      <4> QED
        BY <3>1, <4>2, <4>3, Zenon
    <3>4. behind' \in BOOLEAN
      <4> DEFINE low == object.bestRate < best.of.bestRate
      <4>1. behind' = low
        BY <3>2
      <4>2. low \in BOOLEAN
        OBVIOUS
      <4> HIDE DEF low
      <4> QED
        BY <4>1, <4>2
    <3> QED
      BY <3>3, <3>4
  <2>2. phase' = "collect" /\ writing' = FALSE
    BY <1>10 DEF Start, Phase
  <2> QED
    BY <1>10, <2>1, <2>2 DEF TypeInv, Start, Phases
<1>11. CASE FromScratch
  <2>1. 0 \in 0 .. NumIterations
    OBVIOUS
  <2> QED
    BY <1>10, <1>11, <2>1, FreshSound DEF FromScratch
<1>12. ASSUME NEW i \in Iterations
       PROVE  i \in 0 .. NumIterations /\ i + 1 \in 0 .. NumIterations
  BY <1>12 DEF Iterations
<1>13. ASSUME NEW i \in Iterations, LoadCheckpoint(i) PROVE TypeInv'
  <2>1. Sound(Restored(disk["checkpoint"][i].of))
    BY Starts DEF TypeInv, StoredOK
  <2> QED
    BY <1>10, <1>12, <1>13, <2>1 DEF LoadCheckpoint, TypeInv
<1>14. ASSUME NEW i \in Iterations, NEW resume \in BOOLEAN,
              LoadModel(i, resume) \/ LoadModelOthello(i, resume)
       PROVE  TypeInv'
  BY <1>10, <1>12, <1>14, LoadedSound DEF LoadModel, LoadModelOthello
<1>15. CASE UNCHANGED vars
  BY <1>15 DEF vars, TypeInv
<1> QED
  BY <1>1, <1>2, <1>3, <1>4, <1>5, <1>6, <1>7, <1>8, <1>11, <1>13,
     <1>14, <1>15, <1>16, <1>17, <1>18 DEF Next

(* The object, the loop and the files stay well formed.                    *)
LEMMA Typed == Spec => []TypeInv
BY TypeInvInit, TypeInvNext, PTL DEF Spec

(* A training's object, loop and files stay well formed, and its buffer    *)
(* within its bound, through every interruption and every way to go on.    *)
THEOREM TypeCorrect == Spec => []TypeOK
<1>1. TypeInv => TypeOK
  BY DEF TypeInv, TypeOK, Sound, StoredOK, Phases
<1> QED
  BY <1>1, Typed, PTL

-----------------------------------------------------------------------------
(* Cleaning                                                                *)

(* The files of one kind.                                                  *)
LEMMA FilesOf ==
  ASSUME NEW k \in Kinds
  PROVE  /\ \A f : f \in Files({k}) <=>
                     \E i \in Iterations : f = <<k, i>> /\ disk[k][i].there
         /\ \A i \in Iterations : <<k, i>> \in Files({k}) <=> disk[k][i].there
BY DEF Files

(* The files of a kind are finitely many.                                  *)
LEMMA FilesFinite ==
  ASSUME NEW k \in Kinds
  PROVE  IsFiniteSet(Files({k})) /\ IsFiniteSet(Files({k})')
<1>1. IsFiniteSet(Iterations)
  <2>1. NumIterations - 1 \in Int
    BY TrainingAssumption
  <2> QED
    BY <2>1, FS_Interval DEF Iterations
<1>2. IsFiniteSet({k} \X Iterations)
  BY <1>1, FS_Singleton, FS_Product
<1>3. Files({k}) \subseteq {k} \X Iterations /\ Files({k})' \subseteq {k} \X Iterations
  BY DEF Files
<1> QED
  BY <1>2, <1>3, FS_Subset

(* Of files numbered at most n, the one before the last is among the last  *)
(* two.                                                                    *)
LEMMA LatestKept ==
  ASSUME NEW files, IsFiniteSet(files), NEW kept \in Newest(files),
         NEW k, NEW n \in Int, NEW i \in Int, i >= n - 1,
         <<k, i>> \in files,
         \A f \in files : \E j \in Int : f = <<k, j>> /\ j <= n
  PROVE  <<k, i>> \in kept
<1> SUFFICES ASSUME <<k, i>> \notin kept PROVE FALSE
  OBVIOUS
<1> DEFINE f == <<k, i>>
<1>1. kept \subseteq files /\ IsFiniteSet(kept)
  BY NewestAre, FS_Subset
<1>2. /\ Cardinality(kept) = IF Cardinality(files) < 2
                             THEN Cardinality(files) ELSE 2
      /\ \A g \in kept, h \in files \ kept : g[2] >= h[2]
  BY DEF Newest, KeepLatest
<1>3. kept \subseteq {<<k, n>>}
  <2> SUFFICES ASSUME NEW g \in kept PROVE g = <<k, n>>
    OBVIOUS
  <2>1. PICK j \in Int : g = <<k, j>> /\ j <= n
    BY <1>1
  <2>2. g[2] >= f[2]
    BY <1>2
  <2>3. j >= i /\ j # i
    BY <2>1, <2>2
  <2> QED
    BY <2>1, <2>3
<1>4. Cardinality(kept) \in Nat /\ Cardinality(kept) <= 1
  <2>1. Cardinality({<<k, n>>}) = 1 /\ IsFiniteSet({<<k, n>>})
    BY FS_Singleton
  <2> QED
    BY <1>3, <2>1, FS_Subset, FS_CardinalityType
<1>5. Cardinality(files) \in Nat /\ Cardinality(files \ {f}) = Cardinality(files) - 1
      /\ IsFiniteSet(files \ {f})
  BY FS_CardinalityType, FS_RemoveElement
<1>6. Cardinality(kept) <= Cardinality(files \ {f})
  BY <1>1, <1>5, FS_Subset
<1> QED
  BY <1>2, <1>4, <1>5, <1>6

(* Cleaning keeps files of each kind among the newest of that kind, models *)
(* and optimizers among the newest of both.                                *)
KeptNewest(kept) ==
  /\ \A k \in {"buffer", "metadata", "summary", "checkpoint"} :
       \E new \in Newest(Files({k})) :
         \A i : <<k, i>> \in kept <=> <<k, i>> \in new
  /\ \E new \in Newest(Files({"model", "optimizer"})) :
       \A k \in {"model", "optimizer"} :
         \A i : <<k, i>> \in kept <=> <<k, i>> \in new

(* Cleaning removes all but the newest files of each pattern.               *)
LEMMA CleanupKeeps ==
  ASSUME NEW stay \in Kept
  PROVE  KeptNewest(stay)
<1>1. PICK pth \in Newest(Files({"model", "optimizer"})),
           buffers \in Newest(Files({"buffer"})),
           metadata \in Newest(Files({"metadata"})),
           summaries \in Newest(Files({"summary"})),
           checkpoints \in Newest(Files({"checkpoint"})) :
        stay = pth \cup buffers \cup metadata \cup summaries \cup checkpoints
  BY DEF Kept
<1> DEFINE kept == pth \cup buffers \cup metadata \cup summaries \cup checkpoints
<1>2. /\ pth \subseteq Files({"model", "optimizer"})
      /\ buffers \subseteq Files({"buffer"})
      /\ metadata \subseteq Files({"metadata"})
      /\ summaries \subseteq Files({"summary"})
      /\ checkpoints \subseteq Files({"checkpoint"})
  BY NewestAre
<1>3. \A kinds, k, i : <<k, i>> \in Files(kinds) => k \in kinds
  BY DEF Files
<1>4. /\ \A k, i : <<k, i>> \in pth => k \in {"model", "optimizer"}
      /\ \A k, i : <<k, i>> \in buffers => k = "buffer"
      /\ \A k, i : <<k, i>> \in metadata => k = "metadata"
      /\ \A k, i : <<k, i>> \in summaries => k = "summary"
      /\ \A k, i : <<k, i>> \in checkpoints => k = "checkpoint"
  BY <1>2, <1>3
<1>5. /\ \A i : <<"buffer", i>> \in kept <=> <<"buffer", i>> \in buffers
      /\ \A i : <<"metadata", i>> \in kept <=> <<"metadata", i>> \in metadata
      /\ \A i : <<"summary", i>> \in kept <=> <<"summary", i>> \in summaries
      /\ \A i : <<"checkpoint", i>> \in kept <=> <<"checkpoint", i>> \in checkpoints
      /\ \A k \in {"model", "optimizer"} :
           \A i : <<k, i>> \in kept <=> <<k, i>> \in pth
  BY <1>4
<1>6. \A k \in {"buffer", "metadata", "summary", "checkpoint"} :
        \E new \in Newest(Files({k})) :
          \A i : <<k, i>> \in kept <=> <<k, i>> \in new
  <2> HIDE DEF kept
  <2>1. \E new \in Newest(Files({"buffer"})) :
          \A i : <<"buffer", i>> \in kept <=> <<"buffer", i>> \in new
    BY <1>5
  <2>2. \E new \in Newest(Files({"metadata"})) :
          \A i : <<"metadata", i>> \in kept <=> <<"metadata", i>> \in new
    BY <1>5
  <2>3. \E new \in Newest(Files({"summary"})) :
          \A i : <<"summary", i>> \in kept <=> <<"summary", i>> \in new
    BY <1>5
  <2>4. \E new \in Newest(Files({"checkpoint"})) :
          \A i : <<"checkpoint", i>> \in kept <=> <<"checkpoint", i>> \in new
    BY <1>5
  <2> QED
    BY <2>1, <2>2, <2>3, <2>4
<1>7. stay = kept
  BY <1>1
<1> HIDE DEF kept
<1> QED
  BY <1>5, <1>6, <1>7 DEF KeptNewest

(* Cleaning leaves the checkpoints of this iteration and the one before,   *)
(* when there are no later ones.                                           *)
LEMMA CheckpointStays ==
  ASSUME TypeInv, NEW kept \in Kept, NEW left, Remain(left),
         kept \cap Files(Kinds) \subseteq left,
         \A j \in Iterations : disk["checkpoint"][j].there => j <= iteration,
         NEW i \in Iterations, i >= iteration - 1,
         disk["checkpoint"][i].there
  PROVE  disk'["checkpoint"][i] = disk["checkpoint"][i]
<1> DEFINE files == Files({"checkpoint"})
<1>1. KeptNewest(kept)
  BY CleanupKeeps
<1>2. PICK new \in Newest(files) :
        \A j : <<"checkpoint", j>> \in kept <=> <<"checkpoint", j>> \in new
  BY <1>1 DEF KeptNewest
<1>3. /\ <<"checkpoint", i>> \in files
      /\ \A f \in files : \E j \in Int : f = <<"checkpoint", j>> /\ j <= iteration
  BY KindsAre, FilesOf DEF Iterations
<1>4. IsFiniteSet(files) /\ iteration \in Int /\ i \in Int
  BY KindsAre, FilesFinite DEF TypeInv, Iterations
<1>5. <<"checkpoint", i>> \in new
  <2> HIDE DEF files
  <2> QED
    BY <1>3, <1>4, LatestKept
<1>6. <<"checkpoint", i>> \in Files(Kinds)
  BY KindsAre DEF Files
<1>7. <<"checkpoint", i>> \in left
  BY <1>2, <1>5, <1>6
<1> QED
  BY <1>7, Remains, KindsAre

-----------------------------------------------------------------------------
(* Going on from a checkpoint                                              *)

NoneLater ==
  ~lower /\ phase # "off" =>
    \A k \in Kinds, i \in Iterations : disk[k][i].there => i <= iteration

(* The checkpoint a resumed training stands on while it works on the next. *)
OnCheckpoint ==
  resumed /\ ~lower /\ phase # "off" =>
    \E i \in Iterations : i = iteration - 1 /\ CanLoadCheckpoint(i)

Saved == phase = "next" => CanLoadCheckpoint(iteration)

LastBefore ==
  last # -1 /\ phase # "off" =>
    last = IF phase = "next" THEN iteration ELSE iteration - 1

ResumeInv ==
  NoneLater /\ OnCheckpoint /\ Saved /\ LastBefore /\ Resumable /\ LastKept

(* A running training is resumable from the checkpoint it stands on.       *)
LEMMA StandsOn == OnCheckpoint /\ phase # "off" => Resumable
BY DEF OnCheckpoint, Resumable

(* A training that has its checkpoint can go on from it.                   *)
LEMMA StandsOnNext == OnCheckpoint' /\ phase' # "off" => Resumable'
BY DEF OnCheckpoint, Resumable

(* A first start goes on from nothing.                                     *)
LEMMA ResumeInvInit == TypeInv /\ Init => ResumeInv
<1> SUFFICES ASSUME TypeInv, Init PROVE ResumeInv
  OBVIOUS
<1>1. \A k \in Kinds, i \in Iterations : disk[k][i] = None
  BY DEF Init
<1>2. ~None.there
  BY FreshSound, WrittenOK
<1> QED
  BY <1>1, <1>2
     DEF Init, ResumeInv, NoneLater, OnCheckpoint, Saved, LastBefore,
         Resumable, LastKept

(* Steps that touch no file.                                               *)
LEMMA Quiet ==
  ASSUME ResumeInv, UNCHANGED <<disk, last, resumed, lower, iteration>>,
         phase \notin {"off", "next"}, phase' \notin {"off", "next"}
  PROVE  ResumeInv'
BY DEF ResumeInv, NoneLater, OnCheckpoint, Saved, LastBefore, Resumable,
       LastKept, CanLoadCheckpoint

(* Opening a file truncates no checkpoint that is needed: the one of this  *)
(* iteration is not, and no other is touched.                              *)
LEMMA OpenResumes ==
  ASSUME TypeInv, ResumeInv, NEW kind \in Kinds, Open(kind)
  PROVE  ResumeInv'
<1>1. /\ phase = kind /\ phase' = kind /\ kind \notin {"off", "next"}
      /\ iteration \in Iterations /\ iteration \in Int
  BY KindsAre DEF Open, TypeInv, Iterations
<1>2. StoredOK(Torn)
  BY WrittenOK DEF TypeInv
<1>3. /\ disk' = [disk EXCEPT ![kind][iteration] = Torn]
      /\ UNCHANGED <<iteration, resumed, lower>>
  BY DEF Open
<1>4. \A k \in Kinds, j \in Iterations :
        j # iteration => disk'[k][j] = disk[k][j]
  BY <1>1, <1>2, <1>3, FileWritten
<1>5. last' = last \/ last' = -1
  BY DEF Open
<1>6. "checkpoint" \in Kinds
  BY KindsAre
<1>7. \A i \in Iterations : i # iteration /\ CanLoadCheckpoint(i) =>
        CanLoadCheckpoint(i)'
  BY <1>4, <1>6 DEF CanLoadCheckpoint
<1>8. iteration - 1 # iteration
  BY <1>1
<1>9. NoneLater'
  BY <1>1, <1>3, <1>4 DEF NoneLater, ResumeInv
<1>10. OnCheckpoint'
  BY <1>1, <1>3, <1>7, <1>8 DEF OnCheckpoint, ResumeInv
<1>11. Saved' /\ LastBefore'
  BY <1>1, <1>3, <1>5 DEF Saved, LastBefore, ResumeInv
<1>12. LastKept'
  <2> SUFFICES ASSUME last' # -1, ~lower' PROVE disk'["checkpoint"][last'].whole
    BY DEF LastKept
  <2>1. last' = last /\ last = iteration - 1 /\ last \in Iterations
    BY <1>1, <1>5 DEF ResumeInv, LastBefore, TypeInv
  <2>2. CanLoadCheckpoint(last)
    BY <1>3, <2>1 DEF ResumeInv, LastKept, CanLoadCheckpoint
  <2> QED
    BY <1>7, <1>8, <2>1, <2>2 DEF CanLoadCheckpoint
<1> QED
  BY <1>1, <1>9, <1>10, <1>11, <1>12, StandsOnNext DEF ResumeInv

(* A file written whole takes nothing away, and the checkpoint of this     *)
(* iteration is the new one to go on from.                                 *)
LEMMA CloseResumes ==
  ASSUME TypeInv, ResumeInv, NEW kind \in Kinds, Close(kind)
  PROVE  ResumeInv'
<1>1. /\ phase = kind /\ kind \notin {"off", "next"}
      /\ iteration \in Iterations /\ iteration \in Int
  BY KindsAre DEF Close, TypeInv, Iterations
<1>2. StoredOK(Whole(self)) /\ Whole(self).whole
  BY WrittenOK DEF TypeInv
<1>3. /\ disk' = [disk EXCEPT ![kind][iteration] = Whole(self)]
      /\ UNCHANGED <<iteration, resumed, lower>>
      /\ last' = IF kind = "checkpoint" THEN iteration ELSE last
  BY DEF Close
<1>4. /\ disk'[kind][iteration] = Whole(self)
      /\ \A k \in Kinds, j \in Iterations :
           j # iteration => disk'[k][j] = disk[k][j]
  <2> DEFINE content == Whole(self)
  <2>1. StoredOK(content) /\ disk' = [disk EXCEPT ![kind][iteration] = content]
    BY <1>2, <1>3
  <2> HIDE DEF content
  <2>2. disk \in [Kinds -> [Iterations -> Contents]] /\ iteration \in Iterations
    BY <1>1 DEF TypeInv
  <2>3. disk'[kind][iteration] = content
    BY <2>1, <2>2
  <2>4. \A k \in Kinds, j \in Iterations :
          j # iteration => disk'[k][j] = disk[k][j]
    BY <2>1, <2>2
  <2> QED
    BY <2>3, <2>4 DEF content
<1>5. /\ phase' # "off"
      /\ phase' = "next" <=> kind = "checkpoint"
  BY KindsAre, Order DEF Close, Phase
<1>6. "checkpoint" \in Kinds
  BY KindsAre
<1>7. \A i \in Iterations : i # iteration /\ CanLoadCheckpoint(i) =>
        CanLoadCheckpoint(i)'
  BY <1>4, <1>6 DEF CanLoadCheckpoint
<1>8. iteration - 1 # iteration
  BY <1>1
<1>9. NoneLater'
  BY <1>1, <1>3, <1>4 DEF NoneLater, ResumeInv
<1>10. OnCheckpoint'
  BY <1>1, <1>3, <1>7, <1>8 DEF OnCheckpoint, ResumeInv
<1>11. Saved'
  BY <1>2, <1>3, <1>4, <1>5 DEF Saved, CanLoadCheckpoint
<1>12. LastBefore'
  BY <1>1, <1>3, <1>5 DEF LastBefore, ResumeInv
<1>13. LastKept'
  <2>1. CASE kind = "checkpoint"
    BY <2>1, <1>2, <1>3, <1>4 DEF LastKept
  <2>2. CASE kind # "checkpoint"
    <3> SUFFICES ASSUME last' # -1, ~lower' PROVE disk'["checkpoint"][last'].whole
      BY DEF LastKept
    <3>1. last' = last /\ last = iteration - 1 /\ last \in Iterations
      BY <1>1, <1>3, <2>2 DEF ResumeInv, LastBefore, TypeInv
    <3>2. CanLoadCheckpoint(last)
      BY <1>3, <3>1 DEF ResumeInv, LastKept, CanLoadCheckpoint
    <3> QED
      BY <1>7, <1>8, <3>1, <3>2 DEF CanLoadCheckpoint
  <2> QED
    BY <2>1, <2>2
<1> QED
  BY <1>5, <1>9, <1>10, <1>11, <1>12, <1>13, StandsOnNext DEF ResumeInv

(* Cleaning leaves the checkpoint to go on from, also when it is           *)
(* interrupted.                                                            *)
LEMMA CleanupResumes ==
  ASSUME TypeInv, ResumeInv, Cleanup \/ CleanupGoesOn \/ StopCleaning
  PROVE  ResumeInv'
<1>1. /\ phase = "clean"
      /\ \/ phase' = "checkpoint" /\ iteration' = iteration
         \/ phase' = "off"
      /\ iteration \in Iterations /\ iteration \in Int
      /\ UNCHANGED <<last, resumed, lower>>
  BY DEF Cleanup, CleanupGoesOn, StopCleaning, Die, Phase, TypeInv, Iterations
<1>2. "checkpoint" \in Kinds
  BY KindsAre
<1>3. ~None.there
  BY FreshSound, WrittenOK
<1>15. PICK kept \in Kept :
         \E files : Remain(files) /\ kept \cap Files(Kinds) \subseteq files
  BY Cleaning
<1>14. PICK files :
         Remain(files) /\ kept \cap Files(Kinds) \subseteq files
  BY <1>15
<1>4. \A k \in Kinds, i \in Iterations : disk'[k][i].there => disk[k][i].there
  BY <1>3, <1>14, Remains
<1>5. \A i \in Iterations : CanLoadCheckpoint(i) => disk["checkpoint"][i].there
  BY <1>2 DEF TypeInv, StoredOK, CanLoadCheckpoint
<1>6. ASSUME ~lower, NEW i \in Iterations, i = iteration - 1,
             CanLoadCheckpoint(i)
      PROVE  CanLoadCheckpoint(i)'
  <2>1. \A j \in Iterations : disk["checkpoint"][j].there => j <= iteration
    BY <1>1, <1>2, <1>6 DEF ResumeInv, NoneLater
  <2>2. i >= iteration - 1
    BY <1>1, <1>6
  <2> QED
    BY <1>5, <1>6, <1>14, <2>1, <2>2, CheckpointStays DEF CanLoadCheckpoint
<1>7. NoneLater'
  BY <1>1, <1>4 DEF NoneLater, ResumeInv
<1>8. OnCheckpoint'
  BY <1>1, <1>6 DEF OnCheckpoint, ResumeInv
<1>9. Saved' /\ LastBefore'
  BY <1>1 DEF Saved, LastBefore, ResumeInv
<1>10. LastKept'
  <2> SUFFICES ASSUME last' # -1, ~lower' PROVE disk'["checkpoint"][last'].whole
    BY DEF LastKept
  <2>1. last' = last /\ last = iteration - 1 /\ last \in Iterations
    BY <1>1 DEF ResumeInv, LastBefore, TypeInv
  <2>2. CanLoadCheckpoint(last)
    BY <1>1, <2>1 DEF ResumeInv, LastKept, CanLoadCheckpoint
  <2> QED
    BY <1>1, <1>6, <2>1, <2>2 DEF CanLoadCheckpoint
<1>11. Resumable'
  <2> SUFFICES ASSUME resumed', ~lower'
               PROVE  \E i \in Iterations : CanLoadCheckpoint(i)'
    BY DEF Resumable
  <2>1. PICK i \in Iterations : i = iteration - 1 /\ CanLoadCheckpoint(i)
    BY <1>1 DEF ResumeInv, OnCheckpoint
  <2> QED
    BY <1>1, <1>6, <2>1
<1> QED
  BY <1>7, <1>8, <1>9, <1>10, <1>11 DEF ResumeInv

(* The next iteration stands on the checkpoint of this one.                *)
LEMMA NextIterationResumes ==
  ASSUME TypeInv, ResumeInv, NextIteration
  PROVE  ResumeInv'
<1>1. /\ phase = "next" /\ phase' = "collect"
      /\ iteration \in Iterations /\ iteration \in Int
      /\ iteration' = iteration + 1 /\ iteration' - 1 = iteration
      /\ UNCHANGED <<disk, last, resumed, lower>>
  BY DEF NextIteration, Phase, history, TypeInv, Iterations
<1>2. NoneLater'
  BY <1>1 DEF NoneLater, ResumeInv, Iterations
<1>3. OnCheckpoint'
  BY <1>1 DEF OnCheckpoint, ResumeInv, Saved, CanLoadCheckpoint
<1>4. Saved' /\ LastBefore' /\ LastKept'
  BY <1>1 DEF Saved, LastBefore, LastKept, ResumeInv
<1> QED
  BY <1>1, <1>2, <1>3, <1>4, StandsOnNext DEF ResumeInv

(* An interruption leaves the files as they are.                           *)
LEMMA StopResumes ==
  ASSUME ResumeInv, Stop
  PROVE  ResumeInv'
BY DEF ResumeInv, Stop, Die, Phase, NoneLater, OnCheckpoint, Saved, LastBefore,
       Resumable, LastKept, CanLoadCheckpoint

(* A start goes on from a checkpoint that is whole, or from none.          *)
LEMMA StartResumes ==
  ASSUME TypeInv, ResumeInv, NEW object, NEW i \in 0 .. NumIterations,
         Start(object, i),
         resumed' => \E j \in Iterations : j = i - 1 /\ CanLoadCheckpoint(j),
         last' # -1 => last' = last /\ last = i - 1
  PROVE  ResumeInv'
<1>1. /\ phase' = "collect" /\ iteration' = i /\ disk' = disk
      /\ lower' = (lower \/ \E f \in Files(Kinds) : f[2] > i)
  BY DEF Start, Phase
<1>2. NoneLater'
  <2> SUFFICES ASSUME ~lower', NEW k \in Kinds, NEW j \in Iterations,
                      disk[k][j].there
               PROVE  j <= i
    BY <1>1 DEF NoneLater
  <2>1. <<k, j>> \in Files(Kinds)
    BY DEF Files
  <2>2. ~(<<k, j>>[2] > i)
    BY <1>1, <2>1
  <2> QED
    BY <2>2 DEF Iterations
<1>3. OnCheckpoint'
  BY <1>1 DEF OnCheckpoint, CanLoadCheckpoint
<1>4. Saved' /\ LastBefore'
  BY <1>1 DEF Saved, LastBefore
<1>5. LastKept'
  BY <1>1 DEF LastKept, ResumeInv
<1> QED
  BY <1>1, <1>2, <1>3, <1>4, <1>5, StandsOnNext DEF ResumeInv

(* Every step keeps the checkpoint to go on from.                          *)
LEMMA ResumeInvNext == TypeInv /\ ResumeInv /\ [Next]_vars => ResumeInv'
<1> SUFFICES ASSUME TypeInv, ResumeInv, [Next]_vars PROVE ResumeInv'
  OBVIOUS
<1>1. CASE Collect
  BY <1>1, Quiet DEF Collect, Phase, history
<1>2. CASE Train
  BY <1>2, Quiet DEF Train, Phase, history
<1>3. ASSUME NEW rate \in Rates, Evaluate(rate) PROVE ResumeInv'
  BY <1>3, Quiet DEF Evaluate, Phase, history
<1>4. CASE WriteBest
  BY <1>4, Quiet DEF WriteBest, Phase, history
<1>5. ASSUME NEW kind \in Kinds, Open(kind) \/ Close(kind) PROVE ResumeInv'
  BY <1>5, OpenResumes, CloseResumes
<1>6. CASE Cleanup \/ CleanupGoesOn \/ StopCleaning
  BY <1>6, CleanupResumes
<1>7. CASE NextIteration
  BY <1>7, NextIterationResumes
<1>8. CASE Stop
  BY <1>8, StopResumes
<1>9. CASE FromScratch
  <2>1. 0 \in 0 .. NumIterations
    BY TrainingAssumption
  <2> QED
    BY <1>9, <2>1, StartResumes DEF FromScratch
<1>10. ASSUME NEW i \in Iterations
       PROVE  i \in 0 .. NumIterations /\ i + 1 \in 0 .. NumIterations
              /\ i = (i + 1) - 1
  BY TrainingAssumption DEF Iterations
<1>11. ASSUME NEW i \in Iterations, LoadCheckpoint(i) PROVE ResumeInv'
  <2>1. last' # -1 => last' = last /\ last = (i + 1) - 1
    BY <1>10, <1>11 DEF LoadCheckpoint
  <2>2. \E j \in Iterations : j = (i + 1) - 1 /\ CanLoadCheckpoint(j)
    BY <1>10, <1>11 DEF LoadCheckpoint
  <2>3. Start(Restored(disk["checkpoint"][i].of), i + 1)
    BY <1>11 DEF LoadCheckpoint
  <2> QED
    BY <1>10, <2>1, <2>2, <2>3, StartResumes
<1>12. ASSUME NEW i \in Iterations, NEW resume \in BOOLEAN,
              LoadModel(i, resume) \/ LoadModelOthello(i, resume)
       PROVE  ResumeInv'
  <2> DEFINE at == IF resume THEN i + 1 ELSE i
  <2>1. at \in 0 .. NumIterations
    BY <1>10
  <2>2. resumed' = FALSE /\ last' = -1
    BY <1>12 DEF LoadModel, LoadModelOthello
  <2>3. \E object : Start(object, at)
    BY <1>12 DEF LoadModel, LoadModelOthello
  <2> QED
    BY <2>1, <2>2, <2>3, StartResumes
<1>13. CASE UNCHANGED vars
  BY <1>13 DEF vars, ResumeInv, NoneLater, OnCheckpoint, Saved, LastBefore,
               Resumable, LastKept, CanLoadCheckpoint
<1> QED
  BY <1>1, <1>2, <1>3, <1>4, <1>5, <1>6, <1>7, <1>8, <1>9, <1>11, <1>12, <1>13
     DEF Next

(* A training always has the checkpoint it has to go on from.              *)
LEMMA Resuming == Spec => []ResumeInv
BY Typed, TypeInvInit, ResumeInvInit, ResumeInvNext, PTL DEF Spec

(* A training that went on from a checkpoint can go on from a checkpoint   *)
(* again, wherever it is interrupted, as long as no later files lay about. *)
THEOREM CanResume == Spec => []Resumable
BY Resuming, PTL DEF ResumeInv

(* The checkpoint completed last stays until the next is complete, although*)
(* files are overwritten in place and old ones removed before, as long as  *)
(* no later files lay about.                                               *)
THEOREM LastStays == Spec => []LastKept
BY Resuming, PTL DEF ResumeInv

-----------------------------------------------------------------------------
(* What a network has learned from                                         *)

Learning ==
  ~self.astray =>
    /\ self.linked
    /\ self.net = 0 .. (IF phase \in {"collect", "train", "off"}
                        THEN iteration - 1 ELSE iteration)

LearnInv == Learning /\ NothingForgotten

(* A new network has learned nothing.                                      *)
LEMMA FreshHas ==
  /\ Fresh.net = {} /\ Fresh.linked /\ Fresh.bestRate = 0
  /\ 0 .. 0 - 1 = {}
BY DEF Fresh

(* At first nothing is learned and nothing is to be.                       *)
LEMMA LearnInvInit == TypeInv /\ Init => LearnInv
<1> SUFFICES ASSUME TypeInv, Init PROVE LearnInv
  OBVIOUS
<1>1. \A k \in {"model", "checkpoint"}, i \in Iterations : disk[k][i] = None
  BY KindsAre DEF Init
<1>2. ~None.whole
  BY FreshSound, WrittenOK
<1>3. self = Fresh /\ phase = "collect" /\ iteration = 0
  BY DEF Init
<1> QED
  BY <1>1, <1>2, <1>3, FreshHas DEF LearnInv, Learning, NothingForgotten

(* Files unchanged, written and removed.                                   *)
LEMMA LearnQuiet ==
  ASSUME NothingForgotten, UNCHANGED disk PROVE NothingForgotten'
BY DEF NothingForgotten

(* A write keeps NothingForgotten if what it writes has learned all.       *)
LEMMA LearnWritten ==
  ASSUME TypeInv, NothingForgotten, NEW kind \in Kinds, iteration \in Iterations,
         NEW content, StoredOK(content),
         disk' = [disk EXCEPT ![kind][iteration] = content],
         content.whole /\ ~content.of.astray => content.of.net = 0 .. iteration
  PROVE  NothingForgotten'
<1> SUFFICES ASSUME NEW k \in {"model", "checkpoint"}, NEW i \in Iterations,
                    disk'[k][i].whole, ~disk'[k][i].of.astray
             PROVE  disk'[k][i].of.net = 0 .. i
  BY DEF NothingForgotten
<1>1. /\ disk'[kind][iteration] = content
      /\ k # kind \/ i # iteration => disk'[k][i] = disk[k][i]
  <2>1. disk \in [Kinds -> [Iterations -> Contents]]
    BY DEF TypeInv
  <2>2. /\ disk'[kind][iteration] = content
        /\ \A m \in Kinds, j \in Iterations :
             m # kind \/ j # iteration => disk'[m][j] = disk[m][j]
    BY <2>1
  <2> QED
    BY <2>2, KindsAre
<1>2. CASE k = kind /\ i = iteration
  BY <1>1, <1>2
<1>3. CASE ~(k = kind /\ i = iteration)
  BY <1>1, <1>3 DEF NothingForgotten
<1> QED
  BY <1>2, <1>3

(* Every step keeps what the networks have learned.                        *)
LEMMA LearnInvNext == TypeInv /\ LearnInv /\ [Next]_vars => LearnInv'
<1> SUFFICES ASSUME TypeInv, LearnInv, [Next]_vars PROVE LearnInv'
  OBVIOUS
<1>1. CASE Collect
  <2>1. SameBut(self, self') /\ phase = "collect" /\ phase' = "train"
        /\ iteration' = iteration /\ disk' = disk
    BY <1>1, Collected DEF Collect, Phase
  <2> QED
    BY <2>1, LearnQuiet DEF LearnInv, Learning, SameBut
<1>2. CASE Train
  <2>1. /\ phase = "train" /\ iteration \in Iterations /\ Sound(self)
        /\ phase' \in {"evaluate", "model"}
        /\ iteration' = iteration /\ disk' = disk /\ self' = Learn(self)
    BY <1>2 DEF Train, Phase, TypeInv
  <2>2. /\ (self'.linked <=> self.linked) /\ (self'.astray <=> self.astray)
        /\ self.linked => self'.net = self.net \cup {iteration}
    BY <2>1, Learned
  <2>3. (0 .. iteration - 1) \cup {iteration} = 0 .. iteration
    BY <2>1 DEF Iterations
  <2>4. Learning'
    BY <2>1, <2>2, <2>3 DEF LearnInv, Learning
  <2> QED
    BY <2>1, <2>4, LearnQuiet DEF LearnInv
<1>3. ASSUME NEW rate \in Rates, Evaluate(rate) PROVE LearnInv'
  <2>1. /\ phase = "evaluate" /\ phase' \in {"best", "model"}
        /\ iteration' = iteration /\ disk' = disk /\ Sound(self)
        /\ self' = self \/ self' = [self EXCEPT !.bestRate = rate]
    BY <1>3 DEF Evaluate, Phase, TypeInv
  <2>2. /\ self'.net = self.net
        /\ (self'.linked <=> self.linked) /\ (self'.astray <=> self.astray)
    <3>1. CASE self' = self
      BY <3>1
    <3>2. CASE self' = [self EXCEPT !.bestRate = rate]
      BY <2>1, <3>2, Rated
    <3> QED
      BY <2>1, <3>1, <3>2
  <2>3. Learning'
    BY <2>1, <2>2 DEF LearnInv, Learning
  <2> QED
    BY <2>1, <2>3, LearnQuiet DEF LearnInv
<1>4. CASE WriteBest
  <2>1. /\ phase = "best" /\ phase' \in {"best", "model"}
        /\ UNCHANGED <<iteration, disk, self>>
    BY <1>4 DEF WriteBest, Phase
  <2> QED
    BY <2>1, LearnQuiet DEF LearnInv, Learning
<1>5. ASSUME NEW kind \in Kinds, Open(kind) PROVE LearnInv'
  <2>1. /\ phase = kind /\ phase' = kind /\ iteration \in Iterations
        /\ UNCHANGED <<iteration, self>>
        /\ disk' = [disk EXCEPT ![kind][iteration] = Torn]
    BY <1>5, KindsAre DEF Open, TypeInv
  <2>2. StoredOK(Torn) /\ ~Torn.whole
    BY WrittenOK DEF TypeInv
  <2>3. NothingForgotten'
    BY <2>1, <2>2, LearnWritten DEF LearnInv
  <2> QED
    BY <2>1, <2>3 DEF LearnInv, Learning
<1>6. ASSUME NEW kind \in Kinds, Close(kind) PROVE LearnInv'
  <2>1. /\ phase = kind /\ iteration \in Iterations
        /\ UNCHANGED <<iteration, self>>
        /\ disk' = [disk EXCEPT ![kind][iteration] = Whole(self)]
    BY <1>6, KindsAre DEF Close, TypeInv
  <2>2. StoredOK(Whole(self)) /\ Whole(self).of = self
    BY WrittenOK DEF TypeInv
  <2>3. /\ phase \notin {"collect", "train", "off"}
        /\ phase' \notin {"collect", "train", "off"}
    BY <1>6, KindsAre, Order DEF Close, Phase
  <2>4. ~self.astray => self.net = 0 .. iteration
    BY <2>3 DEF LearnInv, Learning
  <2>5. NothingForgotten'
    <3> DEFINE content == Whole(self)
    <3>1. /\ StoredOK(content)
          /\ disk' = [disk EXCEPT ![kind][iteration] = content]
          /\ content.whole /\ ~content.of.astray => content.of.net = 0 .. iteration
      BY <2>1, <2>2, <2>4
    <3> HIDE DEF content
    <3> QED
      BY <2>1, <3>1, LearnWritten DEF LearnInv
  <2> QED
    BY <2>1, <2>3, <2>5 DEF LearnInv, Learning
<1>7. CASE Cleanup \/ CleanupGoesOn \/ StopCleaning
  <2>1. /\ phase = "clean"
        /\ \/ phase' = "checkpoint" /\ UNCHANGED <<iteration, self>>
           \/ phase' = "off" /\ self' = Fresh /\ iteration' = 0
    BY <1>7 DEF Cleanup, CleanupGoesOn, StopCleaning, Die, Phase
  <2>2. NothingForgotten'
    <3>1. ~None.whole
      BY FreshSound, WrittenOK
    <3>2. \A k \in {"model", "checkpoint"}, i \in Iterations :
            disk'[k][i] = disk[k][i] \/ disk'[k][i] = None
      BY <1>7, Cleaning, Remains, KindsAre
    <3> QED
      BY <3>1, <3>2 DEF LearnInv, NothingForgotten
  <2> QED
    BY <2>1, <2>2, FreshHas DEF LearnInv, Learning
<1>8. CASE NextIteration
  <2>1. /\ phase = "next" /\ phase' = "collect" /\ UNCHANGED <<disk, self>>
        /\ iteration' - 1 = iteration
    BY <1>8 DEF NextIteration, Phase, TypeInv
  <2> QED
    BY <2>1, LearnQuiet DEF LearnInv, Learning
<1>9. CASE Stop
  <2>1. phase' = "off" /\ self' = Fresh /\ iteration' = 0 /\ disk' = disk
    BY <1>9 DEF Stop, Die, Phase
  <2> QED
    BY <2>1, FreshHas, LearnQuiet DEF LearnInv, Learning
<1>10. CASE FromScratch
  <2>1. phase' = "collect" /\ self' = Fresh /\ iteration' = 0 /\ disk' = disk
    BY <1>10 DEF FromScratch, Start, Phase
  <2> QED
    BY <2>1, FreshHas, LearnQuiet DEF LearnInv, Learning
<1>11. ASSUME NEW i \in Iterations, LoadCheckpoint(i) PROVE LearnInv'
  <2> DEFINE saved == disk["checkpoint"][i].of
  <2>1. /\ phase' = "collect" /\ self' = Restored(saved)
        /\ iteration' = i + 1 /\ disk' = disk /\ CanLoadCheckpoint(i)
    BY <1>11 DEF LoadCheckpoint, Start, Phase
  <2>2. Sound(saved)
    BY KindsAre DEF TypeInv, StoredOK
  <2>3. ~saved.astray => saved.net = 0 .. i
    BY <2>1 DEF LearnInv, NothingForgotten, CanLoadCheckpoint
  <2>4. (i + 1) - 1 = i
    BY DEF Iterations
  <2>5. ~self'.astray => self'.linked /\ self'.net = 0 .. i
    <3> HIDE DEF saved
    <3> QED
      BY <2>1, <2>2, <2>3, Starts
  <2> QED
    BY <2>1, <2>4, <2>5, LearnQuiet DEF LearnInv, Learning
<1>12. ASSUME NEW i \in Iterations, NEW resume \in BOOLEAN,
              LoadModel(i, resume) \/ LoadModelOthello(i, resume)
       PROVE  LearnInv'
  <2>1. self'.astray /\ disk' = disk
    BY <1>12, LoadedSound DEF LoadModel, LoadModelOthello, Start
  <2> QED
    BY <2>1, LearnQuiet DEF LearnInv, Learning
<1>13. CASE UNCHANGED vars
  BY <1>13 DEF vars, LearnInv, Learning, NothingForgotten
<1> QED
  BY <1>1, <1>2, <1>3, <1>4, <1>5, <1>6, <1>7, <1>8, <1>9, <1>10, <1>11, <1>12,
     <1>13 DEF Next

(* A saved network has learned from every iteration up to its own, over any*)
(* number of interruptions and resumptions from a checkpoint.              *)
THEOREM NoneForgotten == Spec => []NothingForgotten
<1>1. Spec => []LearnInv
  BY Typed, TypeInvInit, LearnInvInit, LearnInvNext, PTL DEF Spec
<1> QED
  BY <1>1, PTL DEF LearnInv

-----------------------------------------------------------------------------
(* The best network                                                        *)

BestTorn == phase = "best" /\ writing => ~best.whole

(* The process knows a rate at least as good as the one on the disk.       *)
RateKnown ==
  phase # "off" /\ best.whole /\ ~behind =>
    /\ best.of.bestRate <= self.bestRate
    /\ phase = "best" => best.of.bestRate < self.bestRate

RateInv == BestTorn /\ RateKnown

(* Win rates are natural numbers.                                          *)
LEMMA RateIsNumber ==
  ASSUME NEW o, Sound(o) PROVE o.bestRate \in Nat
<1>1. o.bestRate \in Rates \cup {0}
  BY DEF Sound, Objects
<1>2. \A r \in Rates \cup {0} : r \in Nat
  BY TrainingAssumption
<1> QED
  BY <1>1, <1>2, Zenon

(* So are those of the object and of the best network.                     *)
LEMMA RatesAreNumbers ==
  TypeInv => self.bestRate \in Nat /\ best.of.bestRate \in Nat
BY RateIsNumber DEF TypeInv, StoredOK

(* At first there is no best network.                                      *)
LEMMA RateInvInit == TypeInv /\ Init => RateInv
<1>1. ~None.whole
  BY FreshSound, WrittenOK
<1> QED
  BY <1>1 DEF Init, RateInv, BestTorn, RateKnown

(* Steps that leave the best network and the best rate.                    *)
LEMMA RateQuiet ==
  ASSUME RateInv, UNCHANGED <<best, behind>>, self'.bestRate = self.bestRate,
         phase # "off", phase' # "best"
  PROVE  RateInv'
BY DEF RateInv, BestTorn, RateKnown

(* Every step keeps the best network the best.                             *)
LEMMA RateInvNext == TypeInv /\ RateInv /\ [Next]_vars => RateInv'
<1> SUFFICES ASSUME TypeInv, RateInv, [Next]_vars PROVE RateInv'
  OBVIOUS
<1>1. CASE Collect
  <2>1. SameBut(self, self')
    BY <1>1, Collected
  <2> QED
    BY <1>1, <2>1, RateQuiet DEF Collect, Phase, history, SameBut
<1>2. CASE Train
  <2>1. Sound(self) /\ iteration \in Iterations
    BY <1>2 DEF Train, TypeInv
  <2>2. self'.bestRate = self.bestRate
    BY <1>2, <2>1, Learned DEF Train
  <2> QED
    BY <1>2, <2>2, RateQuiet DEF Train, Phase, history
<1>3. ASSUME NEW rate \in Rates, Evaluate(rate) PROVE RateInv'
  <2>1. CASE ~Improves(rate)
    BY <1>3, <2>1, RateQuiet DEF Evaluate, Phase, history
  <2>2. CASE Improves(rate)
    <3>1. /\ phase = "evaluate" /\ phase' = "best" /\ writing' = FALSE
          /\ self' = [self EXCEPT !.bestRate = rate]
          /\ UNCHANGED <<best, behind>> /\ Sound(self)
      BY <1>3, <2>2 DEF Evaluate, Phase, history, TypeInv
    <3>2. self'.bestRate = rate
      BY <3>1, Rated
    <3>3. rate > self.bestRate /\ rate \in Nat
      BY <2>2, TrainingAssumption DEF Improves
    <3> QED
      BY <3>1, <3>2, <3>3, RatesAreNumbers DEF RateInv, BestTorn, RateKnown
  <2> QED
    BY <2>1, <2>2
<1>4. CASE WriteBest
  <2>1. /\ ~Torn.whole /\ Whole(self).of = self
        /\ phase = "best" /\ behind' = behind /\ self' = self
    BY <1>4, WrittenOK DEF TypeInv, WriteBest, history
  <2>2. CASE best' = Torn
    BY <2>1, <2>2 DEF RateInv, BestTorn, RateKnown
  <2>3. CASE best' = Whole(self) /\ phase' = "model"
    BY <2>1, <2>3, RatesAreNumbers DEF RateInv, BestTorn, RateKnown
  <2> QED
    BY <1>4, <2>2, <2>3 DEF WriteBest, Phase
<1>5. ASSUME NEW kind \in Kinds, Open(kind) \/ Close(kind) PROVE RateInv'
  <2>1. /\ phase # "off" /\ phase' # "best"
        /\ UNCHANGED <<best, behind, self>>
    BY <1>5, KindsAre, Order DEF Open, Close, Phase
  <2> QED
    BY <2>1, RateQuiet
<1>6. CASE Cleanup \/ CleanupGoesOn
  BY <1>6, RateQuiet DEF Cleanup, CleanupGoesOn, Phase
<1>7. CASE NextIteration
  BY <1>7, RateQuiet DEF NextIteration, Phase, history
<1>8. CASE Stop \/ StopCleaning
  BY <1>8 DEF Stop, StopCleaning, Die, Phase, RateInv, BestTorn, RateKnown
<1>9. ASSUME NEW object, NEW i, Sound(object), Start(object, i) PROVE RateInv'
  <2>1. /\ phase' = "collect" /\ self' = object /\ best' = best
        /\ behind' = (object.bestRate < best.of.bestRate)
    BY <1>9 DEF Start, Phase
  <2>2. object.bestRate \in Nat
    BY <1>9, RateIsNumber
  <2>3. ~behind' => best.of.bestRate <= object.bestRate
    <3> DEFINE low == object.bestRate < best.of.bestRate
    <3>1. ~behind' => ~low
      BY <2>1, Zenon
    <3>2. ~low => best.of.bestRate <= object.bestRate
      BY <2>2, RatesAreNumbers
    <3> QED
      BY <3>1, <3>2, Zenon
  <2> QED
    BY <2>1, <2>3 DEF RateInv, BestTorn, RateKnown
<1>10. CASE FromScratch
  BY <1>9, <1>10, FreshSound DEF FromScratch
<1>11. ASSUME NEW i \in Iterations, LoadCheckpoint(i) PROVE RateInv'
  <2>1. Sound(Restored(disk["checkpoint"][i].of))
    BY Starts, KindsAre DEF TypeInv, StoredOK
  <2> QED
    BY <1>9, <1>11, <2>1 DEF LoadCheckpoint
<1>12. ASSUME NEW i \in Iterations, NEW resume \in BOOLEAN,
              LoadModel(i, resume) \/ LoadModelOthello(i, resume)
       PROVE  RateInv'
  BY <1>9, <1>12, LoadedSound DEF LoadModel, LoadModelOthello
<1>13. CASE UNCHANGED vars
  BY <1>13 DEF vars, RateInv, BestTorn, RateKnown
<1> QED
  BY <1>1, <1>2, <1>3, <1>4, <1>5, <1>6, <1>7, <1>8, <1>10, <1>11, <1>12, <1>13
     DEF Next

(* A whole best_model.pth gives way only to a network with a better rate,  *)
(* across interruptions, unless the process does not know the rate on the  *)
(* disk.                                                                   *)
THEOREM BestKept == Spec => BestNeverWorse
<1>1. Spec => []RateInv
  BY Typed, TypeInvInit, RateInvInit, RateInvNext, PTL DEF Spec
<1>2. TypeInv /\ RateInv /\ [Next]_vars =>
        [best.whole /\ best' # best /\ ~behind =>
           self.bestRate > best.of.bestRate]_vars
  <2> SUFFICES ASSUME TypeInv, RateInv, Next, best.whole, best' # best, ~behind
               PROVE  self.bestRate > best.of.bestRate
    OBVIOUS
  <2>1. WriteBest
    BY DEF Next, Collect, Train, Evaluate, Open, Close, Cleanup, CleanupGoesOn,
           NextIteration, Stop, StopCleaning, Die, FromScratch, LoadCheckpoint,
           LoadModel, LoadModelOthello, Start
  <2>2. phase = "best" /\ ~writing
    BY <2>1 DEF WriteBest, RateInv, BestTorn
  <2> QED
    BY <2>2, RatesAreNumbers DEF RateInv, RateKnown
<1> QED
  BY <1>1, <1>2, Typed, PTL DEF Spec, BestNeverWorse

-----------------------------------------------------------------------------
(* How many files there are                                                *)

(* Kinds of file written before a kind, since the last cleaning.           *)
Before(kind) ==
  CASE kind = "optimizer" -> {"model"}
    [] kind = "buffer" -> {"model", "optimizer"}
    [] kind = "metadata" -> {"model", "optimizer", "buffer"}
    [] kind = "summary" -> {"model", "optimizer", "buffer", "metadata"}
    [] OTHER -> {}

(* No file of the kind has been added since the last cleaning.             *)
Due(kind) ==
  \/ phase = kind /\ ~writing
  \/ phase \in Before(kind)
  \/ kind # "checkpoint" /\ phase \notin Kinds \cup {"clean"}
  \/ kind # "checkpoint" /\ phase = "checkpoint"

Few ==
  \A k \in Kinds :
    Cardinality(Files({k})) <= KeepLatest + unswept + (IF Due(k) THEN 0 ELSE 1)

OpenFileIsThere ==
  phase \in Kinds /\ writing => disk[phase][iteration].there

DiskInv == Few /\ OpenFileIsThere

(* The files written before each kind of file, by name.                    *)
LEMMA BeforeIs ==
  /\ Before("model") = {} /\ Before("optimizer") = {"model"}
  /\ Before("buffer") = {"model", "optimizer"}
  /\ Before("metadata") = {"model", "optimizer", "buffer"}
  /\ Before("summary") = {"model", "optimizer", "buffer", "metadata"}
  /\ Before("checkpoint") = {}
BY DEF Before

(* How many files of a kind there are.                                     *)
LEMMA FilesCounted ==
  ASSUME NEW k \in Kinds
  PROVE  Cardinality(Files({k})) \in Nat /\ Cardinality(Files({k}))' \in Nat
BY FilesFinite, FS_CardinalityType

(* The files of one kind, now and after a step.                            *)
LEMMA FilesAre ==
  ASSUME NEW k \in Kinds
  PROVE  /\ Files({k}) = {f \in {k} \X Iterations : disk[k][f[2]].there}
         /\ Files({k})' = {f \in {k} \X Iterations : disk'[k][f[2]].there}
BY DEF Files

(* The same files, one more, and what cleaning leaves of them.             *)
LEMMA SameFiles ==
  ASSUME NEW k \in Kinds,
         \A i \in Iterations : disk'[k][i].there <=> disk[k][i].there
  PROVE  Files({k})' = Files({k})
<1>1. \A f \in {k} \X Iterations : disk'[k][f[2]].there <=> disk[k][f[2]].there
  OBVIOUS
<1> QED
  BY <1>1, FilesAre

(* Writing the file of an iteration adds at most one.                      *)
LEMMA OneMore ==
  ASSUME NEW k \in Kinds, iteration \in Iterations,
         \A i \in Iterations : i # iteration => disk'[k][i] = disk[k][i]
  PROVE  Cardinality(Files({k}))' <= Cardinality(Files({k})) + 1
<1> DEFINE more == Files({k}) \cup {<<k, iteration>>}
<1>1. Files({k})' \subseteq more
  BY FilesAre
<1>2. /\ IsFiniteSet(more)
      /\ Cardinality(more) = IF <<k, iteration>> \in Files({k})
                             THEN Cardinality(Files({k}))
                             ELSE Cardinality(Files({k})) + 1
  BY FilesFinite, FS_AddElement
<1>3. Cardinality(more) \in Nat /\ Cardinality(Files({k}))' <= Cardinality(more)
  BY <1>1, <1>2, FS_Subset, FS_CardinalityType
<1> QED
  BY <1>2, <1>3, FilesCounted

(* Cleaning keeps as many of the files as it should.                       *)
LEMMA AtMostTwo ==
  ASSUME NEW files, NEW kept \in Newest(files), IsFiniteSet(files)
  PROVE  IsFiniteSet(kept) /\ Cardinality(kept) <= KeepLatest
<1>1. IsFiniteSet(kept)
  BY NewestAre, FS_Subset
<1>2. Cardinality(kept) \in Nat /\ Cardinality(files) \in Nat
  BY <1>1, FS_CardinalityType
<1> QED
  BY <1>1, <1>2 DEF Newest, KeepLatest

(* The files of a kind that cleaning keeps are no more than that.          *)
LEMMA FewStay ==
  ASSUME NEW kept \in Kept, NEW k \in Kinds
  PROVE  LET stay == {f \in kept : f \in {k} \X Iterations}
         IN IsFiniteSet(stay) /\ Cardinality(stay) <= KeepLatest
<1> DEFINE stay == {f \in kept : f \in {k} \X Iterations}
<1>1. KeptNewest(kept)
  BY CleanupKeeps
<1>2. \E files, new :
        /\ new \in Newest(files) /\ IsFiniteSet(files)
        /\ \A i : <<k, i>> \in kept <=> <<k, i>> \in new
  <2>1. CASE k \in {"buffer", "metadata", "summary", "checkpoint"}
    BY <1>1, <2>1, FilesFinite DEF KeptNewest
  <2>2. CASE k \in {"model", "optimizer"}
    <3> DEFINE pth == Files({"model", "optimizer"})
    <3>1. pth = Files({"model"}) \cup Files({"optimizer"})
      BY DEF Files
    <3>2. IsFiniteSet(Files({"model"})) /\ IsFiniteSet(Files({"optimizer"}))
      BY FilesFinite, KindsAre
    <3>3. IsFiniteSet(pth)
      BY <3>1, <3>2, FS_Union
    <3>4. \E new \in Newest(pth) : \A i : <<k, i>> \in kept <=> <<k, i>> \in new
      BY <1>1, <2>2 DEF KeptNewest
    <3> HIDE DEF pth
    <3> QED
      BY <3>3, <3>4
  <2> QED
    BY <2>1, <2>2, KindsAre
<1>3. PICK files, new :
        /\ new \in Newest(files) /\ IsFiniteSet(files)
        /\ \A i : <<k, i>> \in kept <=> <<k, i>> \in new
  BY <1>2
<1>5. stay \subseteq new
  BY <1>3
<1>6. IsFiniteSet(new) /\ Cardinality(new) <= KeepLatest
  BY <1>3, AtMostTwo
<1>7. /\ Cardinality(stay) <= Cardinality(new) /\ IsFiniteSet(stay)
      /\ Cardinality(stay) \in Nat /\ Cardinality(new) \in Nat
  BY <1>5, <1>6, FS_Subset, FS_CardinalityType
<1> HIDE DEF stay
<1>8. IsFiniteSet(stay) /\ Cardinality(stay) <= KeepLatest
  BY <1>6, <1>7 DEF KeepLatest
<1> QED
  BY <1>8 DEF stay

(* What remains of a kind when only the kept files, or those and one more, *)
(* do.                                                                     *)
LEMMA FewRemain ==
  ASSUME TypeInv, NEW kept \in Kept, NEW k \in Kinds
  PROVE  /\ Remain(kept) => Cardinality(Files({k}))' <= KeepLatest
         /\ \A f : Remain(kept \cup {f}) =>
                     Cardinality(Files({k}))' <= KeepLatest + 1
<1> DEFINE stay == {f \in kept : f \in {k} \X Iterations}
<1>1. IsFiniteSet(stay) /\ Cardinality(stay) <= KeepLatest
  BY FewStay
<1>2. ~None.there
  BY FreshSound, WrittenOK
<1>3. ASSUME NEW files, Remain(files)
      PROVE  Files({k})' \subseteq {f \in files : f \in {k} \X Iterations}
  <2>1. \A i \in Iterations : disk'[k][i].there => <<k, i>> \in files
    BY <1>2, <1>3, Remains
  <2>2. \A f \in {k} \X Iterations : f = <<k, f[2]>> /\ f[2] \in Iterations
    OBVIOUS
  <2>3. Files({k})' = {f \in {k} \X Iterations : disk'[k][f[2]].there}
    BY FilesAre
  <2> QED
    BY <2>1, <2>2, <2>3
<1>4. ASSUME NEW f
      PROVE  {g \in kept \cup {f} : g \in {k} \X Iterations} \subseteq stay \cup {f}
  OBVIOUS
<1>5. {g \in kept : g \in {k} \X Iterations} = stay
  OBVIOUS
<1> HIDE DEF stay
<1>6. Cardinality(stay) \in Nat
  BY <1>1, FS_CardinalityType
<1>7. ASSUME Remain(kept) PROVE Cardinality(Files({k}))' <= KeepLatest
  <2>1. Files({k})' \subseteq stay
    BY <1>3, <1>5, <1>7
  <2>2. Cardinality(Files({k}))' <= Cardinality(stay)
    BY <1>1, <2>1, FS_Subset
  <2> QED
    BY <1>1, <1>6, <2>2, FilesCounted DEF KeepLatest
<1>8. ASSUME NEW f, Remain(kept \cup {f})
      PROVE  Cardinality(Files({k}))' <= KeepLatest + 1
  <2>1. Files({k})' \subseteq stay \cup {f}
    BY <1>3, <1>4, <1>8
  <2>2. /\ IsFiniteSet(stay \cup {f})
        /\ Cardinality(stay \cup {f}) \in Nat
        /\ Cardinality(stay \cup {f}) <= Cardinality(stay) + 1
    <3>1. /\ IsFiniteSet(stay \cup {f})
          /\ Cardinality(stay \cup {f}) = IF f \in stay THEN Cardinality(stay)
                                          ELSE Cardinality(stay) + 1
      BY <1>1, FS_AddElement
    <3> QED
      BY <1>6, <3>1
  <2>3. Cardinality(Files({k}))' <= Cardinality(stay \cup {f})
    BY <2>1, <2>2, FS_Subset
  <2> QED
    BY <1>1, <1>6, <2>2, <2>3, FilesCounted DEF KeepLatest
<1> QED
  BY <1>7, <1>8

(* A first start finds no files.                                           *)
LEMMA DiskInvInit == TypeInv /\ Init => DiskInv
<1> SUFFICES ASSUME TypeInv, Init PROVE DiskInv
  OBVIOUS
<1>1. ~None.there
  BY FreshSound, WrittenOK
<1>2. ASSUME NEW k \in Kinds PROVE Cardinality(Files({k})) = 0
  <2>1. Files({k}) = {}
    BY <1>1, FilesOf DEF Init
  <2> QED
    BY <2>1, FS_EmptySet
<1>3. unswept = 0 /\ writing = FALSE
  BY DEF Init
<1> QED
  BY <1>2, <1>3 DEF DiskInv, Few, OpenFileIsThere, KeepLatest

(* Steps that touch no file.                                               *)
LEMMA DiskQuiet ==
  ASSUME TypeInv, DiskInv, UNCHANGED <<disk, unswept>>,
         phase \notin Kinds \cup {"clean"}, phase' # "checkpoint",
         phase' \notin Kinds \/ ~writing'
  PROVE  DiskInv'
<1>1. ASSUME NEW k \in Kinds
      PROVE  Cardinality(Files({k}))' <=
               KeepLatest + unswept + (IF Due(k)' THEN 0 ELSE 1)
  <2>1. Cardinality(Files({k})) <= KeepLatest + unswept + (IF Due(k) THEN 0 ELSE 1)
    BY DEF DiskInv, Few
  <2>2. Files({k})' = Files({k})
    BY SameFiles
  <2>3. Due(k)' => Due(k)
    BY KindsAre, BeforeIs DEF Due
  <2>4. unswept \in Nat
    BY DEF TypeInv
  <2> QED
    BY <2>1, <2>2, <2>3, <2>4, FilesCounted DEF KeepLatest
<1> QED
  BY <1>1 DEF DiskInv, Few, OpenFileIsThere

(* Opening a file adds the one that was due.                               *)
LEMMA OpenCounts ==
  ASSUME TypeInv, DiskInv, NEW kind \in Kinds, Open(kind)
  PROVE  DiskInv'
<1>1. /\ phase = kind /\ phase' = kind /\ ~writing /\ writing' = TRUE
      /\ UNCHANGED <<iteration, unswept>>
      /\ iteration \in Iterations
      /\ disk' = [disk EXCEPT ![kind][iteration] = Torn]
  BY KindsAre DEF Open, TypeInv
<1>2. StoredOK(Torn) /\ Torn.there
  BY WrittenOK DEF TypeInv
<1>3. /\ disk'[kind][iteration] = Torn
      /\ \A k \in Kinds, j \in Iterations :
           k # kind \/ j # iteration => disk'[k][j] = disk[k][j]
  BY <1>1, <1>2, FileWritten
<1>4. ASSUME NEW k \in Kinds
      PROVE  Cardinality(Files({k}))' <=
               KeepLatest + unswept + (IF Due(k)' THEN 0 ELSE 1)
  <2>1. Cardinality(Files({k})) <= KeepLatest + unswept + (IF Due(k) THEN 0 ELSE 1)
    BY DEF DiskInv, Few
  <2>2. unswept \in Nat
    BY DEF TypeInv
  <2>3. CASE k = kind
    <3>1. Due(k)
      BY <1>1, <2>3 DEF Due
    <3>2. ~Due(k)'
      BY <1>1, <2>3, KindsAre, BeforeIs DEF Due
    <3>3. Cardinality(Files({k}))' <= Cardinality(Files({k})) + 1
      BY <1>1, <1>3, OneMore
    <3> QED
      BY <2>1, <2>2, <3>1, <3>2, <3>3, FilesCounted DEF KeepLatest
  <2>4. CASE k # kind
    <3>1. Files({k})' = Files({k})
      BY <1>3, <2>4, SameFiles
    <3>2. Due(k)' => Due(k)
      BY <1>1, <2>4 DEF Due
    <3> QED
      BY <2>1, <2>2, <3>1, <3>2, FilesCounted DEF KeepLatest
  <2> QED
    BY <2>3, <2>4
<1>5. OpenFileIsThere'
  BY <1>1, <1>2, <1>3 DEF OpenFileIsThere
<1> QED
  BY <1>1, <1>4, <1>5 DEF DiskInv, Few

(* Closing it adds none.                                                   *)
LEMMA CloseCounts ==
  ASSUME TypeInv, DiskInv, NEW kind \in Kinds, Close(kind)
  PROVE  DiskInv'
<1>1. /\ phase = kind /\ phase' = After(kind) /\ writing /\ writing' = FALSE
      /\ UNCHANGED <<iteration, unswept>>
      /\ iteration \in Iterations
      /\ disk' = [disk EXCEPT ![kind][iteration] = Whole(self)]
  BY KindsAre DEF Close, Phase, TypeInv
<1>2. Whole(self).there
  BY WrittenOK DEF TypeInv
<1>3. /\ disk'[kind][iteration] = Whole(self)
      /\ \A k \in Kinds, j \in Iterations :
           k # kind \/ j # iteration => disk'[k][j] = disk[k][j]
  <2>1. disk \in [Kinds -> [Iterations -> Contents]]
    BY DEF TypeInv
  <2> QED
    BY <1>1, <2>1
<1>4. disk[kind][iteration].there
  BY <1>1 DEF DiskInv, OpenFileIsThere
<1>5. ASSUME NEW k \in Kinds
      PROVE  Cardinality(Files({k}))' <=
               KeepLatest + unswept + (IF Due(k)' THEN 0 ELSE 1)
  <2>1. Cardinality(Files({k})) <= KeepLatest + unswept + (IF Due(k) THEN 0 ELSE 1)
    BY DEF DiskInv, Few
  <2>2. unswept \in Nat
    BY DEF TypeInv
  <2>3. Files({k})' = Files({k})
    BY <1>2, <1>3, <1>4, SameFiles
  <2>4. Due(k)' => Due(k)
    BY <1>1, KindsAre, Order, BeforeIs DEF Due
  <2> QED
    BY <2>1, <2>2, <2>3, <2>4, FilesCounted DEF KeepLatest
<1> QED
  BY <1>1, <1>5 DEF DiskInv, Few, OpenFileIsThere

(* After cleaning a kind can have its next file.                           *)
LEMMA CleanupCounts ==
  ASSUME TypeInv, DiskInv, Cleanup \/ CleanupGoesOn
  PROVE  DiskInv'
<1>1. phase' = "checkpoint" /\ writing' = FALSE
  BY DEF Cleanup, CleanupGoesOn, Phase
<1>2. ASSUME NEW k \in Kinds
      PROVE  Cardinality(Files({k}))' <= KeepLatest + unswept' /\ unswept' \in Nat
  <2>1. CASE Cleanup
    <3>1. Cardinality(Files({k}))' <= KeepLatest /\ unswept' = 0
      BY <2>1, FewRemain DEF Cleanup
    <3> QED
      BY <3>1, FilesCounted DEF KeepLatest
  <2>2. CASE CleanupGoesOn
    <3>1. Cardinality(Files({k}))' <= KeepLatest + 1 /\ unswept' = 1
      BY <2>2, FewRemain DEF CleanupGoesOn
    <3> QED
      BY <3>1, FilesCounted DEF KeepLatest
  <2> QED
    BY <2>1, <2>2
<1>3. ASSUME NEW k \in Kinds
      PROVE  Cardinality(Files({k}))' <=
               KeepLatest + unswept' + (IF Due(k)' THEN 0 ELSE 1)
  BY <1>2, FilesCounted DEF KeepLatest
<1> QED
  BY <1>1, <1>3 DEF DiskInv, Few, OpenFileIsThere

(* An interruption adds no file, and may leave one that cleaning never     *)
(* comes to.                                                               *)
LEMMA StopCounts ==
  ASSUME TypeInv, DiskInv, Stop \/ StopCleaning
  PROVE  DiskInv'
<1>1. /\ phase' = "off" /\ writing' = FALSE
      /\ unswept' = unswept + 1 /\ unswept \in Nat
  BY DEF Stop, StopCleaning, Die, Phase, TypeInv
<1>2. ASSUME NEW k \in Kinds
      PROVE  Cardinality(Files({k}))' <=
               KeepLatest + unswept' + (IF Due(k)' THEN 0 ELSE 1)
  <2>1. Cardinality(Files({k})) <= KeepLatest + unswept + (IF Due(k) THEN 0 ELSE 1)
    BY DEF DiskInv, Few
  <2>2. Files({k})' \subseteq Files({k})
    <3>1. CASE Stop
      BY <3>1, SameFiles DEF Stop
    <3>2. CASE StopCleaning
      <4>1. PICK files : Remain(files)
        BY <3>2, Cleaning
      <4>2. ~None.there
        BY FreshSound, WrittenOK
      <4>3. \A i \in Iterations : disk'[k][i].there => disk[k][i].there
        BY <4>1, <4>2, Remains
      <4> QED
        BY <4>3, FilesAre
    <3> QED
      BY <3>1, <3>2
  <2>3. Cardinality(Files({k}))' <= Cardinality(Files({k}))
    BY <2>2, FilesFinite, FS_Subset
  <2> QED
    BY <1>1, <2>1, <2>3, FilesCounted DEF KeepLatest
<1> QED
  BY <1>1, <1>2 DEF DiskInv, Few, OpenFileIsThere

(* Every step keeps the files few.                                         *)
LEMMA DiskInvNext == TypeInv /\ DiskInv /\ [Next]_vars => DiskInv'
<1> SUFFICES ASSUME TypeInv, DiskInv, [Next]_vars PROVE DiskInv'
  OBVIOUS
<1> USE KindsAre
<1>1. CASE Collect
  BY <1>1, DiskQuiet DEF Collect, Phase, history
<1>2. CASE Train
  BY <1>2, DiskQuiet DEF Train, Phase, history
<1>3. ASSUME NEW rate \in Rates, Evaluate(rate) PROVE DiskInv'
  BY <1>3, DiskQuiet DEF Evaluate, Phase, history
<1>4. CASE WriteBest
  BY <1>4, DiskQuiet DEF WriteBest, Phase, history
<1>5. ASSUME NEW kind \in Kinds, Open(kind) \/ Close(kind) PROVE DiskInv'
  BY <1>5, OpenCounts, CloseCounts
<1>6. CASE Cleanup \/ CleanupGoesOn
  BY <1>6, CleanupCounts
<1>7. CASE NextIteration
  BY <1>7, DiskQuiet DEF NextIteration, Phase, history
<1>8. CASE Stop \/ StopCleaning
  BY <1>8, StopCounts
<1>9. ASSUME NEW object, NEW i, Start(object, i) PROVE DiskInv'
  BY <1>9, DiskQuiet DEF Start, Phase
<1>10. FromScratch \/ (\E i \in Iterations : LoadCheckpoint(i)) => DiskInv'
  BY <1>9 DEF FromScratch, LoadCheckpoint
<1>11. ASSUME NEW i \in Iterations, NEW resume \in BOOLEAN,
              LoadModel(i, resume) \/ LoadModelOthello(i, resume)
       PROVE  DiskInv'
  BY <1>9, <1>11 DEF LoadModel, LoadModelOthello
<1>12. CASE UNCHANGED vars
  <2>1. UNCHANGED <<disk, unswept, phase, writing, iteration>>
    BY <1>12 DEF vars
  <2>2. ASSUME NEW k \in Kinds
        PROVE  Files({k})' = Files({k}) /\ (Due(k)' <=> Due(k))
    BY <2>1, SameFiles DEF Due
  <2>3. Few'
    <3>1. ASSUME NEW k \in Kinds
          PROVE  Cardinality(Files({k}))' <=
                   KeepLatest + unswept' + (IF Due(k)' THEN 0 ELSE 1)
      BY <2>1, <2>2 DEF DiskInv, Few
    <3> QED
      BY <3>1 DEF Few
  <2> QED
    BY <2>1, <2>3 DEF DiskInv, OpenFileIsThere
<1> QED
  BY <1>1, <1>2, <1>3, <1>4, <1>5, <1>6, <1>7, <1>8, <1>10, <1>11, <1>12 DEF Next

(* However often training is interrupted and started anew, an interruption *)
(* leaves at most one more file of a kind, and the next cleaning takes it  *)
(* away.                                                                   *)
THEOREM FilesBounded == Spec => []DiskBounded
<1>1. Spec => []DiskInv
  BY Typed, TypeInvInit, DiskInvInit, DiskInvNext, PTL DEF Spec
<1>2. TypeInv /\ DiskInv => DiskBounded
  <2> SUFFICES ASSUME TypeInv, DiskInv, NEW k \in Kinds
               PROVE  Cardinality(Files({k})) <= KeepLatest + 1 + unswept
    BY DEF DiskBounded
  <2>1. Cardinality(Files({k})) <= KeepLatest + unswept + (IF Due(k) THEN 0 ELSE 1)
    BY DEF DiskInv, Few
  <2> QED
    BY <2>1, FilesCounted DEF TypeInv, KeepLatest
<1> QED
  BY <1>1, <1>2, Typed, PTL

=============================================================================
