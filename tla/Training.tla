------------------------------ MODULE Training ------------------------------
(***************************************************************************)
(* AlphaZero training (model/{Othello,Chess,Omok}/alphazero.py): the loop  *)
(* of train, the files it leaves behind, an interruption at any moment,    *)
(* and the ways to go on from the files (model/*/train.py).                *)
(*                                                                         *)
(* A network is the set of iterations whose games it has learned from; an  *)
(* iteration's games stand for one entry of the buffer.                    *)
(***************************************************************************)
EXTENDS Integers, SequencesExt, FiniteSets

CONSTANTS
  Variants,       \* which of the three versions
  NumIterations,  \* num_iterations
  EvalEvery,      \* 5
  BufferMax,      \* maxlen of data_buffer, in iterations
  Rates,          \* win rates an evaluation may give; 0 is the least
  MaxStops        \* bound: interruptions

ASSUME TrainingAssumption ==
  /\ Variants \subseteq {"Othello", "Chess", "Omok"}
  /\ NumIterations \in Nat /\ EvalEvery \in Nat \ {0}
  /\ BufferMax \in Nat /\ Rates \subseteq Nat

KeepLatest == 2

VARIABLES
  variant,
  self,       \* the AlphaZero object
  iteration,  \* the loop's iteration
  phase,      \* what train does next
  writing,    \* a file of that phase is open
  disk,       \* the files of every kind and iteration
  best,       \* best_model.pth
  last,       \* the iteration this training completed last, -1: none, or
              \* it is run again, or another training has been started
  resumed,    \* the process, or the last one, went on from a checkpoint
  lower,      \* a process started below the newest files on the disk
  behind,     \* the process started with a best rate below best_model's
  stops,
  unswept     \* the stops since old files were last removed

vars == <<variant, self, iteration, phase, writing, disk, best, last,
          resumed, lower, behind, stops, unswept>>

Iterations == 0 .. NumIterations - 1
(* In the order save_model writes them; the checkpoint comes after.        *)
SaveOrder == <<"model", "optimizer", "buffer", "metadata", "summary">>
Kinds == ToSet(SaveOrder) \cup {"checkpoint"}

(* astray is history: the object continues what load_model, or Omok's      *)
(* load_checkpoint, left of a training.                                    *)
Fresh == [net |-> {}, opt |-> {}, linked |-> TRUE, buffer |-> <<>>,
          bestRate |-> 0, astray |-> FALSE]

(* A file holds the object's state when it was written, or less.           *)
None == [whole |-> FALSE, there |-> FALSE, of |-> Fresh]
Torn == [None EXCEPT !.there = TRUE]
Whole(object) == [whole |-> TRUE, there |-> TRUE, of |-> object]

Files(kinds) == {f \in kinds \X Iterations : disk[f[1]][f[2]].there}

Init ==
  /\ variant \in Variants
  /\ self = Fresh /\ iteration = 0 /\ phase = "collect" /\ writing = FALSE
  /\ disk = [k \in Kinds |-> [i \in Iterations |-> None]]
  /\ best = None
  /\ last = -1 /\ resumed = FALSE /\ lower = FALSE /\ behind = FALSE
  /\ stops = 0 /\ unswept = 0

history == <<last, resumed, lower, behind, stops, unswept>>
Phase(p) == phase' = p /\ writing' = FALSE

-----------------------------------------------------------------------------
(* Mutant of Collect: the buffer is full one entry late.                   *)
Bug_Collect ==
  /\ phase = "collect" /\ iteration < NumIterations
  /\ self' = [self EXCEPT !.buffer =
                Append(IF Len(@) > BufferMax THEN Tail(@) ELSE @, iteration)]
  /\ Phase("train")
  /\ UNCHANGED <<variant, iteration, disk, best, history>>

(* collect_self_play_data: the oldest entries of a full buffer go.         *)
Collect ==
  /\ phase = "collect" /\ iteration < NumIterations
  /\ LET b == Append(self.buffer, iteration)
     IN self' = [self EXCEPT !.buffer =
                   SubSeq(b, Len(b) - (IF Len(b) < BufferMax THEN Len(b)
                                       ELSE BufferMax) + 1, Len(b))]
  /\ Phase("train")
  /\ UNCHANGED <<variant, iteration, disk, best, history>>

(* train_neural_network on this iteration's games: the optimizer changes   *)
(* the network it was made for.                                            *)
Learn(object) ==
  IF object.linked
  THEN [object EXCEPT !.net = @ \cup {iteration}, !.opt = @ \cup {iteration}]
  ELSE object

Train ==
  /\ phase = "train"
  /\ self' = Learn(self)
  /\ Phase(IF iteration > 0 /\ (iteration + 1) % EvalEvery = 0
           THEN "evaluate" ELSE "model")
  /\ UNCHANGED <<variant, iteration, disk, best, history>>

(* Mutant of Improves: as good is good enough.                             *)
Bug_Improves(rate) == rate >= self.bestRate

Improves(rate) == rate > self.bestRate

(* evaluate_model: its workers play with a network of their own that has   *)
(* learned nothing, so the rate says nothing about this one.               *)
Evaluate(rate) ==
  /\ phase = "evaluate"
  /\ IF Improves(rate)
     THEN self' = [self EXCEPT !.bestRate = rate] /\ Phase("best")
     ELSE UNCHANGED self /\ Phase("model")
  /\ UNCHANGED <<variant, iteration, disk, best, history>>

(* A file is emptied when it is opened, and whole when it is closed.       *)
WriteBest ==
  \/ /\ phase = "best" /\ ~writing /\ writing' = TRUE
     /\ best' = Torn
     /\ UNCHANGED <<variant, self, iteration, phase, disk, history>>
  \/ /\ phase = "best" /\ writing /\ Phase("model")
     /\ best' = Whole(self)
     /\ UNCHANGED <<variant, self, iteration, disk, history>>

After(kind) ==
  CASE kind = "checkpoint" -> "next"
    [] kind = "summary" -> "clean"
    [] OTHER -> SaveOrder[CHOOSE n \in 2 .. Len(SaveOrder) : SaveOrder[n - 1] = kind]

(* save_model and save_checkpoint.                                         *)
Open(kind) ==
  /\ phase = kind /\ ~writing /\ writing' = TRUE
  /\ disk' = [disk EXCEPT ![kind][iteration] = Torn]
  /\ last' = IF kind = "checkpoint" /\ iteration = last THEN -1 ELSE last
  /\ UNCHANGED <<variant, self, iteration, phase, best, resumed, lower, behind,
                 stops, unswept>>

Close(kind) ==
  /\ phase = kind /\ writing /\ Phase(After(kind))
  /\ disk' = [disk EXCEPT ![kind][iteration] = Whole(self)]
  /\ last' = IF kind = "checkpoint" THEN iteration ELSE last
  /\ UNCHANGED <<variant, self, iteration, best, resumed, lower, behind, stops,
                 unswept>>

(* Mutants of Newest: the list is sorted the other way; only the files of  *)
(* the iteration being saved count as new; all from the iteration before   *)
(* on count as new, those of a training that had come further too.         *)
Bug_Oldest(files) ==
  {kept \in SUBSET files :
     /\ Cardinality(kept) = IF Cardinality(files) < KeepLatest
                            THEN Cardinality(files) ELSE KeepLatest
     /\ \A f \in kept, g \in files \ kept : f[2] <= g[2]}
Bug_ThisOnly(files) == {{f \in files : f[2] = iteration}}
Bug_ByNumber(files) == {{f \in files : f[2] > iteration - KeepLatest}}

(* _cleanup_old_files, one pattern: the KeepLatest files with the highest  *)
(* iterations, in any order those of one iteration.                        *)
Newest(files) ==
  {kept \in SUBSET files :
     /\ Cardinality(kept) = IF Cardinality(files) < KeepLatest
                            THEN Cardinality(files) ELSE KeepLatest
     /\ \A f \in kept, g \in files \ kept : f[2] >= g[2]}

(* _cleanup_old_files: the files it keeps.  model_iteration_*.pth matches  *)
(* the optimizers too.                                                     *)
Kept ==
  {pth \cup buffers \cup metadata \cup summaries \cup checkpoints :
     pth \in Newest(Files({"model", "optimizer"})),
     buffers \in Newest(Files({"buffer"})),
     metadata \in Newest(Files({"metadata"})),
     summaries \in Newest(Files({"summary"})),
     checkpoints \in Newest(Files({"checkpoint"}))}

Remain(files) ==
  disk' = [k \in Kinds |-> [i \in Iterations |->
             IF <<k, i>> \in files THEN disk[k][i] ELSE None]]

Cleanup ==
  /\ phase = "clean" /\ Phase("checkpoint")
  /\ \E kept \in Kept : Remain(kept)
  /\ unswept' = 0
  /\ UNCHANGED <<variant, self, iteration, best, last, resumed, lower, behind,
                 stops>>

(* Ctrl+C while one file is being removed: the exit that _signal_handler   *)
(* raises ends in the bare except around os.remove, the file stays and     *)
(* training goes on.  Omok catches no more than Exception.                 *)
CleanupGoesOn ==
  /\ phase = "clean" /\ Phase("checkpoint") /\ variant # "Omok"
  /\ stops < MaxStops /\ stops' = stops + 1
  /\ \E kept \in Kept : \E f \in Files(Kinds) \ kept : Remain(kept \cup {f})
  /\ unswept' = 1
  /\ UNCHANGED <<variant, self, iteration, best, last, resumed, lower, behind>>

NextIteration ==
  /\ phase = "next" /\ Phase("collect")
  /\ iteration' = iteration + 1
  /\ UNCHANGED <<variant, self, disk, best, history>>

-----------------------------------------------------------------------------
(* Ctrl+C (_signal_handler exits where the program stands) or a crash.     *)
Die ==
  /\ stops < MaxStops /\ stops' = stops + 1 /\ unswept' = unswept + 1
  /\ phase # "off" /\ Phase("off")
  /\ self' = Fresh /\ iteration' = 0
  /\ UNCHANGED <<variant, best, last, resumed, lower, behind>>

Stop == Die /\ UNCHANGED disk

(* Files go pattern by pattern, the oldest of a pattern first.             *)
Sooner(f, g) ==
  LET turn(kind) == IF kind = "optimizer" THEN "model" ELSE kind
      order == <<"model", "buffer", "metadata", "summary", "checkpoint">>
      place(kind) == CHOOSE n \in DOMAIN order : order[n] = turn(kind)
  IN \/ place(f[1]) < place(g[1])
     \/ turn(f[1]) = turn(g[1]) /\ f[2] < g[2]

(* The same when some of the old files are gone: up to one of them, before *)
(* or after another file of its iteration.                                 *)
StopCleaning ==
  /\ Die /\ phase = "clean"
  /\ \E kept \in Kept :
       LET old == Files(Kinds) \ kept
       IN \E f \in old :
            \/ Remain({g \in Files(Kinds) : g \in old => g # f /\ ~Sooner(g, f)})
            \/ Remain({g \in Files(Kinds) : g \in old => Sooner(f, g)})

(* train.py starts again with an object and an iteration.                  *)
Start(object, i) ==
  /\ phase = "off" /\ Phase("collect")
  /\ self' = object /\ iteration' = i
  /\ lower' = (lower \/ \E f \in Files(Kinds) : f[2] > i)
  /\ behind' = (object.bestRate < best.of.bestRate)
  /\ UNCHANGED <<variant, disk, best, stops, unswept>>

FromScratch == Start(Fresh, 0) /\ resumed' = FALSE /\ last' = -1

(* Mutant of Restored: the network is not restored.                        *)
Bug_Restored(saved) ==
  IF variant = "Omok"
  THEN [Fresh EXCEPT !.bestRate = saved.bestRate, !.astray = TRUE]
  ELSE [saved EXCEPT !.net = {}, !.linked = TRUE]

(* load_checkpoint.  Omok's checkpoint holds no network and no buffer; an  *)
(* empty buffer is not restored.  Omok's train.py offers no such option:   *)
(* there it is what a program that uses the class can do.                  *)
CanLoadCheckpoint(i) == disk["checkpoint"][i].whole

Restored(saved) ==
  IF variant = "Omok"
  THEN [Fresh EXCEPT !.bestRate = saved.bestRate, !.astray = TRUE]
  ELSE [saved EXCEPT !.linked = TRUE]

LoadCheckpoint(i) ==
  /\ CanLoadCheckpoint(i) /\ resumed' = TRUE
  /\ Start(Restored(disk["checkpoint"][i].of), i + 1)
  /\ last' = IF i = last THEN last ELSE -1

(* load_model.  Missing files other than the model's are only reported;    *)
(* one that is torn raises.  The optimizer keeps the parameters of the     *)
(* network the object was made with.                                       *)
CanLoadModel(i) ==
  /\ disk["model"][i].there
  /\ disk["model"][i].whole \/ variant = "Othello"
  /\ \A k \in {"optimizer", "buffer", "metadata"} :
       disk[k][i].there => disk[k][i].whole

Loaded(i) ==
  LET part(k) == disk[k][i].of
  IN [Fresh EXCEPT !.opt = part("optimizer").opt,
                   !.buffer = part("buffer").buffer,
                   !.bestRate = part("metadata").bestRate,
                   !.astray = TRUE]

(* Chess and Omok replace the network.                                     *)
LoadModel(i, resume) ==
  /\ CanLoadModel(i) /\ variant # "Othello"
  /\ resumed' = FALSE /\ last' = -1
  /\ Start([Loaded(i) EXCEPT !.net = disk["model"][i].of.net, !.linked = FALSE],
           IF resume THEN i + 1 ELSE i)

(* Othello's lines that read the network stand behind a raise.             *)
LoadModelOthello(i, resume) ==
  /\ CanLoadModel(i) /\ variant = "Othello"
  /\ resumed' = FALSE /\ last' = -1
  /\ Start(Loaded(i), IF resume THEN i + 1 ELSE i)

Next ==
  \/ Collect \/ Train \/ \E rate \in Rates : Evaluate(rate)
  \/ WriteBest
  \/ \E kind \in Kinds : Open(kind) \/ Close(kind)
  \/ Cleanup \/ CleanupGoesOn \/ NextIteration
  \/ Stop \/ StopCleaning \/ FromScratch
  \/ \E i \in Iterations :
       \/ LoadCheckpoint(i)
       \/ \E resume \in BOOLEAN : LoadModel(i, resume) \/ LoadModelOthello(i, resume)

Spec == Init /\ [][Next]_vars

-----------------------------------------------------------------------------
Objects ==
  [net : SUBSET Iterations, opt : SUBSET Iterations, linked : BOOLEAN,
   buffer : Seq(Iterations), bestRate : Rates \cup {0}, astray : BOOLEAN]
Contents == [whole : BOOLEAN, there : BOOLEAN, of : Objects]

(* Types, and the length of the buffer.                                    *)
TypeOK ==
  /\ variant \in Variants
  /\ self \in Objects /\ Len(self.buffer) <= BufferMax
  /\ iteration \in 0 .. NumIterations
  /\ phase \in {"collect", "train", "evaluate", "best", "clean", "next", "off"}
               \cup Kinds
  /\ writing \in BOOLEAN
  /\ disk \in [Kinds -> [Iterations -> Contents]] /\ best \in Contents
  /\ last \in Iterations \cup {-1} /\ resumed \in BOOLEAN
  /\ lower \in BOOLEAN /\ behind \in BOOLEAN
  /\ stops \in Nat /\ unswept \in 0 .. stops

(* A training that went on from a checkpoint can go on from a checkpoint   *)
(* again, whenever it is interrupted (Ctrl+C is announced as safe,         *)
(* Chess/train.py:215) although files are overwritten in place and old     *)
(* ones removed before the new checkpoint is written; unless there were    *)
(* files of later iterations, which count as newer even if they are torn.  *)
Resumable == resumed /\ ~lower => \E i \in Iterations : CanLoadCheckpoint(i)

(* The checkpoint a training completed last stays while that training goes *)
(* on or is resumed from it, until the next is complete, unless a process  *)
(* started below the newest files: cleaning goes by the number of the      *)
(* iteration, and then removes what has just been saved.                   *)
LastKept ==
  last # -1 /\ ~lower => disk["checkpoint"][last].whole

(* A saved network has learned from every iteration up to its own, whatever*)
(* was interrupted and resumed, unless load_model or Omok's checkpoint was *)
(* resumed from: then the network no longer changes, or starts anew.       *)
NothingForgotten ==
  \A k \in {"model", "checkpoint"}, i \in Iterations :
    disk[k][i].whole /\ ~disk[k][i].of.astray => disk[k][i].of.net = 0 .. i

(* A whole best_model.pth is overwritten only for a network with a better  *)
(* rate than the one in it, across interruptions, unless the process does  *)
(* not know the rate on the disk: it went on from an older file, or was    *)
(* interrupted between best_model.pth and the metadata with its rate.      *)
BestNeverWorse ==
  [][best.whole /\ best' # best /\ ~behind =>
       self.bestRate > best.of.bestRate]_vars

(* However often training is interrupted and started anew, files do not    *)
(* pile up: each interruption leaves at most one more of a kind, and the   *)
(* next cleaning that is not interrupted takes all of these away.          *)
DiskBounded ==
  \A k \in Kinds : Cardinality(Files({k})) <= KeepLatest + 1 + unswept
=============================================================================
