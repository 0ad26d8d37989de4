------------------------------- MODULE Match -------------------------------
(***************************************************************************)
(* What the game server promises for one requested game: the seats move in *)
(* turn, each move chosen by the model that sits there, until the board is *)
(* decided or the game is given up; then the game is closed for good.      *)
(***************************************************************************)
EXTENDS Naturals, Sequences

CONSTANTS Games

VARIABLES
  models,  \* game -> seat -> model, fixed
  status,  \* game -> "queued", "playing", "decided" or "closed"
  moves    \* game -> the models that chose the moves so far

vars == <<models, status, moves>>

Init ==
  /\ status = [g \in Games |-> "queued"]
  /\ moves = [g \in Games |-> <<>>]

Begin(g) ==
  /\ status[g] = "queued"
  /\ status' = [status EXCEPT ![g] = "playing"]
  /\ UNCHANGED <<models, moves>>

Move(g) ==
  /\ status[g] = "playing"
  /\ moves' = [moves EXCEPT
       ![g] = Append(@, models[g][Len(moves[g]) % 2])]
  /\ \E s \in {"playing", "decided"} : status' = [status EXCEPT ![g] = s]
  /\ UNCHANGED models

Close(g) ==
  /\ status[g] \in {"playing", "decided"}
  /\ status' = [status EXCEPT ![g] = "closed"]
  /\ UNCHANGED <<models, moves>>

Next == \E g \in Games : Begin(g) \/ Move(g) \/ Close(g)

Spec == Init /\ [][Next]_vars
=============================================================================
