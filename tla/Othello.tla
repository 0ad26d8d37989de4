------------------------------- MODULE Othello -------------------------------
(***************************************************************************)
(* Othello on the game server (Game/BoardGame/Othello.py) and in the       *)
(* training code (model/Othello/game_state.py).                            *)
(***************************************************************************)
EXTENDS Grid, FiniteSets

Pass == <<>>

Centre == [r \in 0 .. 7 |-> [c \in 0 .. 7 |->
             CASE <<r, c>> \in {<<3, 3>>, <<4, 4>>} -> -1
               [] <<r, c>> \in {<<3, 4>>, <<4, 3>>} -> 1
               [] OTHER -> 0]]

Initial == [board |-> Centre, player |-> 0, passes |-> 0]

Stone(player) == IF player = 0 THEN 1 ELSE -1

(* Own stone at the end of a row of at least one of the opponent's.        *)
CanFlipInDirection(b, s, d, stone) ==
  \E k \in 2 .. 7 :
    /\ On(b, Go(s, d, k)) /\ At(b, Go(s, d, k)) = stone
    /\ \A j \in 1 .. k - 1 : At(b, Go(s, d, j)) = -stone

IsValidMove(b, s, stone) ==
  At(b, s) = 0 /\ \E d \in Around : CanFlipInDirection(b, s, d, stone)

(* Mutant: the moves of the other player.                                  *)
Bug_OtherPlayersMoves(p) ==
  {s \in Squares(8) : At(p.board, s) = 0
                        /\ IsValidMove(p.board, s, -Stone(p.player))}

ValidMoves(p) ==
  {s \in Squares(8) : At(p.board, s) = 0
                        /\ IsValidMove(p.board, s, Stone(p.player))}

HasValidMoves(b, player) ==
  \E s \in Squares(8) : At(b, s) = 0 /\ IsValidMove(b, s, Stone(player))

(* Mutant: only the neighbour is turned.                                   *)
Bug_FlipsNeighbour(b, s, stone) ==
  {Go(s, d, 1) : d \in {x \in Around : CanFlipInDirection(b, s, x, stone)}}

(* _flip_stones: the opponent's stones before the first own stone.         *)
Flipped(b, s, stone) ==
  UNION {{Go(s, y[1], j) : j \in 1 .. y[2] - 1} :
           y \in {x \in Around \X (2 .. 7) :
              /\ On(b, Go(s, x[1], x[2])) /\ At(b, Go(s, x[1], x[2])) = stone
              /\ \A j \in 1 .. x[2] - 1 : At(b, Go(s, x[1], j)) = -stone}}

Cover(b, cells, v) ==
  [r \in 0 .. 7 |-> [c \in 0 .. 7 |-> IF <<r, c>> \in cells THEN v ELSE b[r][c]]]

(* "pass" is always accepted; a stone that flips nothing is taken back.    *)
Accepts(p, m) ==
  \/ m = Pass
  \/ /\ m \in Squares(8)
     /\ IsValidMove(p.board, m, Stone(p.player))
     /\ Flipped(p.board, m, Stone(p.player)) # {}

MakeMove(p, m) ==
  IF m = Pass THEN [p EXCEPT !.passes = @ + 1]
  ELSE [p EXCEPT !.board = Cover(@, {m} \cup Flipped(@, m, Stone(p.player)),
                                 Stone(p.player)),
                 !.passes = 0]

(* Mutant: a blocked opponent ends the game.                               *)
Bug_OpponentBlocked(p) ==
  Full(p.board) \/ ~ HasValidMoves(p.board, 1 - p.player)

IsGameOver(p) ==
  \/ p.passes >= 2
  \/ Full(p.board)
  \/ ~ HasValidMoves(p.board, 0) /\ ~ HasValidMoves(p.board, 1)

Count(b, v) == Cardinality({s \in Squares(8) : At(b, s) = v})

(* Mutant: a draw counts for both.                                         *)
Bug_DrawIsWin(p) ==
  IF ~ IsGameOver(p) THEN {}
  ELSE {w \in {0, 1} : Count(p.board, Stone(w)) >= Count(p.board, -Stone(w))}

GetWinner(p) ==
  IF ~ IsGameOver(p) THEN {}
  ELSE {w \in {0, 1} : Count(p.board, Stone(w)) > Count(p.board, -Stone(w))}

-----------------------------------------------------------------------------
TrainInitial == [board |-> Centre, player |-> 1]

(* The number of the opponent's stones in a row from s on.                 *)
TrainRun(t, s, d) ==
  CHOOSE n \in 0 .. 7 :
    /\ \A j \in 1 .. n : On(t.board, Go(s, d, j))
                          /\ At(t.board, Go(s, d, j)) = -t.player
    /\ ~ (On(t.board, Go(s, d, n + 1))
          /\ At(t.board, Go(s, d, n + 1)) = -t.player)

TrainEndsOwn(t, s, d) ==
  LET e == Go(s, d, TrainRun(t, s, d) + 1)
  IN On(t.board, e) /\ At(t.board, e) = t.player

TrainCanFlip(t, s, d) == TrainRun(t, s, d) >= 1 /\ TrainEndsOwn(t, s, d)

TrainValidMoves(t) ==
  {s \in Squares(8) :
     At(t.board, s) = 0 /\ \E d \in Around : TrainCanFlip(t, s, d)}

TrainMakeMove(t, m) ==
  LET flipped == UNION {{Go(m, d, j) : j \in 1 .. TrainRun(t, m, d)} :
                          d \in {x \in Around : TrainEndsOwn(t, m, x)}}
  IN [board |-> Cover(t.board, {m} \cup flipped, t.player),
      player |-> -t.player]

(* Self-play and evaluation have no pass move: a player without a move is  *)
(* replaced by a state of the same board with the other player to move.    *)
TrainPass(t) == [t EXCEPT !.player = -@]

TrainIsGameOver(t) ==
  \/ Full(t.board)
  \/ TrainValidMoves(t) = {} /\ TrainValidMoves(TrainPass(t)) = {}

TrainGetWinner(t) ==
  IF TrainIsGameOver(t)
  THEN {Sign(Count(t.board, 1) - Count(t.board, -1))}
  ELSE {}
=============================================================================
