------------------------------ MODULE TicTacToe ------------------------------
(***************************************************************************)
(* TicTacToe on the game server (Game/BoardGame/TicTacToe.py: seats 0 and  *)
(* 1) and in the training code (model/TicTacToe/game_state.py: players 1   *)
(* and -1).  A winner is a set with at most one member.                    *)
(***************************************************************************)
EXTENDS Grid

Initial == [board |-> Blank(3), player |-> 0]

ValidMoves(p) == {s \in Squares(3) : At(p.board, s) = 0}

(* make_move has its own tests.                                            *)
Accepts(p, m) == m \in Squares(3) /\ At(p.board, m) = 0

MakeMove(p, m) ==
  [p EXCEPT !.board = Put(@, m, IF p.player = 0 THEN 1 ELSE -1)]

WinningLines ==
  {{<<i, j>> : j \in 0 .. 2} : i \in 0 .. 2}
    \cup {{<<i, j>> : i \in 0 .. 2} : j \in 0 .. 2}
    \cup {{<<i, i>> : i \in 0 .. 2}, {<<i, 2 - i>> : i \in 0 .. 2}}

CheckWinner(b) ==
  {IF At(b, CHOOSE s \in l : TRUE) = 1 THEN 0 ELSE 1 :
     l \in {k \in WinningLines : \E v \in {1, -1} : \A s \in k : At(b, s) = v}}

(* Mutant: no draw.                                                        *)
Bug_NoDraw(p) == CheckWinner(p.board) # {}

IsGameOver(p) == CheckWinner(p.board) # {} \/ Full(p.board)
GetWinner(p) == IF IsGameOver(p) THEN CheckWinner(p.board) ELSE {}

-----------------------------------------------------------------------------
TrainInitial == [board |-> Blank(3), player |-> 1]

TrainValidMoves(t) == {s \in Squares(3) : At(t.board, s) = 0}

TrainMakeMove(t, m) ==
  [board |-> Put(t.board, m, t.player), player |-> -t.player]

(* The sums of the rows, the columns and the diagonals: 1 or -1 for the    *)
(* winner, 0 for a draw, nothing while the game goes on.                   *)
TrainGetWinner(t) ==
  LET b == t.board
      sums == {b[i][0] + b[i][1] + b[i][2] : i \in 0 .. 2}
                \cup {b[0][j] + b[1][j] + b[2][j] : j \in 0 .. 2}
                \cup {b[0][0] + b[1][1] + b[2][2], b[0][2] + b[1][1] + b[2][0]}
      won == {Sign(x) : x \in {y \in sums : Size(y) = 3}}
  IN IF won # {} THEN won ELSE IF Full(b) THEN {0} ELSE {}

TrainIsGameOver(t) == TrainGetWinner(t) # {} \/ Full(t.board)
=============================================================================
