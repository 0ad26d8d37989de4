-------------------------------- MODULE Omok --------------------------------
(***************************************************************************)
(* Omok (five in a row) on the game server (Game/BoardGame/Omok.py) and in *)
(* the training code (model/Omok/game_state.py).  The server remembers the *)
(* winner when the stone is placed; the training code searches the board.  *)
(***************************************************************************)
EXTENDS Grid

CONSTANT BoardSize  \* 15 in production, at least 5

Initial == [board |-> Blank(BoardSize), player |-> 0, winner |-> {}]

ValidMoves(p) == {s \in Squares(BoardSize) : At(p.board, s) = 0}

Accepts(p, m) == m \in Squares(BoardSize) /\ At(p.board, m) = 0

(* _count_in_direction: the stones of one value next to s.                 *)
CountInDirection(b, s, d, v) ==
  LET same == {k \in 1 .. BoardSize :
                 \A j \in 1 .. k : On(b, Go(s, d, j)) /\ At(b, Go(s, d, j)) = v}
  IN IF same = {} THEN 0 ELSE CHOOSE k \in same : \A j \in same : j <= k

(* Mutant: exactly five.                                                   *)
Bug_ExactlyFive(b, s, v) ==
  \E d \in Lines :
    1 + CountInDirection(b, s, d, v)
      + CountInDirection(b, s, <<-d[1], -d[2]>>, v) = 5

CheckFiveInARow(b, s, v) ==
  \E d \in Lines :
    1 + CountInDirection(b, s, d, v)
      + CountInDirection(b, s, <<-d[1], -d[2]>>, v) >= 5

MakeMove(p, m) ==
  LET v == IF p.player = 0 THEN 1 ELSE -1
      b == Put(p.board, m, v)
  IN [p EXCEPT !.board = b,
               !.winner = IF CheckFiveInARow(b, m, v) THEN {p.player} ELSE @]

IsGameOver(p) == p.winner # {} \/ Full(p.board)
GetWinner(p) == p.winner

-----------------------------------------------------------------------------
TrainInitial == [board |-> Blank(BoardSize), player |-> 1]

TrainValidMoves(t) == {s \in Squares(BoardSize) : At(t.board, s) = 0}

TrainMakeMove(t, m) ==
  [board |-> Put(t.board, m, t.player), player |-> -t.player]

(* A run of five is counted from its first stone only.                     *)
TrainGetWinner(t) ==
  LET b == t.board
      StartsFive(s, d) ==
        /\ At(b, s) # 0
        /\ ~ (On(b, Go(s, d, -1)) /\ At(b, Go(s, d, -1)) = At(b, s))
        /\ \A k \in 1 .. 4 : On(b, Go(s, d, k)) /\ At(b, Go(s, d, k)) = At(b, s)
      won == {At(b, s) : s \in {q \in Squares(BoardSize) :
                                  \E d \in Lines : StartsFive(q, d)}}
  IN IF won # {} THEN won ELSE IF Full(b) THEN {0} ELSE {}

TrainIsGameOver(t) == TrainGetWinner(t) # {} \/ Full(t.board)
=============================================================================
