-------------------------- MODULE BoardGamesProofs --------------------------
(***************************************************************************)
(* Theorems about BoardGames, for every opening, every number              *)
(* of plies and every size of the Omok board.  What the two implementations*)
(* of a game remember beside their boards is what the boards show: lines   *)
(* in tic-tac-toe, fives in Omok, blocked colours in Othello; in chess the *)
(* two boards, rights and squares in passing correspond.                   *)
(***************************************************************************)
EXTENDS BoardGames, FiniteSetTheorems, TLAPS

(* BoardGames's operators for one game are that game's own.                *)
LEMMA TicTacToeOps ==
  ASSUME NEW p, NEW m
  PROVE  /\ Initial("TicTacToe") = Ttt!Initial
         /\ ValidMoves("TicTacToe", p) = Ttt!ValidMoves(p)
         /\ Accepts("TicTacToe", p, m) <=> Ttt!Accepts(p, m)
         /\ MakeMove("TicTacToe", p, m) = Ttt!MakeMove(p, m)
         /\ IsGameOver("TicTacToe", p) <=> Ttt!IsGameOver(p)
         /\ GetWinner("TicTacToe", p) = Ttt!GetWinner(p)
         /\ Select("TicTacToe", p) = SelectBase("TicTacToe", p)
BY DEF Initial, ValidMoves, Accepts, MakeMove, IsGameOver, GetWinner, Select

(* The same for Omok, whose selection has a version of its own.            *)
LEMMA OmokOps ==
  ASSUME NEW p, NEW m
  PROVE  /\ Initial("Omok") = Omk!Initial
         /\ ValidMoves("Omok", p) = Omk!ValidMoves(p)
         /\ Accepts("Omok", p, m) <=> Omk!Accepts(p, m)
         /\ MakeMove("Omok", p, m) = Omk!MakeMove(p, m)
         /\ IsGameOver("Omok", p) <=> Omk!IsGameOver(p)
         /\ GetWinner("Omok", p) = Omk!GetWinner(p)
         /\ Select("Omok", p) = SelectOmok(p)
BY DEF Initial, ValidMoves, Accepts, MakeMove, IsGameOver, GetWinner, Select

(* The same for Othello.                                                   *)
LEMMA OthelloOps ==
  ASSUME NEW p, NEW m
  PROVE  /\ Initial("Othello") = Oth!Initial
         /\ ValidMoves("Othello", p) = Oth!ValidMoves(p)
         /\ Accepts("Othello", p, m) <=> Oth!Accepts(p, m)
         /\ MakeMove("Othello", p, m) = Oth!MakeMove(p, m)
         /\ IsGameOver("Othello", p) <=> Oth!IsGameOver(p)
         /\ GetWinner("Othello", p) = Oth!GetWinner(p)
         /\ Select("Othello", p) = SelectOthello(p)
BY DEF Initial, ValidMoves, Accepts, MakeMove, IsGameOver, GetWinner, Select

(* The same for chess.                                                     *)
LEMMA ChessOps ==
  ASSUME NEW p, NEW m
  PROVE  /\ Initial("Chess") = Chs!Initial
         /\ ValidMoves("Chess", p) = Chs!ValidMoves(p)
         /\ Accepts("Chess", p, m) <=> Chs!Accepts(p, m)
         /\ MakeMove("Chess", p, m) = Chs!MakeMove(p, m)
         /\ IsGameOver("Chess", p) <=> Chs!IsGameOver(p)
         /\ GetWinner("Chess", p) = Chs!GetWinner(p)
         /\ Select("Chess", p) = SelectBase("Chess", p)
BY DEF Initial, ValidMoves, Accepts, MakeMove, IsGameOver, GetWinner, Select

(* Every game's module has the grid's operators under a name of its own.   *)
LEMMA TttGrid ==
  /\ \A n : Ttt!Squares(n) = Squares(n) /\ Ttt!Blank(n) = Blank(n)
  /\ \A b, s : Ttt!At(b, s) = At(b, s)
  /\ \A b, s, v : Ttt!Put(b, s, v) = Put(b, s, v)
  /\ \A b : Ttt!Full(b) <=> Full(b)
BY DEF Ttt!Squares, Squares, Ttt!Blank, Blank, Ttt!At, At, Ttt!Put, Put,
       Ttt!Full, Full

(* Omok's grid is the grid.                                                *)
LEMMA OmkGrid ==
  /\ \A n : Omk!Squares(n) = Squares(n) /\ Omk!Blank(n) = Blank(n)
  /\ \A b, s : Omk!At(b, s) = At(b, s)
  /\ \A b, s, v : Omk!Put(b, s, v) = Put(b, s, v)
  /\ \A b : Omk!Full(b) <=> Full(b)
BY DEF Omk!Squares, Squares, Omk!Blank, Blank, Omk!At, At, Omk!Put, Put,
       Omk!Full, Full

(* Othello's grid is the grid.                                             *)
LEMMA OthGrid ==
  /\ \A n : Oth!Squares(n) = Squares(n) /\ Oth!Blank(n) = Blank(n)
  /\ \A b, s : Oth!At(b, s) = At(b, s)
  /\ \A b, s, v : Oth!Put(b, s, v) = Put(b, s, v)
  /\ \A b : Oth!Full(b) <=> Full(b)
BY DEF Oth!Squares, Squares, Oth!Blank, Blank, Oth!At, At, Oth!Put, Put,
       Oth!Full, Full

(* The chess server's grid is the grid.                                    *)
LEMMA ChsGrid ==
  /\ \A n : Chs!Squares(n) = Squares(n) /\ Chs!Blank(n) = Blank(n)
  /\ \A b, s : Chs!At(b, s) = At(b, s)
  /\ \A b, s, v : Chs!Put(b, s, v) = Put(b, s, v)
  /\ \A b : Chs!Full(b) <=> Full(b)
BY DEF Chs!Squares, Squares, Chs!Blank, Blank, Chs!At, At, Chs!Put, Put,
       Chs!Full, Full

Boards(n, values) == [0 .. n - 1 -> [0 .. n - 1 -> values]]
Stones == {-1, 0, 1}

(* Put changes one cell and keeps the board's type.                        *)
LEMMA PutIs ==
  ASSUME NEW n \in Nat, NEW values, NEW b \in Boards(n, values),
         NEW s \in Squares(n), NEW v \in values
  PROVE  /\ Put(b, s, v) \in Boards(n, values)
         /\ At(Put(b, s, v), s) = v
         /\ \A t \in Squares(n) : t # s => At(Put(b, s, v), t) = At(b, t)
<1>1. s[1] \in 0 .. n - 1 /\ s[2] \in 0 .. n - 1
  BY DEF Squares
<1>2. ASSUME NEW t \in Squares(n), t # s
      PROVE  At(Put(b, s, v), t) = At(b, t)
  <2>1. t[1] \in 0 .. n - 1 /\ t[2] \in 0 .. n - 1 /\ (t[1] # s[1] \/ t[2] # s[2])
    BY <1>2 DEF Squares
  <2> QED
    BY <1>1, <2>1 DEF Boards, Put, At
<1> QED
  BY <1>1, <1>2 DEF Boards, Put, At

(* A board is full when no square is empty.                                *)
LEMMA FullMeans ==
  ASSUME NEW n \in Nat, NEW values, NEW b \in Boards(n, values)
  PROVE  Full(b) <=> \A s \in Squares(n) : At(b, s) # 0
<1>1. DOMAIN b = 0 .. n - 1 /\ \A r \in 0 .. n - 1 : DOMAIN b[r] = 0 .. n - 1
  BY DEF Boards
<1>2. ASSUME NEW s \in Squares(n), Full(b) PROVE At(b, s) # 0
  BY <1>1, <1>2 DEF Full, Squares, At
<1>3. ASSUME \A s \in Squares(n) : At(b, s) # 0,
             NEW r \in 0 .. n - 1, NEW c \in 0 .. n - 1
      PROVE  b[r][c] # 0
  <2>1. <<r, c>> \in Squares(n)
    BY DEF Squares
  <2> QED
    BY <1>3, <2>1 DEF At
<1> QED
  BY <1>1, <1>2, <1>3 DEF Full

(* Othello's directions and steps are the grid's.                          *)
LEMMA OthDirections ==
  /\ Oth!Around = Around
  /\ \A b, s : Oth!On(b, s) <=> On(b, s)
  /\ \A b, s : Oth!At(b, s) = At(b, s)
  /\ \A s, d, k : Oth!Go(s, d, k) = Go(s, d, k)
BY DEF Oth!Around, Around, Oth!On, On, Oth!Go, Go, Oth!At, At

(* A stone that may be placed turns at least one other.                    *)
LEMMA FlipsSome ==
  ASSUME NEW b, NEW s, NEW v, Oth!IsValidMove(b, s, v)
  PROVE  Oth!Flipped(b, s, v) # {}
<1>1. PICK d \in Around, k \in 2 .. 7 :
        /\ On(b, Go(s, d, k)) /\ At(b, Go(s, d, k)) = v
        /\ \A j \in 1 .. k - 1 : At(b, Go(s, d, j)) = -v
  BY OthDirections DEF Oth!IsValidMove, Oth!CanFlipInDirection
<1> DEFINE X == {x \in Around \X (2 .. 7) :
              /\ On(b, Go(s, x[1], x[2])) /\ At(b, Go(s, x[1], x[2])) = v
              /\ \A j \in 1 .. x[2] - 1 : At(b, Go(s, x[1], j)) = -v}
<1>2. <<d, k>> \in X
  BY <1>1
<1>3. 1 \in 1 .. <<d, k>>[2] - 1
  OBVIOUS
<1>4. Go(s, d, 1) \in {Go(s, <<d, k>>[1], j) : j \in 1 .. <<d, k>>[2] - 1}
  <2>1. <<d, k>>[1] = d
    OBVIOUS
  <2> QED
    BY <1>3, <2>1
<1>5. Oth!Flipped(b, s, v) = UNION {{Go(s, y[1], j) : j \in 1 .. y[2] - 1} : y \in X}
  BY OthDirections DEF Oth!Flipped
<1> HIDE DEF X
<1>6. Go(s, d, 1) \in UNION {{Go(s, y[1], j) : j \in 1 .. y[2] - 1} : y \in X}
  BY <1>2, <1>4
<1> QED
  BY <1>5, <1>6

(* What is selected is accepted.                                           *)
LEMMA SelectedIsAccepted ==
  ASSUME game \in Games, NEW m \in Select(game, server)
  PROVE  Accepts(game, server, m)
<1>1. CASE game = "TicTacToe"
  BY <1>1, TicTacToeOps DEF SelectBase, Ttt!ValidMoves, Ttt!Accepts
<1>2. CASE game = "Omok"
  BY <1>2, OmokOps, OmkGrid DEF SelectOmok, Omk!Accepts
<1>3. CASE game = "Chess"
  BY <1>3, ChessOps DEF SelectBase, Chs!Accepts
<1>4. CASE game = "Othello"
  <2>1. m \in SelectOthello(server)
    BY <1>4, OthelloOps
  <2>2. Oth!Accepts(server, m)
    BY <2>1, FlipsSome DEF SelectOthello, Oth!ValidMoves, Oth!Accepts
  <2> QED
    BY <1>4, <2>2, OthelloOps
<1> QED
  BY <1>1, <1>2, <1>3, <1>4 DEF Games

(* A turn: the game server makes a selected move, and passes the turn if   *)
(* the game goes on; the training code follows if it can.                  *)
Makes(made) ==
  /\ IsGameOver(game, made) =>
       server' = made /\ over' /\ winner' = GetWinner(game, made)
  /\ ~ IsGameOver(game, made) =>
       server' = NextTurn(made) /\ ~ over' /\ winner' = {}

Follows(m) ==
  /\ together' => /\ together /\ TrainFollows(game, train, m)
                  /\ train' = TrainMakeMove(game, train, m)
  /\ ~ together' => train' = train

(* What a turn does, without make_move's refusals, which never happen.     *)
LEMMA TurnIs ==
  ASSUME game \in Games, Turn
  PROVE  /\ ~ over /\ game' = game
         /\ \E m \in Select(game, server) :
              Makes(MakeMove(game, server, m)) /\ Follows(m)
<1>1. PICK m \in Select(game, server) : Play(m) /\ Follow(m)
  BY DEF Turn
<1>2. Accepts(game, server, m)
  BY SelectedIsAccepted
<1>3. Makes(MakeMove(game, server, m))
  BY <1>1, <1>2 DEF Play, Makes
<1>4. Follows(m)
  BY <1>1 DEF Follow, Follows
<1> QED
  BY <1>3, <1>4 DEF Turn

(* The training code's operators for one game are that game's own.         *)
LEMMA TicTacToeTraining ==
  ASSUME NEW t, NEW m
  PROVE  /\ TrainInitial("TicTacToe") = Ttt!TrainInitial
         /\ TrainValidMoves("TicTacToe", t) = Ttt!TrainValidMoves(t)
         /\ TrainIsGameOver("TicTacToe", t) <=> Ttt!TrainIsGameOver(t)
         /\ TrainGetWinner("TicTacToe", t) = Ttt!TrainGetWinner(t)
         /\ TrainFollows("TicTacToe", t, m) <=> m \in Ttt!TrainValidMoves(t)
         /\ TrainMakeMove("TicTacToe", t, m) = Ttt!TrainMakeMove(t, m)
BY DEF TrainInitial, TrainValidMoves, TrainIsGameOver, TrainGetWinner,
       TrainFollows, TrainMakeMove

(* The same for Omok.                                                      *)
LEMMA OmokTraining ==
  ASSUME NEW t, NEW m
  PROVE  /\ TrainInitial("Omok") = Omk!TrainInitial
         /\ TrainValidMoves("Omok", t) = Omk!TrainValidMoves(t)
         /\ TrainIsGameOver("Omok", t) <=> Omk!TrainIsGameOver(t)
         /\ TrainGetWinner("Omok", t) = Omk!TrainGetWinner(t)
         /\ TrainFollows("Omok", t, m) <=> m \in Omk!TrainValidMoves(t)
         /\ TrainMakeMove("Omok", t, m) = Omk!TrainMakeMove(t, m)
BY DEF TrainInitial, TrainValidMoves, TrainIsGameOver, TrainGetWinner,
       TrainFollows, TrainMakeMove

(* The same for Othello, where a pass is a move apart.                     *)
LEMMA OthelloTraining ==
  ASSUME NEW t, NEW m
  PROVE  /\ TrainInitial("Othello") = Oth!TrainInitial
         /\ TrainValidMoves("Othello", t) = Oth!TrainValidMoves(t)
         /\ TrainIsGameOver("Othello", t) <=> Oth!TrainIsGameOver(t)
         /\ TrainGetWinner("Othello", t) = Oth!TrainGetWinner(t)
         /\ TrainFollows("Othello", t, m) <=>
              IF m = Oth!Pass THEN Oth!TrainValidMoves(t) = {}
              ELSE m \in Oth!TrainValidMoves(t)
         /\ TrainMakeMove("Othello", t, m) =
              IF m = Oth!Pass THEN Oth!TrainPass(t) ELSE Oth!TrainMakeMove(t, m)
BY DEF TrainInitial, TrainValidMoves, TrainIsGameOver, TrainGetWinner,
       TrainFollows, TrainMakeMove

(* The same for chess, where the move changes its coordinates.             *)
LEMMA ChessTrainingOps ==
  ASSUME NEW t, NEW m
  PROVE  /\ TrainInitial("Chess") = Trn!TrainInitial
         /\ TrainValidMoves("Chess", t) = Trn!TrainValidMoves(t)
         /\ TrainFollows("Chess", t, m) <=>
              /\ m[3] \in {0, Chs!Queen}
              /\ InTraining("Chess", m) \in Trn!TrainValidMoves(t)
         /\ TrainMakeMove("Chess", t, m) = Trn!TrainMakeMove(t, InTraining("Chess", m))
BY DEF TrainInitial, TrainValidMoves, TrainFollows, TrainMakeMove

(* Board and player of the training code are the server's.                 *)
StonesInStep ==
  together =>
    /\ train.board = server.board
    /\ train.player = IF over THEN -Seat(server.player) ELSE Seat(server.player)

(* A turn that both sides make keeps them in step.                         *)
LEMMA StepInStep ==
  ASSUME StonesInStep, ~ over, server.player \in {0, 1},
         over' => server'.player = server.player,
         ~ over' => server'.player = (server.player + 1) % 2,
         together' => /\ together /\ train'.board = server'.board
                      /\ train'.player = -train.player
  PROVE  StonesInStep'
<1>1. Seat((server.player + 1) % 2) = -Seat(server.player)
  BY DEF Seat
<1> QED
  BY <1>1 DEF StonesInStep

(* The winning lines have squares, all on the board.                       *)
LEMMA LinesAre ==
  ASSUME NEW l \in Ttt!WinningLines
  PROVE  l # {} /\ l \subseteq Squares(3)
<1>1. ASSUME NEW i \in 0 .. 2
      PROVE  LET k == {<<i, j>> : j \in 0 .. 2} IN k # {} /\ k \subseteq Squares(3)
  <2>1. <<i, 0>> \in {<<i, j>> : j \in 0 .. 2}
    OBVIOUS
  <2>2. \A j \in 0 .. 2 : <<i, j>> \in Squares(3)
    BY DEF Squares
  <2> QED
    BY <2>1, <2>2
<1>2. ASSUME NEW j \in 0 .. 2
      PROVE  LET k == {<<i, j>> : i \in 0 .. 2} IN k # {} /\ k \subseteq Squares(3)
  <2>1. <<0, j>> \in {<<i, j>> : i \in 0 .. 2}
    OBVIOUS
  <2>2. \A i \in 0 .. 2 : <<i, j>> \in Squares(3)
    BY DEF Squares
  <2> QED
    BY <2>1, <2>2
<1>3. LET k == {<<i, i>> : i \in 0 .. 2} IN k # {} /\ k \subseteq Squares(3)
  <2>1. <<0, 0>> \in {<<i, i>> : i \in 0 .. 2}
    OBVIOUS
  <2>2. \A i \in 0 .. 2 : <<i, i>> \in Squares(3)
    BY DEF Squares
  <2> QED
    BY <2>1, <2>2
<1>4. LET k == {<<i, 2 - i>> : i \in 0 .. 2} IN k # {} /\ k \subseteq Squares(3)
  <2>1. <<0, 2 - 0>> \in {<<i, 2 - i>> : i \in 0 .. 2}
    OBVIOUS
  <2>2. \A i \in 0 .. 2 : <<i, 2 - i>> \in Squares(3)
    BY DEF Squares
  <2> QED
    BY <2>1, <2>2
<1> QED
  BY <1>1, <1>2, <1>3, <1>4 DEF Ttt!WinningLines

HasLine(b, v) == \E l \in Ttt!WinningLines : \A s \in l : At(b, s) = v

(* check_winner names the players that have a line.                        *)
LEMMA WinnerIs ==
  ASSUME NEW b
  PROVE  /\ 0 \in Ttt!CheckWinner(b) <=> HasLine(b, 1)
         /\ 1 \in Ttt!CheckWinner(b) <=> HasLine(b, -1)
         /\ Ttt!CheckWinner(b) \subseteq {0, 1}
<1>1. \A l \in Ttt!WinningLines : (CHOOSE s \in l : TRUE) \in l
  BY LinesAre
<1> DEFINE first(l) == At(b, CHOOSE s \in l : TRUE)
           won == {k \in Ttt!WinningLines : \E v \in {1, -1} : \A s \in k : At(b, s) = v}
<1>2. Ttt!CheckWinner(b) = {IF first(l) = 1 THEN 0 ELSE 1 : l \in won}
  BY TttGrid DEF Ttt!CheckWinner
<1>3. ASSUME NEW l \in Ttt!WinningLines, NEW v, \A s \in l : At(b, s) = v
      PROVE  first(l) = v
  BY <1>1, <1>3
<1> HIDE DEF first
<1>4. \A l \in won : \/ first(l) = 1 /\ \A s \in l : At(b, s) = 1
                     \/ first(l) = -1 /\ \A s \in l : At(b, s) = -1
  BY <1>3
<1>5. \A l \in Ttt!WinningLines : \A v \in {1, -1} : (\A s \in l : At(b, s) = v) => l \in won /\ first(l) = v
  BY <1>3
<1> HIDE DEF won
<1>6. \A l \in won : l \in Ttt!WinningLines
  BY DEF won
<1> QED
  BY <1>2, <1>4, <1>5, <1>6 DEF HasLine

TttInv ==
  game = "TicTacToe" =>
    /\ server \in [board : Boards(3, Stones), player : {0, 1}]
    /\ train \in [board : Boards(3, Stones), player : {1, -1}]
    /\ over <=> Ttt!IsGameOver(server)
    /\ winner = Ttt!GetWinner(server)
    /\ Ttt!CheckWinner(server.board) \subseteq {server.player}
    /\ StonesInStep

(* Tic-tac-toe starts with an empty board on both sides.                   *)
LEMMA TttInit ==
  ASSUME Init, game = "TicTacToe"
  PROVE  TttInv
<1>1. server = [board |-> Blank(3), player |-> 0] /\ train = [board |-> Blank(3), player |-> 1]
      /\ ~over /\ winner = {}
  BY TicTacToeOps, TicTacToeTraining, TttGrid DEF Init, Ttt!Initial, Ttt!TrainInitial
<1>2. Blank(3) \in Boards(3, Stones) /\ \A s \in Squares(3) : At(Blank(3), s) = 0
  BY DEF Blank, Boards, Stones, At, Squares
<1>3. ~ HasLine(Blank(3), 1) /\ ~ HasLine(Blank(3), -1)
  <2>1. \A l \in Ttt!WinningLines : \E s \in l : At(Blank(3), s) = 0
    BY <1>2, LinesAre
  <2> QED
    BY <2>1 DEF HasLine
<1>4. Ttt!CheckWinner(Blank(3)) = {}
  BY <1>3, WinnerIs
<1>5. ~ Full(Blank(3))
  <2>1. <<0, 0>> \in Squares(3)
    BY DEF Squares
  <2> QED
    BY <1>2, <2>1, FullMeans
<1> QED
  BY <1>1, <1>2, <1>4, <1>5, TttGrid
  DEF TttInv, Ttt!IsGameOver, Ttt!GetWinner, StonesInStep, Seat

(* A stone wins for its own player only.                                   *)
LEMMA NewLine ==
  ASSUME NEW b \in Boards(3, Stones), NEW m \in Squares(3), NEW v \in {1, -1},
         Ttt!CheckWinner(b) = {}
  PROVE  ~ HasLine(Put(b, m, v), -v)
<1> SUFFICES ASSUME HasLine(Put(b, m, v), -v) PROVE FALSE
  OBVIOUS
<1>1. PICK l \in Ttt!WinningLines : \A s \in l : At(Put(b, m, v), s) = -v
  BY DEF HasLine
<1>2. /\ At(Put(b, m, v), m) = v
      /\ \A t \in Squares(3) : t # m => At(Put(b, m, v), t) = At(b, t)
  BY PutIs DEF Stones
<1>3. m \notin l /\ l \subseteq Squares(3)
  BY <1>1, <1>2, LinesAre
<1>4. \A s \in l : At(b, s) = -v
  BY <1>1, <1>2, <1>3
<1>5. HasLine(b, -v) /\ -v \in {1, -1}
  BY <1>4 DEF HasLine
<1> QED
  BY <1>5, WinnerIs

(* A turn of tic-tac-toe keeps its invariant.                              *)
LEMMA TttStep ==
  ASSUME game = "TicTacToe", TttInv, Turn
  PROVE  TttInv'
<1>1. /\ server \in [board : Boards(3, Stones), player : {0, 1}]
      /\ train \in [board : Boards(3, Stones), player : {1, -1}]
      /\ Ttt!CheckWinner(server.board) = {}
  BY DEF TttInv, Turn, Ttt!IsGameOver
<1>2. PICK m \in Select(game, server) :
        Makes(MakeMove(game, server, m)) /\ Follows(m)
  BY TurnIs DEF Games
<1>3. m \in Squares(3)
  BY TicTacToeOps, TttGrid DEF SelectBase, Ttt!ValidMoves
<1> DEFINE v == IF server.player = 0 THEN 1 ELSE -1
           b == Put(server.board, m, v)
           made == [server EXCEPT !.board = b]
<1>4. MakeMove(game, server, m) = made
  BY TicTacToeOps, TttGrid DEF Ttt!MakeMove
<1>5. b \in Boards(3, Stones)
  BY <1>1, <1>3, PutIs DEF Stones
<1>6. Ttt!CheckWinner(b) \subseteq {server.player}
  <2>1. v \in {1, -1} /\ (v = 1 <=> server.player = 0) /\ (v = -1 <=> server.player = 1)
    BY <1>1
  <2>2. ~ HasLine(b, -v)
    BY <1>1, <1>3, <2>1, NewLine
  <2> HIDE DEF b, v
  <2>3. CASE v = 1
    BY <2>1, <2>2, <2>3, WinnerIs
  <2>4. CASE v = -1
    BY <2>1, <2>2, <2>4, WinnerIs
  <2> QED
    BY <2>1, <2>3, <2>4
<1> HIDE DEF b
<1>7. /\ made \in [board : Boards(3, Stones), player : {0, 1}]
      /\ made.board = b /\ made.player = server.player
  BY <1>1, <1>5
<1>8. /\ NextTurn(made) \in [board : Boards(3, Stones), player : {0, 1}]
      /\ NextTurn(made).board = b
      /\ NextTurn(made).player = (server.player + 1) % 2
  <2>1. (made.player + 1) % 2 \in {0, 1}
    BY <1>7
  <2> HIDE DEF made
  <2> QED
    BY <1>7, <2>1 DEF NextTurn
<1>9. /\ Ttt!IsGameOver(made) <=> Ttt!CheckWinner(b) # {} \/ Ttt!Full(b)
      /\ Ttt!IsGameOver(NextTurn(made)) <=> Ttt!CheckWinner(b) # {} \/ Ttt!Full(b)
  BY <1>7, <1>8 DEF Ttt!IsGameOver
<1> HIDE DEF made
<1>12. /\ train' \in [board : Boards(3, Stones), player : {1, -1}]
       /\ together' => /\ together /\ train'.board = Put(train.board, m, train.player)
                       /\ train'.player = -train.player
  <2> DEFINE t == [board |-> Put(train.board, m, train.player), player |-> -train.player]
  <2>1. together' => together /\ train' = t
    BY <1>2, TicTacToeTraining, TttGrid DEF Follows, Ttt!TrainMakeMove
  <2>2. t \in [board : Boards(3, Stones), player : {1, -1}]
    BY <1>1, <1>3, PutIs DEF Stones
  <2>3. ~ together' => train' = train
    BY <1>2 DEF Follows
  <2> QED
    BY <1>1, <2>1, <2>2, <2>3
<1>13. together' => /\ together /\ train'.board = b
                    /\ train'.player = -train.player
  BY <1>12 DEF TttInv, StonesInStep, Turn, Seat, b
<1>14. ~ over /\ server.player \in {0, 1} /\ StonesInStep
  BY <1>1 DEF Turn, TttInv
<1>10. CASE Ttt!IsGameOver(made)
  <2>1. server' = made /\ over' /\ winner' = Ttt!GetWinner(made)
    BY <1>2, <1>4, <1>10, TicTacToeOps DEF Makes
  <2>2. StonesInStep'
    BY <1>13, <1>14, <1>7, <2>1, StepInStep
  <2> QED
    BY <2>1, <2>2, <1>12, <1>6, <1>7, <1>10 DEF TttInv
<1>11. CASE ~ Ttt!IsGameOver(made)
  <2>1. server' = NextTurn(made) /\ ~ over' /\ winner' = {}
    BY <1>2, <1>4, <1>11, TicTacToeOps DEF Makes
  <2>2. StonesInStep'
    BY <1>13, <1>14, <1>7, <1>8, <2>1, StepInStep
  <2>3. Ttt!GetWinner(server') = {} /\ Ttt!CheckWinner(b) = {}
    BY <1>9, <1>11, <2>1 DEF Ttt!GetWinner
  <2> QED
    BY <2>1, <2>2, <2>3, <1>12, <1>8, <1>9, <1>11 DEF TttInv
<1> QED
  BY <1>10, <1>11

(* Every set of natural numbers has a least member: among the initial      *)
(* intervals that its members close there is a minimal one.                *)
LEMMA LeastMember ==
  ASSUME NEW S \in SUBSET Nat, S # {}
  PROVE  \E k \in S : \A j \in S : k <= j
<1>1. PICK n \in S : TRUE
  OBVIOUS
<1> DEFINE U == 0 .. n
           R == StrictSubsetOrdering(U)
           T == {I \in SUBSET U : \E k \in S : k <= n /\ I = 0 .. k}
<1>2. IsFiniteSet(U)
  BY <1>1, FS_Interval
<1>3. IsWellFoundedOn(R, FiniteSubsetsOf(U))
  <2> HIDE DEF U
  <2> QED
    BY <1>2, FS_StrictSubsetOrderingWellFounded
<1>4. T \subseteq FiniteSubsetsOf(U)
  <2> HIDE DEF U
  <2> QED
    BY <1>2, FS_Subset DEF FiniteSubsetsOf
<1>5. 0 .. n \in T
  BY <1>1
<1>6. PICK I \in T : \A J \in T : ~ (<<J, I>> \in R)
  <2> HIDE DEF R, T
  <2> QED
    BY <1>3, <1>4, <1>5, WFMin
<1>7. PICK k \in S : k <= n /\ I = 0 .. k
  BY <1>6
<1>8. ASSUME NEW j \in S, j < k PROVE FALSE
  <2>1. 0 .. j \in T
    BY <1>7, <1>8
  <2>2. <<0 .. j, I>> \in R
    <3>1. 0 .. j \in SUBSET U /\ I \in SUBSET U
      BY <2>1, <1>6
    <3>2. 0 .. j \subseteq I /\ 0 .. j # I
      <4>1. k \in I /\ k \notin 0 .. j
        BY <1>7, <1>8
      <4> QED
        BY <1>7, <1>8, <4>1
    <3> HIDE DEF U
    <3> QED
      BY <3>1, <3>2 DEF StrictSubsetOrdering
  <2> QED
    BY <1>6, <2>1, <2>2
<1> QED
  BY <1>8

(* A set of natural numbers with a bound has a greatest member.            *)
LEMMA GreatestMember ==
  ASSUME NEW n \in Nat, NEW S \in SUBSET (0 .. n), S # {}
  PROVE  \E k \in S : \A j \in S : j <= k
<1> DEFINE T == {n - j : j \in S}
<1>1. T \in SUBSET Nat /\ T # {}
  <2>1. PICK j \in S : TRUE
    OBVIOUS
  <2>2. n - j \in T
    BY <2>1
  <2>3. \A k \in S : n - k \in Nat
    OBVIOUS
  <2> QED
    BY <2>2, <2>3
<1>2. PICK i \in T : \A j \in T : i <= j
  <2> HIDE DEF T
  <2> QED
    BY <1>1, LeastMember
<1>3. PICK k \in S : i = n - k
  BY <1>2
<1>4. \A j \in S : n - j \in T
  OBVIOUS
<1>5. ASSUME NEW j \in S PROVE j <= k
  BY <1>2, <1>3, <1>4
<1> QED
  BY <1>5

-----------------------------------------------------------------------------
(* Steps in a direction add up.                                            *)
LEMMA GoGo ==
  ASSUME NEW s \in Int \X Int, NEW d \in Around, NEW i \in Int, NEW k \in Int
  PROVE  /\ Go(s, d, i) \in Int \X Int
         /\ Go(s, d, 0) = s
         /\ Go(s, <<-d[1], -d[2]>>, k) = Go(s, d, -k)
<1>1. d[1] \in {-1, 0, 1} /\ d[2] \in {-1, 0, 1}
  BY DEF Around
<1>2. s[1] \in Int /\ s[2] \in Int /\ s = <<s[1], s[2]>>
  OBVIOUS
<1>3. ASSUME NEW x \in Int, NEW e \in {-1, 0, 1}
      PROVE  /\ x + i * e \in Int /\ x + 0 * e = x
             /\ x + k * (-e) = x + (-k) * e
  OBVIOUS
<1>4. /\ Go(s, d, i)[1] = s[1] + i * d[1] /\ Go(s, d, i)[2] = s[2] + i * d[2]
  BY DEF Go
<1> QED
  BY <1>1, <1>2, <1>3, <1>4 DEF Go

(* Two walks in one direction make one.                                    *)
LEMMA GoAdds ==
  ASSUME NEW s \in Int \X Int, NEW d \in Around, NEW i \in Int, NEW k \in Int,
         NEW j, j = i + k
  PROVE  Go(Go(s, d, i), d, k) = Go(s, d, j)
<1>1. d[1] \in {-1, 0, 1} /\ d[2] \in {-1, 0, 1}
  BY DEF Around
<1>2. s[1] \in Int /\ s[2] \in Int
  OBVIOUS
<1>3. ASSUME NEW x \in Int, NEW e \in {-1, 0, 1}
      PROVE  x + i * e + k * e = x + j * e
  OBVIOUS
<1> QED
  BY <1>1, <1>2, <1>3 DEF Go

(* Omok's steps are the grid's.                                            *)
LEMMA OmkDirections ==
  /\ Omk!Lines = Lines
  /\ \A b, s : Omk!On(b, s) <=> On(b, s)
  /\ \A s, d, k : Omk!Go(s, d, k) = Go(s, d, k)
BY DEF Omk!Lines, Lines, Omk!On, On, Omk!Go, Go

(* A square is on an Omok board when it is one of its squares.             *)
LEMMA OnIs ==
  ASSUME NEW n \in Nat, NEW values, NEW b \in Boards(n, values),
         NEW s \in Int \X Int
  PROVE  On(b, s) <=> s \in Squares(n)
BY DEF Boards, On, Squares

(* The four lines are among the eight directions.                          *)
LEMMA LinesAround ==
  /\ Lines \subseteq Around
  /\ \A d \in Lines : <<-d[1], -d[2]>> \in Around
BY DEF Lines, Around

Stands(b, q, d, k, v) ==
  Go(q, d, k) \in Squares(OmokSize) /\ At(b, Go(q, d, k)) = v

(* Five stones of one value from q on; a run of five somewhere.            *)
FiveFrom(b, q, d, v) == \A k \in 0 .. 4 : Stands(b, q, d, k, v)
HasFive(b, v) ==
  \E q \in Squares(OmokSize) : \E d \in Lines : FiveFrom(b, q, d, v)

(* The count in a direction is the longest run of cells next to s.         *)
LEMMA CountIs ==
  ASSUME NEW b \in Boards(OmokSize, Stones), NEW s \in Squares(OmokSize),
         NEW d \in Around, NEW v,
         NEW c, c = Omk!CountInDirection(b, s, d, v)
  PROVE  /\ c \in 0 .. OmokSize
         /\ \A j \in 1 .. c : Stands(b, s, d, j, v)
         /\ \A k \in 1 .. OmokSize :
              (\A j \in 1 .. k : Stands(b, s, d, j, v)) => k <= c
<1> DEFINE same == {k \in 1 .. OmokSize : \A j \in 1 .. k : Stands(b, s, d, j, v)}
<1>1. OmokSize \in Nat /\ s \in Int \X Int
  BY BoardGamesAssumption DEF Squares
<1>2. \A j \in 1 .. OmokSize :
        (On(b, Go(s, d, j)) /\ At(b, Go(s, d, j)) = v) <=> Stands(b, s, d, j, v)
  <2>1. \A j \in Int : Go(s, d, j) \in Int \X Int
    BY <1>1, GoGo
  <2> QED
    BY <1>1, <2>1, OnIs DEF Stands
<1>3. same = {k \in 1 .. OmokSize : \A j \in 1 .. k :
                Omk!On(b, Omk!Go(s, d, j)) /\ Omk!At(b, Omk!Go(s, d, j)) = v}
  BY <1>1, <1>2, OmkDirections, OmkGrid
<1>4. c = IF same = {} THEN 0 ELSE CHOOSE k \in same : \A j \in same : j <= k
  <2> HIDE DEF same
  <2> QED
    BY <1>3 DEF Omk!CountInDirection
<1>5. same \in SUBSET (0 .. OmokSize)
  BY <1>1
<1>6. CASE same = {}
  <2>1. c = 0
    BY <1>4, <1>6
  <2>2. \A k \in 1 .. OmokSize : ~ \A j \in 1 .. k : Stands(b, s, d, j, v)
    BY <1>6
  <2> QED
    BY <1>1, <2>1, <2>2
<1>7. CASE same # {}
  <2>1. \E k \in same : \A j \in same : j <= k
    <3> HIDE DEF same
    <3> QED
      BY <1>1, <1>5, <1>7, GreatestMember
  <2>2. c \in same /\ \A j \in same : j <= c
    <3> HIDE DEF same
    <3>1. c = CHOOSE k \in same : \A j \in same : j <= k
      BY <1>4, <1>7
    <3> QED
      BY <2>1, <3>1
  <2>3. c \in 1 .. OmokSize /\ \A j \in 1 .. c : Stands(b, s, d, j, v)
    BY <2>2
  <2>4. ASSUME NEW k \in 1 .. OmokSize, \A j \in 1 .. k : Stands(b, s, d, j, v)
        PROVE  k <= c
    <3>1. k \in same
      BY <2>4
    <3> QED
      BY <2>2, <3>1
  <2> QED
    BY <1>1, <2>3, <2>4
<1> QED
  BY <1>6, <1>7

(* The count through a new stone finds the runs of five it belongs to.     *)
LEMMA CheckFiveIs ==
  ASSUME NEW b \in Boards(OmokSize, Stones), NEW s \in Squares(OmokSize),
         NEW v, At(b, s) = v
  PROVE  Omk!CheckFiveInARow(b, s, v) <=>
           \E q \in Squares(OmokSize) : \E d \in Lines : \E i \in 0 .. 4 :
             s = Go(q, d, i) /\ FiveFrom(b, q, d, v)
<1>1. OmokSize \in Nat /\ OmokSize >= 5 /\ s \in Int \X Int
  BY BoardGamesAssumption DEF Squares
<1> DEFINE back(d) == <<-d[1], -d[2]>>
           ahead(d) == Omk!CountInDirection(b, s, d, v)
           behind(d) == Omk!CountInDirection(b, s, back(d), v)
<1>2. Omk!CheckFiveInARow(b, s, v) <=> \E d \in Lines : 1 + ahead(d) + behind(d) >= 5
  BY OmkDirections DEF Omk!CheckFiveInARow
<1>3. ASSUME NEW d \in Lines
      PROVE  /\ ahead(d) \in 0 .. OmokSize /\ behind(d) \in 0 .. OmokSize
             /\ \A j \in 1 .. ahead(d) : Stands(b, s, d, j, v)
             /\ \A j \in 1 .. behind(d) : Stands(b, s, d, -j, v)
             /\ \A k \in 1 .. OmokSize :
                  (\A j \in 1 .. k : Stands(b, s, d, j, v)) => k <= ahead(d)
             /\ \A k \in 1 .. OmokSize :
                  (\A j \in 1 .. k : Stands(b, s, d, -j, v)) => k <= behind(d)
  <2>1. d \in Around /\ back(d) \in Around
    BY LinesAround
  <2>2. \A j \in Int : Stands(b, s, back(d), j, v) <=> Stands(b, s, d, -j, v)
    <3>1. \A j \in Int : Go(s, back(d), j) = Go(s, d, -j)
      BY <1>1, <2>1, GoGo
    <3> HIDE DEF back
    <3> QED
      BY <3>1 DEF Stands
  <2> HIDE DEF back
  <2>3. /\ ahead(d) \in 0 .. OmokSize
        /\ \A j \in 1 .. ahead(d) : Stands(b, s, d, j, v)
        /\ \A k \in 1 .. OmokSize :
             (\A j \in 1 .. k : Stands(b, s, d, j, v)) => k <= ahead(d)
    BY <2>1, CountIs
  <2>4. /\ behind(d) \in 0 .. OmokSize
        /\ \A j \in 1 .. behind(d) : Stands(b, s, back(d), j, v)
        /\ \A k \in 1 .. OmokSize :
             (\A j \in 1 .. k : Stands(b, s, back(d), j, v)) => k <= behind(d)
    BY <2>1, CountIs
  <2> HIDE DEF ahead, behind
  <2> QED
    BY <1>1, <2>2, <2>3, <2>4
<1> HIDE DEF ahead, behind, back
<1>4. ASSUME NEW d \in Lines, 1 + ahead(d) + behind(d) >= 5
      PROVE  \E q \in Squares(OmokSize) : \E i \in 0 .. 4 :
               s = Go(q, d, i) /\ FiveFrom(b, q, d, v)
  <2>1. PICK i \in 0 .. 4 : i <= behind(d) /\ 4 - i <= ahead(d)
    <3>1. CASE behind(d) >= 4
      BY <1>3, <3>1
    <3>2. CASE behind(d) < 4
      BY <1>3, <1>4, <3>2
    <3> QED
      BY <1>3, <3>1, <3>2
  <2>2. d \in Around
    BY LinesAround
  <2> DEFINE q == Go(s, d, -i)
  <2>3. \A k \in Int : Go(q, d, k) = Go(s, d, k - i)
    <3>1. ASSUME NEW k \in Int PROVE Go(q, d, k) = Go(s, d, k - i)
      <4>1. -i \in Int /\ k - i = -i + k
        OBVIOUS
      <4> QED
        BY <1>1, <2>2, <4>1, GoAdds
    <3> QED
      BY <3>1
  <2>4. Go(s, d, 0) = s
    BY <1>1, <2>2, GoGo
  <2> HIDE DEF q
  <2>5. \A j \in Int : -i <= j /\ j <= 4 - i => Stands(b, s, d, j, v)
    <3>1. ASSUME NEW j \in Int, -i <= j, j <= 4 - i
          PROVE  Stands(b, s, d, j, v)
      <4>1. CASE j = 0
        BY <4>1, <2>4 DEF Stands
      <4>2. CASE j > 0
        BY <3>1, <4>2, <2>1, <1>3
      <4>3. CASE j < 0
        <5>1. -j \in 1 .. behind(d) /\ -(-j) = j
          BY <3>1, <4>3, <2>1, <1>3
        <5> QED
          BY <5>1, <1>3
      <4> QED
        BY <4>1, <4>2, <4>3
    <3> QED
      BY <3>1
  <2>6. FiveFrom(b, q, d, v)
    <3>1. ASSUME NEW k \in 0 .. 4 PROVE Stands(b, q, d, k, v)
      <4>1. Stands(b, s, d, k - i, v)
        BY <2>5
      <4> QED
        BY <2>3, <4>1 DEF Stands
    <3> QED
      BY <3>1 DEF FiveFrom
  <2>7. q \in Squares(OmokSize)
    <3>1. Stands(b, s, d, -i, v)
      BY <2>5
    <3> QED
      BY <3>1 DEF Stands, q
  <2>8. s = Go(q, d, i)
    BY <2>3, <2>4
  <2> QED
    BY <2>6, <2>7, <2>8
<1>6. ASSUME NEW q \in Squares(OmokSize), NEW d \in Lines, NEW i \in 0 .. 4,
             s = Go(q, d, i), FiveFrom(b, q, d, v)
      PROVE  1 + ahead(d) + behind(d) >= 5
  <2>1. d \in Around /\ q \in Int \X Int
    BY <1>1, LinesAround DEF Squares
  <2>2. \A j \in Int : Go(s, d, j) = Go(q, d, i + j)
    <3>1. ASSUME NEW j \in Int PROVE Go(Go(q, d, i), d, j) = Go(q, d, i + j)
      BY <2>1, GoAdds
    <3> QED
      BY <1>6, <3>1
  <2>3. \A j \in Int : -i <= j /\ j <= 4 - i => Stands(b, s, d, j, v)
    <3>1. ASSUME NEW j \in Int, -i <= j, j <= 4 - i
          PROVE  Stands(b, s, d, j, v)
      <4>1. i + j \in 0 .. 4
        BY <3>1
      <4>2. Stands(b, q, d, i + j, v)
        BY <1>6, <4>1 DEF FiveFrom
      <4> QED
        BY <2>2, <4>2 DEF Stands
    <3> QED
      BY <3>1
  <2>4. 4 - i <= ahead(d)
    <3>1. CASE i = 4
      BY <1>3, <3>1
    <3>2. CASE i # 4
      <4>1. 4 - i \in 1 .. OmokSize
        BY <1>1, <3>2
      <4>2. \A j \in 1 .. 4 - i : Stands(b, s, d, j, v)
        BY <2>3
      <4> QED
        BY <1>3, <4>1, <4>2
    <3> QED
      BY <3>1, <3>2
  <2>5. i <= behind(d)
    <3>1. CASE i = 0
      BY <1>3, <3>1
    <3>2. CASE i # 0
      <4>1. i \in 1 .. OmokSize
        BY <1>1, <3>2
      <4>2. \A j \in 1 .. i : Stands(b, s, d, -j, v)
        BY <2>3
      <4> QED
        BY <1>3, <4>1, <4>2
    <3> QED
      BY <3>1, <3>2
  <2> QED
    BY <1>3, <2>4, <2>5
<1> QED
  BY <1>2, <1>4, <1>6

(* With no run of five on the board, a stone makes one for its own player  *)
(* only, and the count through it finds it.                                *)
LEMMA NewFive ==
  ASSUME NEW b \in Boards(OmokSize, Stones), NEW m \in Squares(OmokSize),
         NEW v \in {1, -1}, ~ HasFive(b, 1), ~ HasFive(b, -1)
  PROVE  /\ ~ HasFive(Put(b, m, v), -v)
         /\ HasFive(Put(b, m, v), v) <=> Omk!CheckFiveInARow(Put(b, m, v), m, v)
<1> DEFINE c == Put(b, m, v)
<1>1. OmokSize \in Nat
  BY BoardGamesAssumption
<1>2. /\ c \in Boards(OmokSize, Stones) /\ At(c, m) = v
      /\ \A s \in Squares(OmokSize) : s # m => At(c, s) = At(b, s)
  BY <1>1, PutIs DEF Stones
<1> HIDE DEF c
<1>3. ASSUME NEW w \in {1, -1}, NEW q \in Squares(OmokSize), NEW d \in Lines,
             FiveFrom(c, q, d, w)
      PROVE  w = v /\ \E i \in 0 .. 4 : m = Go(q, d, i)
  <2>1. \A i \in 0 .. 4 : Go(q, d, i) \in Squares(OmokSize) /\ At(c, Go(q, d, i)) = w
    BY <1>3 DEF FiveFrom, Stands
  <2>2. PICK i \in 0 .. 4 : m = Go(q, d, i)
    <3>1. SUFFICES ASSUME \A i \in 0 .. 4 : m # Go(q, d, i) PROVE FALSE
      OBVIOUS
    <3>2. \A i \in 0 .. 4 : At(b, Go(q, d, i)) = w
      BY <1>2, <2>1, <3>1
    <3>3. FiveFrom(b, q, d, w)
      BY <2>1, <3>2 DEF FiveFrom, Stands
    <3> QED
      BY <3>3 DEF HasFive
  <2> QED
    BY <1>2, <2>1, <2>2
<1>4. Omk!CheckFiveInARow(c, m, v) <=>
        \E q \in Squares(OmokSize) : \E d \in Lines : \E i \in 0 .. 4 :
          m = Go(q, d, i) /\ FiveFrom(c, q, d, v)
  BY <1>2, CheckFiveIs
<1>5. ~ HasFive(c, -v)
  <2>1. -v \in {1, -1} /\ -v # v
    OBVIOUS
  <2> QED
    BY <1>3, <2>1 DEF HasFive
<1>6. HasFive(c, v) <=> Omk!CheckFiveInARow(c, m, v)
  BY <1>3, <1>4 DEF HasFive
<1> QED
  BY <1>5, <1>6 DEF c

(* A run of five has a first stone, before which the line ends or is of    *)
(* another value: the training code finds it there.                        *)
StartsFive(b, s, d) ==
  /\ At(b, s) # 0
  /\ ~ (On(b, Go(s, d, -1)) /\ At(b, Go(s, d, -1)) = At(b, s))
  /\ \A k \in 1 .. 4 : On(b, Go(s, d, k)) /\ At(b, Go(s, d, k)) = At(b, s)

(* Where five stand in a row there is a first one of them.                 *)
LEMMA FirstOfFive ==
  ASSUME NEW b \in Boards(OmokSize, Stones), NEW d \in Lines, NEW v \in {1, -1}
  PROVE  (\E q \in Squares(OmokSize) : FiveFrom(b, q, d, v)) <=>
           \E s \in Squares(OmokSize) : At(b, s) = v /\ StartsFive(b, s, d)
<1>1. /\ OmokSize \in Nat /\ d \in Around
      /\ \A q \in Squares(OmokSize) : q \in Int \X Int
  BY BoardGamesAssumption, LinesAround DEF Squares
<1>2. \A q \in Squares(OmokSize) : \A k \in Int :
        On(b, Go(q, d, k)) <=> Go(q, d, k) \in Squares(OmokSize)
  BY <1>1, GoGo, OnIs
<1>3. \A q \in Squares(OmokSize) : Go(q, d, 0) = q
  BY <1>1, GoGo
<1>4. ASSUME NEW s \in Squares(OmokSize), At(b, s) = v, StartsFive(b, s, d)
      PROVE  FiveFrom(b, s, d, v)
  <2>1. ASSUME NEW k \in 0 .. 4 PROVE Stands(b, s, d, k, v)
    <3>1. CASE k = 0
      BY <1>3, <1>4, <3>1 DEF Stands
    <3>2. CASE k # 0
      BY <1>2, <1>4, <3>2 DEF Stands, StartsFive
    <3> QED
      BY <3>1, <3>2
  <2> QED
    BY <2>1 DEF FiveFrom
<1>5. ASSUME NEW q \in Squares(OmokSize), FiveFrom(b, q, d, v)
      PROVE  \E s \in Squares(OmokSize) : At(b, s) = v /\ StartsFive(b, s, d)
  <2> DEFINE run == {i \in 0 .. OmokSize : \A j \in 0 .. i : Stands(b, q, d, -j, v)}
  <2>1. PICK i \in run : \A j \in run : j <= i
    <3>1. Stands(b, q, d, 0, v)
      BY <1>5 DEF FiveFrom
    <3>2. 0 \in run
      BY <1>1, <3>1
    <3>3. run \in SUBSET (0 .. OmokSize)
      OBVIOUS
    <3> HIDE DEF run
    <3> QED
      BY <1>1, <3>2, <3>3, GreatestMember
  <2>2. i \in 0 .. OmokSize /\ \A j \in 0 .. i : Stands(b, q, d, -j, v)
    BY <2>1
  <2>3. ~ Stands(b, q, d, -(i + 1), v)
    <3>1. SUFFICES ASSUME Stands(b, q, d, -(i + 1), v) PROVE FALSE
      OBVIOUS
    <3>2. \A j \in 0 .. i + 1 : Stands(b, q, d, -j, v)
      <4>1. \A j \in 0 .. i + 1 : j \in 0 .. i \/ j = i + 1
        BY <2>2
      <4> QED
        BY <2>2, <3>1, <4>1
    <3>3. CASE i + 1 \in 0 .. OmokSize
      <4>1. i + 1 \in run
        BY <3>2, <3>3
      <4> QED
        BY <2>1, <2>2, <4>1
    <3>4. CASE i = OmokSize
      <4>1. PICK x \in {1, 2} : d[x] \in {1, -1}
        BY DEF Lines
      <4>2. Stands(b, q, d, 0, v) /\ Stands(b, q, d, -OmokSize, v)
        BY <1>1, <2>2, <3>4
      <4>3. /\ Go(q, d, -OmokSize)[x] = q[x] + (-OmokSize) * d[x]
            /\ Go(q, d, -OmokSize)[x] \in 0 .. OmokSize - 1
            /\ q[x] \in 0 .. OmokSize - 1
        BY <4>1, <4>2 DEF Stands, Squares, Go
      <4>4. CASE d[x] = 1
        <5>1. (-OmokSize) * 1 = -OmokSize
          BY <1>1
        <5> QED
          BY <1>1, <4>3, <4>4, <5>1
      <4>5. CASE d[x] = -1
        <5>1. (-OmokSize) * (-1) = OmokSize
          BY <1>1
        <5> QED
          BY <1>1, <4>3, <4>5, <5>1
      <4> QED
        BY <4>1, <4>4, <4>5
    <3> QED
      BY <1>1, <2>2, <3>3, <3>4
  <2> DEFINE s == Go(q, d, -i)
  <2>4. s \in Squares(OmokSize) /\ At(b, s) = v
    BY <2>2 DEF Stands
  <2>5. ASSUME NEW k \in Int PROVE Go(s, d, k) = Go(q, d, k - i)
    <3>1. -i \in Int /\ k - i = -i + k
      BY <2>2
    <3> QED
      BY <1>1, <3>1, GoAdds
  <2> HIDE DEF s
  <2>6. ~ (On(b, Go(s, d, -1)) /\ At(b, Go(s, d, -1)) = v)
    <3>1. Go(s, d, -1) = Go(q, d, -(i + 1)) /\ -(i + 1) \in Int
      <4>1. -1 - i = -(i + 1)
        BY <2>2
      <4> QED
        BY <2>5, <2>2, <4>1
    <3> QED
      BY <1>2, <2>3, <3>1 DEF Stands
  <2>7. ASSUME NEW k \in 1 .. 4
        PROVE  On(b, Go(s, d, k)) /\ At(b, Go(s, d, k)) = v
    <3>1. Stands(b, q, d, k - i, v)
      <4>1. CASE k - i < 0
        <5>1. i - k \in 0 .. i /\ -(i - k) = k - i
          BY <2>2, <4>1
        <5> QED
          BY <2>2, <5>1
      <4>2. CASE k - i >= 0
        <5>1. k - i \in 0 .. 4
          BY <2>2, <4>2
        <5> QED
          BY <1>5, <5>1 DEF FiveFrom
      <4> QED
        BY <2>2, <4>1, <4>2
    <3>2. Go(s, d, k) = Go(q, d, k - i) /\ k - i \in Int
      BY <2>2, <2>5
    <3> QED
      BY <1>2, <3>1, <3>2 DEF Stands
  <2> QED
    BY <2>4, <2>6, <2>7 DEF StartsFive
<1> QED
  BY <1>4, <1>5

(* The training code's verdict on an Omok board.                           *)
LEMMA OmokVerdict ==
  ASSUME NEW t, t.board \in Boards(OmokSize, Stones)
  PROVE  LET won == {v \in {1, -1} : HasFive(t.board, v)}
         IN Omk!TrainGetWinner(t) = IF won # {} THEN won
                                    ELSE IF Full(t.board) THEN {0} ELSE {}
<1> DEFINE b == t.board
           found == {At(b, s) : s \in {q \in Squares(OmokSize) :
                                         \E d \in Lines : StartsFive(b, q, d)}}
           won == {v \in {1, -1} : HasFive(b, v)}
<1>1. Omk!TrainGetWinner(t) = IF found # {} THEN found
                              ELSE IF Full(b) THEN {0} ELSE {}
  <2> DEFINE Starts(s, d) ==
        /\ Omk!At(b, s) # 0
        /\ ~ (Omk!On(b, Omk!Go(s, d, -1))
              /\ Omk!At(b, Omk!Go(s, d, -1)) = Omk!At(b, s))
        /\ \A k \in 1 .. 4 : /\ Omk!On(b, Omk!Go(s, d, k))
                              /\ Omk!At(b, Omk!Go(s, d, k)) = Omk!At(b, s)
  <2>1. \A s, d : Starts(s, d) <=> StartsFive(b, s, d)
    BY OmkDirections, OmkGrid DEF StartsFive
  <2> DEFINE stones == {Omk!At(b, s) : s \in {q \in Omk!Squares(OmokSize) :
                                          \E d \in Omk!Lines : Starts(q, d)}}
  <2>2. Omk!TrainGetWinner(t) = IF stones # {} THEN stones
                                ELSE IF Omk!Full(b) THEN {0} ELSE {}
    BY Zenon DEF Omk!TrainGetWinner
  <2>3. stones = found
    <3> HIDE DEF Starts
    <3>1. {q \in Omk!Squares(OmokSize) : \E d \in Omk!Lines : Starts(q, d)}
            = {q \in Squares(OmokSize) : \E d \in Lines : StartsFive(b, q, d)}
      BY <2>1, OmkDirections, OmkGrid
    <3> QED
      BY <3>1, OmkGrid
  <2> HIDE DEF stones, found
  <2> QED
    BY <2>2, <2>3, OmkGrid
<1>2. \A q \in Squares(OmokSize) : At(b, q) \in Stones
  BY DEF Boards, Squares, At
<1>3. ASSUME NEW v \in found PROVE v \in won
  <2>1. PICK s \in Squares(OmokSize), d \in Lines : v = At(b, s) /\ StartsFive(b, s, d)
    BY <1>3
  <2>2. v \in {1, -1}
    BY <1>2, <2>1 DEF StartsFive, Stones
  <2> QED
    BY <2>1, <2>2, FirstOfFive DEF HasFive
<1>4. ASSUME NEW v \in won PROVE v \in found
  <2>1. v \in {1, -1} /\ HasFive(b, v)
    BY <1>4
  <2>2. PICK d \in Lines : \E q \in Squares(OmokSize) : FiveFrom(b, q, d, v)
    BY <2>1 DEF HasFive
  <2>3. PICK s \in Squares(OmokSize) : At(b, s) = v /\ StartsFive(b, s, d)
    BY <2>1, <2>2, FirstOfFive
  <2> QED
    BY <2>3
<1>5. found = won
  BY <1>3, <1>4
<1> QED
  BY <1>1, <1>5

OmkInv ==
  game = "Omok" =>
    /\ server \in [board : Boards(OmokSize, Stones), player : {0, 1},
                   winner : {{}, {0}, {1}}]
    /\ train \in [board : Boards(OmokSize, Stones), player : {1, -1}]
    /\ over <=> Omk!IsGameOver(server)
    /\ winner = server.winner
    /\ server.winner \subseteq {server.player}
    /\ \A w \in {0, 1} : w \in server.winner <=> HasFive(server.board, Seat(w))
    /\ StonesInStep

(* Omok starts with an empty board on both sides.                          *)
LEMMA OmkInit ==
  ASSUME Init, game = "Omok"
  PROVE  OmkInv
<1>1. /\ server = [board |-> Blank(OmokSize), player |-> 0, winner |-> {}]
      /\ train = [board |-> Blank(OmokSize), player |-> 1]
      /\ ~ over /\ winner = {}
  BY OmokOps, OmokTraining, OmkGrid DEF Init, Omk!Initial, Omk!TrainInitial
<1>2. OmokSize \in Nat /\ OmokSize >= 5
  BY BoardGamesAssumption
<1> DEFINE b == Blank(OmokSize)
<1>3. b \in Boards(OmokSize, Stones) /\ \A s \in Squares(OmokSize) : At(b, s) = 0
  BY <1>2 DEF Blank, Boards, Stones, At, Squares
<1> HIDE DEF b
<1>4. \A w \in {0, 1} : ~ HasFive(b, Seat(w))
  <2>1. ASSUME NEW v \in {1, -1}, HasFive(b, v) PROVE FALSE
    <3>1. PICK q \in Squares(OmokSize), d \in Lines : FiveFrom(b, q, d, v)
      BY <2>1 DEF HasFive
    <3>2. Stands(b, q, d, 0, v)
      BY <3>1 DEF FiveFrom
    <3> QED
      BY <1>3, <3>2 DEF Stands
  <2> QED
    BY <2>1 DEF Seat
<1>5. ~ Full(b)
  <2>1. <<0, 0>> \in Squares(OmokSize)
    BY <1>2 DEF Squares
  <2> QED
    BY <1>2, <1>3, <2>1, FullMeans
<1>6. server.board = b /\ server.player = 0 /\ server.winner = {}
  BY <1>1 DEF b
<1>7. ~ Omk!IsGameOver(server)
  BY <1>5, <1>6, OmkGrid DEF Omk!IsGameOver
<1>8. /\ server \in [board : Boards(OmokSize, Stones), player : {0, 1},
                     winner : {{}, {0}, {1}}]
      /\ train \in [board : Boards(OmokSize, Stones), player : {1, -1}]
      /\ train.board = b /\ train.player = 1
  BY <1>1, <1>3 DEF b
<1> QED
  BY <1>1, <1>4, <1>6, <1>7, <1>8 DEF OmkInv, StonesInStep, Seat

(* A turn of Omok keeps its invariant.                                     *)
LEMMA OmkStep ==
  ASSUME game = "Omok", OmkInv, Turn
  PROVE  OmkInv'
<1>1. /\ server \in [board : Boards(OmokSize, Stones), player : {0, 1},
                     winner : {{}, {0}, {1}}]
      /\ train \in [board : Boards(OmokSize, Stones), player : {1, -1}]
      /\ server.winner = {} /\ ~ over /\ StonesInStep
      /\ ~ HasFive(server.board, 1) /\ ~ HasFive(server.board, -1)
  BY DEF OmkInv, Turn, Omk!IsGameOver, Seat
<1>2. PICK m \in Select(game, server) :
        Makes(MakeMove(game, server, m)) /\ Follows(m)
  BY TurnIs DEF Games
<1>3. m \in Squares(OmokSize) /\ OmokSize \in Nat
  BY OmokOps, BoardGamesAssumption DEF SelectOmok
<1> DEFINE v == IF server.player = 0 THEN 1 ELSE -1
           b == Put(server.board, m, v)
           won == IF Omk!CheckFiveInARow(b, m, v) THEN {server.player} ELSE {}
           made == [server EXCEPT !.board = b, !.winner = won]
<1>4. MakeMove(game, server, m) = made
  BY <1>1, OmokOps, OmkGrid DEF Omk!MakeMove
<1>5. b \in Boards(OmokSize, Stones)
  BY <1>1, <1>3, PutIs DEF Stones
<1>6. /\ won \subseteq {server.player} /\ won \in {{}, {0}, {1}}
      /\ \A w \in {0, 1} : w \in won <=> HasFive(b, Seat(w))
  <2>1. v \in {1, -1} /\ (v = 1 <=> server.player = 0) /\ (v = -1 <=> server.player = 1)
    BY <1>1
  <2>2. ~ HasFive(b, -v) /\ (HasFive(b, v) <=> Omk!CheckFiveInARow(b, m, v))
    BY <1>1, <1>3, <2>1, NewFive
  <2> HIDE DEF b, v
  <2> QED
    BY <1>1, <2>1, <2>2 DEF Seat
<1> HIDE DEF b, won
<1>7. /\ made \in [board : Boards(OmokSize, Stones), player : {0, 1},
                   winner : {{}, {0}, {1}}]
      /\ made.board = b /\ made.player = server.player /\ made.winner = won
  BY <1>1, <1>5, <1>6
<1>8. /\ NextTurn(made) \in [board : Boards(OmokSize, Stones), player : {0, 1},
                             winner : {{}, {0}, {1}}]
      /\ NextTurn(made).board = b /\ NextTurn(made).winner = won
      /\ NextTurn(made).player = (server.player + 1) % 2
  <2>1. (server.player + 1) % 2 \in {0, 1}
    BY <1>1
  <2> HIDE DEF made
  <2> QED
    BY <1>7, <2>1 DEF NextTurn
<1>9. /\ Omk!IsGameOver(made) <=> won # {} \/ Full(b)
      /\ Omk!IsGameOver(NextTurn(made)) <=> won # {} \/ Full(b)
  BY <1>7, <1>8, OmkGrid DEF Omk!IsGameOver
<1> HIDE DEF made
<1>10. /\ train' \in [board : Boards(OmokSize, Stones), player : {1, -1}]
       /\ together' => /\ together /\ train'.board = Put(train.board, m, train.player)
                       /\ train'.player = -train.player
  <2> DEFINE t == [board |-> Put(train.board, m, train.player), player |-> -train.player]
  <2>1. together' => together /\ train' = t
    BY <1>2, OmokTraining, OmkGrid DEF Follows, Omk!TrainMakeMove
  <2>2. t \in [board : Boards(OmokSize, Stones), player : {1, -1}]
    BY <1>1, <1>3, PutIs DEF Stones
  <2>3. ~ together' => train' = train
    BY <1>2 DEF Follows
  <2> QED
    BY <1>1, <2>1, <2>2, <2>3
<1>11. together' => /\ together /\ train'.board = b
                    /\ train'.player = -train.player
  BY <1>1, <1>10 DEF StonesInStep, Seat, b
<1>12. ~ over /\ server.player \in {0, 1} /\ StonesInStep
  BY <1>1
<1>13. CASE Omk!IsGameOver(made)
  <2>1. server' = made /\ over' /\ winner' = won
    BY <1>2, <1>4, <1>7, <1>13, OmokOps DEF Makes, Omk!GetWinner
  <2>2. StonesInStep'
    BY <1>11, <1>12, <1>7, <2>1, StepInStep
  <2> QED
    BY <2>1, <2>2, <1>10, <1>6, <1>7, <1>13 DEF OmkInv
<1>14. CASE ~ Omk!IsGameOver(made)
  <2>1. server' = NextTurn(made) /\ ~ over' /\ winner' = {}
    BY <1>2, <1>4, <1>14, OmokOps DEF Makes
  <2>2. StonesInStep'
    BY <1>11, <1>12, <1>7, <1>8, <2>1, StepInStep
  <2>3. won = {} /\ ~ Omk!IsGameOver(server')
    BY <1>9, <1>14, <2>1
  <2> QED
    BY <2>1, <2>2, <2>3, <1>10, <1>6, <1>8 DEF OmkInv
<1> QED
  BY <1>13, <1>14

(* The cells between two squares of a board are on the board.              *)
LEMMA Between ==
  ASSUME NEW n \in Nat, NEW s \in Squares(n), NEW d \in Around, NEW k \in Nat,
         Go(s, d, k) \in Squares(n), NEW j \in 0 .. k
  PROVE  Go(s, d, j) \in Squares(n)
<1>1. d[1] \in {-1, 0, 1} /\ d[2] \in {-1, 0, 1}
  BY DEF Around
<1>2. /\ s[1] \in 0 .. n - 1 /\ s[2] \in 0 .. n - 1
      /\ s[1] + k * d[1] \in 0 .. n - 1 /\ s[2] + k * d[2] \in 0 .. n - 1
  BY DEF Squares, Go
<1>3. ASSUME NEW x \in 0 .. n - 1, NEW e \in {-1, 0, 1}, x + k * e \in 0 .. n - 1
      PROVE  x + j * e \in 0 .. n - 1
  <2>1. CASE e = 1
    BY <1>3, <2>1
  <2>2. CASE e = -1
    <3>1. k * (-1) = -k /\ j * (-1) = -j
      OBVIOUS
    <3> QED
      BY <1>3, <2>2, <3>1
  <2>3. CASE e = 0
    BY <1>3, <2>3
  <2> QED
    BY <2>1, <2>2, <2>3
<1> QED
  BY <1>1, <1>2, <1>3 DEF Squares, Go

(* Eight steps lead off an Othello board.                                  *)
LEMMA EightSteps ==
  ASSUME NEW s \in Squares(8), NEW d \in Around
  PROVE  Go(s, d, 8) \notin Squares(8)
<1>1. d[1] \in {-1, 0, 1} /\ d[2] \in {-1, 0, 1} /\ (d[1] # 0 \/ d[2] # 0)
  BY DEF Around
<1>2. s[1] \in 0 .. 7 /\ s[2] \in 0 .. 7
  BY DEF Squares
<1> SUFFICES ASSUME Go(s, d, 8) \in Squares(8) PROVE FALSE
  OBVIOUS
<1>3. s[1] + 8 * d[1] \in 0 .. 7 /\ s[2] + 8 * d[2] \in 0 .. 7
  BY DEF Squares, Go
<1> QED
  BY <1>1, <1>2, <1>3

(* The run of the opponent's stones ends where the next cell is not his.   *)
LEMMA TrainRunIs ==
  ASSUME NEW t, t.board \in Boards(8, Stones), NEW s \in Squares(8),
         NEW d \in Around, NEW r, r = Oth!TrainRun(t, s, d)
  PROVE  LET Theirs(j) == /\ Go(s, d, j) \in Squares(8)
                          /\ At(t.board, Go(s, d, j)) = -t.player
         IN r \in 0 .. 7 /\ (\A j \in 1 .. r : Theirs(j)) /\ ~ Theirs(r + 1)
<1> DEFINE Theirs(j) == /\ Go(s, d, j) \in Squares(8)
                        /\ At(t.board, Go(s, d, j)) = -t.player
           Fits(n) == (\A j \in 1 .. n : Theirs(j)) /\ ~ Theirs(n + 1)
           ends == {n \in 0 .. 7 : ~ Theirs(n + 1)}
<1>1. s \in Int \X Int
  BY DEF Squares
<1>2. \A j \in Int : On(t.board, Go(s, d, j)) <=> Go(s, d, j) \in Squares(8)
  BY <1>1, GoGo, OnIs
<1>3. ~ Theirs(8)
  BY EightSteps
<1> HIDE DEF Theirs
<1>4. PICK n \in ends : \A j \in ends : n <= j
  <2>1. 7 \in ends
    BY <1>3
  <2>2. ends \in SUBSET Nat
    OBVIOUS
  <2> HIDE DEF ends
  <2> QED
    BY <2>1, <2>2, LeastMember
<1>5. Fits(n)
  <2>1. ASSUME NEW j \in 1 .. n PROVE Theirs(j)
    <3>1. j - 1 \in 0 .. 7 /\ (j - 1) + 1 = j /\ ~ (n <= j - 1)
      BY <1>4
    <3>2. j - 1 \notin ends
      BY <1>4, <3>1
    <3> QED
      BY <3>1, <3>2
  <2> QED
    BY <1>4, <2>1
<1>6. r = CHOOSE m \in 0 .. 7 : Fits(m)
  <2>1. \A m \in 0 .. 7 :
          /\ (\A j \in 1 .. m : /\ Oth!On(t.board, Oth!Go(s, d, j))
                                /\ Oth!At(t.board, Oth!Go(s, d, j)) = -t.player)
               <=> (\A j \in 1 .. m : Theirs(j))
          /\ (Oth!On(t.board, Oth!Go(s, d, m + 1))
                /\ Oth!At(t.board, Oth!Go(s, d, m + 1)) = -t.player)
               <=> Theirs(m + 1)
    BY <1>2, OthDirections DEF Theirs
  <2> QED
    BY <2>1 DEF Oth!TrainRun
<1>7. r \in 0 .. 7 /\ Fits(r)
  <2> HIDE DEF Fits
  <2> QED
    BY <1>4, <1>5, <1>6
<1> QED
  BY <1>7 DEF Theirs

(* An own stone ends a row of the opponent's: the game server tries every  *)
(* length, the training code measures the row.                             *)
Turns(b, s, d, k, v) ==
  /\ On(b, Go(s, d, k)) /\ At(b, Go(s, d, k)) = v
  /\ \A j \in 1 .. k - 1 : At(b, Go(s, d, j)) = -v

(* A run of the opponent's stones that ends on an own one is turned.       *)
LEMMA RunTurns ==
  ASSUME NEW t, t.board \in Boards(8, Stones), t.player \in {1, -1},
         NEW s \in Squares(8), NEW d \in Around
  PROVE  /\ Oth!TrainRun(t, s, d) \in 0 .. 7
         /\ \A k \in 2 .. 7 : Turns(t.board, s, d, k, t.player) <=>
              Oth!TrainRun(t, s, d) = k - 1 /\ Oth!TrainEndsOwn(t, s, d)
         /\ Oth!TrainEndsOwn(t, s, d) => Oth!TrainRun(t, s, d) \in 0 .. 6
<1> DEFINE b == t.board
           v == t.player
           r == Oth!TrainRun(t, s, d)
           Theirs(j) == Go(s, d, j) \in Squares(8) /\ At(b, Go(s, d, j)) = -v
<1>1. s \in Int \X Int /\ v \in {1, -1} /\ v # -v
  BY DEF Squares
<1>2. \A j \in Int : On(b, Go(s, d, j)) <=> Go(s, d, j) \in Squares(8)
  BY <1>1, GoGo, OnIs
<1>3. r \in 0 .. 7 /\ (\A j \in 1 .. r : Theirs(j)) /\ ~ Theirs(r + 1)
  BY TrainRunIs
<1>4. Oth!TrainEndsOwn(t, s, d) <=>
        On(b, Go(s, d, r + 1)) /\ At(b, Go(s, d, r + 1)) = v
  BY OthDirections DEF Oth!TrainEndsOwn
<1> HIDE DEF r
<1>5. ASSUME NEW k \in 2 .. 7, Turns(b, s, d, k, v)
      PROVE  r = k - 1 /\ Oth!TrainEndsOwn(t, s, d)
  <2>1. Go(s, d, k) \in Squares(8) /\ At(b, Go(s, d, k)) = v
    BY <1>2, <1>5 DEF Turns
  <2>2. ASSUME NEW j \in 1 .. k - 1 PROVE Theirs(j)
    <3>1. Go(s, d, j) \in Squares(8)
      BY <2>1, Between
    <3> QED
      BY <1>5, <3>1 DEF Turns
  <2>3. ~ Theirs(k)
    BY <1>1, <2>1
  <2> HIDE DEF Theirs
  <2>4. r = k - 1
    <3>1. CASE r < k - 1
      <4>1. r + 1 \in 1 .. k - 1
        BY <1>3, <3>1
      <4> QED
        BY <1>3, <2>2, <4>1
    <3>2. CASE r > k - 1
      <4>1. k \in 1 .. r
        BY <1>3, <3>2
      <4> QED
        BY <1>3, <2>3, <4>1
    <3> QED
      BY <1>3, <3>1, <3>2
  <2>5. r + 1 = k
    BY <2>4
  <2> QED
    BY <1>2, <1>4, <2>1, <2>4, <2>5
<1>6. ASSUME NEW k \in 2 .. 7, r = k - 1, Oth!TrainEndsOwn(t, s, d)
      PROVE  Turns(b, s, d, k, v)
  <2>1. r + 1 = k /\ 1 .. k - 1 = 1 .. r
    BY <1>6
  <2> QED
    BY <1>3, <1>4, <1>6, <2>1 DEF Turns
<1>7. Oth!TrainEndsOwn(t, s, d) => r # 7
  <2>1. r = 7 => r + 1 = 8
    OBVIOUS
  <2> QED
    BY <1>2, <1>4, <2>1, EightSteps
<1>8. r = Oth!TrainRun(t, s, d)
  BY DEF r
<1> QED
  BY <1>3, <1>5, <1>6, <1>7, <1>8

(* Both know the same moves, and turn the same stones.                     *)
LEMMA OthelloMoves ==
  ASSUME NEW t, t.board \in Boards(8, Stones), t.player \in {1, -1},
         NEW s \in Squares(8)
  PROVE  /\ (\E d \in Around : Oth!TrainCanFlip(t, s, d)) <=>
              \E d \in Around : Oth!CanFlipInDirection(t.board, s, d, t.player)
         /\ UNION {{Oth!Go(s, d, j) : j \in 1 .. Oth!TrainRun(t, s, d)} :
                     d \in {x \in Around : Oth!TrainEndsOwn(t, s, x)}}
              = Oth!Flipped(t.board, s, t.player)
<1> DEFINE b == t.board
           v == t.player
           run(d) == Oth!TrainRun(t, s, d)
           own(d) == Oth!TrainEndsOwn(t, s, d)
<1>1. ASSUME NEW d \in Around
      PROVE  /\ run(d) \in 0 .. 7
             /\ \A k \in 2 .. 7 : Turns(b, s, d, k, v) <=> run(d) = k - 1 /\ own(d)
             /\ own(d) => run(d) \in 0 .. 6
  BY RunTurns
<1>2. \A d : /\ Oth!CanFlipInDirection(b, s, d, v) <=> \E k \in 2 .. 7 : Turns(b, s, d, k, v)
             /\ Oth!TrainCanFlip(t, s, d) <=> run(d) >= 1 /\ own(d)
  BY OthDirections DEF Oth!CanFlipInDirection, Turns, Oth!TrainCanFlip
<1> HIDE DEF run, own
<1>3. ASSUME NEW d \in Around
      PROVE  Oth!TrainCanFlip(t, s, d) <=> Oth!CanFlipInDirection(b, s, d, v)
  <2>1. ASSUME run(d) >= 1, own(d) PROVE \E k \in 2 .. 7 : Turns(b, s, d, k, v)
    <3>1. run(d) + 1 \in 2 .. 7 /\ run(d) = (run(d) + 1) - 1
      BY <1>1, <2>1
    <3> QED
      BY <1>1, <2>1, <3>1
  <2>2. ASSUME NEW k \in 2 .. 7, Turns(b, s, d, k, v) PROVE run(d) >= 1 /\ own(d)
    BY <1>1, <2>2
  <2> QED
    BY <1>2, <2>1, <2>2
<1> DEFINE X == {x \in Around \X (2 .. 7) : Turns(b, s, x[1], x[2], v)}
           flipped == UNION {{Go(s, y[1], j) : j \in 1 .. y[2] - 1} : y \in X}
           trained == UNION {{Go(s, d, j) : j \in 1 .. run(d)} :
                               d \in {x \in Around : own(x)}}
<1>4. Oth!Flipped(b, s, v) = flipped
  BY OthDirections DEF Oth!Flipped, Turns
<1>5. UNION {{Oth!Go(s, d, j) : j \in 1 .. Oth!TrainRun(t, s, d)} :
               d \in {x \in Around : Oth!TrainEndsOwn(t, s, x)}} = trained
  BY OthDirections DEF run, own
<1>6. ASSUME NEW c \in flipped PROVE c \in trained
  <2>1. PICK y \in X : \E j \in 1 .. y[2] - 1 : c = Go(s, y[1], j)
    BY <1>6
  <2>2. y[1] \in Around /\ y[2] \in 2 .. 7 /\ Turns(b, s, y[1], y[2], v)
    BY <2>1
  <2>3. run(y[1]) = y[2] - 1 /\ own(y[1])
    BY <1>1, <2>2
  <2> QED
    BY <2>1, <2>2, <2>3
<1>7. ASSUME NEW c \in trained PROVE c \in flipped
  <2>1. PICK d \in Around : own(d) /\ \E j \in 1 .. run(d) : c = Go(s, d, j)
    BY <1>7
  <2>2. run(d) + 1 \in 2 .. 7 /\ run(d) = (run(d) + 1) - 1
    BY <1>1, <2>1
  <2>3. Turns(b, s, d, run(d) + 1, v)
    BY <1>1, <2>1, <2>2
  <2>4. <<d, run(d) + 1>> \in X
    BY <2>2, <2>3
  <2>5. c \in {Go(s, <<d, run(d) + 1>>[1], j) : j \in 1 .. <<d, run(d) + 1>>[2] - 1}
    BY <2>1, <2>2
  <2> HIDE DEF X
  <2> QED
    BY <2>4, <2>5
<1>8. flipped = trained
  BY <1>6, <1>7
<1> HIDE DEF flipped, trained
<1> QED
  BY <1>3, <1>4, <1>5, <1>8

(* No empty square takes a stone of this value.                            *)
Blocked(b, v) == \A s \in Squares(8) : At(b, s) = 0 => ~ Oth!IsValidMove(b, s, v)

(* The game server's tests of Othello in terms of blocked colours.         *)
LEMMA OthelloServer ==
  ASSUME NEW p
  PROVE  /\ Oth!ValidMoves(p) = {} <=> Blocked(p.board, Oth!Stone(p.player))
         /\ Oth!IsGameOver(p) <=> \/ p.passes >= 2 \/ Full(p.board)
                                  \/ (Blocked(p.board, 1) /\ Blocked(p.board, -1))
<1>1. \A w : Oth!HasValidMoves(p.board, w) <=> ~ Blocked(p.board, Oth!Stone(w))
  BY OthGrid DEF Oth!HasValidMoves, Blocked
<1>2. Oth!Stone(0) = 1 /\ Oth!Stone(1) = -1
  BY DEF Oth!Stone
<1>3. Oth!ValidMoves(p) = {} <=> Blocked(p.board, Oth!Stone(p.player))
  BY OthGrid DEF Oth!ValidMoves, Blocked
<1>4. Oth!IsGameOver(p) <=> \/ p.passes >= 2 \/ Full(p.board)
                            \/ (Blocked(p.board, 1) /\ Blocked(p.board, -1))
  BY <1>1, <1>2, OthGrid DEF Oth!IsGameOver
<1> QED
  BY <1>3, <1>4

(* The training code's tests of Othello in terms of blocked colours.       *)
LEMMA OthelloTrained ==
  ASSUME NEW t \in [board : Boards(8, Stones), player : {1, -1}]
  PROVE  /\ Oth!TrainValidMoves(t)
              = {s \in Squares(8) : At(t.board, s) = 0
                                      /\ Oth!IsValidMove(t.board, s, t.player)}
         /\ Oth!TrainValidMoves(t) = {} <=> Blocked(t.board, t.player)
         /\ Oth!TrainIsGameOver(t) <=>
              Full(t.board) \/ (Blocked(t.board, 1) /\ Blocked(t.board, -1))
<1>1. ASSUME NEW u \in [board : Boards(8, Stones), player : {1, -1}]
      PROVE  Oth!TrainValidMoves(u)
               = {s \in Squares(8) : At(u.board, s) = 0
                                      /\ Oth!IsValidMove(u.board, s, u.player)}
  <2>1. ASSUME NEW s \in Squares(8)
        PROVE  (\E d \in Around : Oth!TrainCanFlip(u, s, d)) <=>
                 \E d \in Around : Oth!CanFlipInDirection(u.board, s, d, u.player)
    BY OthelloMoves
  <2> QED
    BY <2>1, OthGrid, OthDirections DEF Oth!TrainValidMoves, Oth!IsValidMove
<1>2. ASSUME NEW u \in [board : Boards(8, Stones), player : {1, -1}]
      PROVE  Oth!TrainValidMoves(u) = {} <=> Blocked(u.board, u.player)
  BY <1>1 DEF Blocked
<1>3. /\ Oth!TrainPass(t) \in [board : Boards(8, Stones), player : {1, -1}]
      /\ Oth!TrainPass(t).board = t.board /\ Oth!TrainPass(t).player = -t.player
  BY DEF Oth!TrainPass
<1>4. Oth!TrainIsGameOver(t) <=>
        Full(t.board) \/ (Blocked(t.board, t.player) /\ Blocked(t.board, -t.player))
  <2>1. Oth!TrainValidMoves(Oth!TrainPass(t)) = {} <=> Blocked(t.board, -t.player)
    <3> DEFINE u == Oth!TrainPass(t)
    <3>1. Oth!TrainValidMoves(u) = {} <=> Blocked(u.board, u.player)
      BY <1>2, <1>3
    <3> QED
      BY <1>3, <3>1
  <2>2. Oth!TrainValidMoves(t) = {} <=> Blocked(t.board, t.player)
    BY <1>2
  <2>3. Oth!Full(t.board) <=> Full(t.board)
    BY OthGrid
  <2> QED
    BY <2>1, <2>2, <2>3 DEF Oth!TrainIsGameOver
<1>5. ASSUME NEW v \in {1, -1}
      PROVE  (Blocked(t.board, v) /\ Blocked(t.board, -v)) <=>
               (Blocked(t.board, 1) /\ Blocked(t.board, -1))
  <2>1. (v = 1 /\ -v = -1) \/ (v = -1 /\ -v = 1)
    OBVIOUS
  <2> QED
    BY <2>1
<1>6. Oth!TrainIsGameOver(t) <=>
        Full(t.board) \/ (Blocked(t.board, 1) /\ Blocked(t.board, -1))
  <2>1. t.player \in {1, -1}
    OBVIOUS
  <2> QED
    BY <1>4, <1>5, <2>1
<1> QED
  BY <1>1, <1>2, <1>6

(* Turning stones leaves a board of stones.                                *)
LEMMA CoverIs ==
  ASSUME NEW b \in Boards(8, Stones), NEW cells, NEW v \in Stones
  PROVE  Oth!Cover(b, cells, v) \in Boards(8, Stones)
BY DEF Boards, Oth!Cover

OthInv ==
  game = "Othello" =>
    /\ server \in [board : Boards(8, Stones), player : {0, 1}, passes : {0, 1}]
    /\ train \in [board : Boards(8, Stones), player : {1, -1}]
    /\ over <=> Oth!IsGameOver(server)
    /\ winner = Oth!GetWinner(server)
    /\ ~ over /\ server.passes = 1
         => ~ Blocked(server.board, Oth!Stone(server.player))
    /\ StonesInStep

(* Othello starts with the same four stones on both sides.                 *)
LEMMA OthInit ==
  ASSUME Init, game = "Othello"
  PROVE  OthInv
<1>1. /\ server = [board |-> Oth!Centre, player |-> 0, passes |-> 0]
      /\ train = [board |-> Oth!Centre, player |-> 1]
      /\ ~ over /\ winner = {}
  BY OthelloOps, OthelloTraining DEF Init, Oth!Initial, Oth!TrainInitial
<1> DEFINE b == Oth!Centre
<1>2. /\ b = [r \in 0 .. 7 |-> [c \in 0 .. 7 |-> b[r][c]]]
      /\ \A r \in 0 .. 7 : \A c \in 0 .. 7 : b[r][c] =
           IF (r = 3 /\ c = 3) \/ (r = 4 /\ c = 4) THEN -1
           ELSE IF (r = 3 /\ c = 4) \/ (r = 4 /\ c = 3) THEN 1 ELSE 0
  <2> DEFINE cell(r, c) == CASE <<r, c>> \in {<<3, 3>>, <<4, 4>>} -> -1
                             [] <<r, c>> \in {<<3, 4>>, <<4, 3>>} -> 1
                             [] OTHER -> 0
  <2>1. b = [r \in 0 .. 7 |-> [c \in 0 .. 7 |-> cell(r, c)]]
    BY DEF Oth!Centre
  <2>2. ASSUME NEW r \in 0 .. 7, NEW c \in 0 .. 7
        PROVE  cell(r, c) = IF (r = 3 /\ c = 3) \/ (r = 4 /\ c = 4) THEN -1
                            ELSE IF (r = 3 /\ c = 4) \/ (r = 4 /\ c = 3) THEN 1 ELSE 0
    <3>1. /\ <<r, c>> \in {<<3, 3>>, <<4, 4>>} <=> ((r = 3 /\ c = 3) \/ (r = 4 /\ c = 4))
          /\ <<r, c>> \in {<<3, 4>>, <<4, 3>>} <=> ((r = 3 /\ c = 4) \/ (r = 4 /\ c = 3))
      <4>1. \A x, y : <<r, c>> = <<x, y>> <=> r = x /\ c = y
        OBVIOUS
      <4>2. \A x, y : <<r, c>> \in {x, y} <=> <<r, c>> = x \/ <<r, c>> = y
        OBVIOUS
      <4> QED
        BY <4>1, <4>2
    <3> QED
      BY <3>1
  <2> HIDE DEF cell, b
  <2> QED
    BY <2>1, <2>2
<1> HIDE DEF b
<1>3. b \in Boards(8, Stones)
  BY <1>2 DEF Boards, Stones
<1>4. ~ Full(b)
  <2>1. b[0][0] = 0 /\ <<0, 0>> \in Squares(8)
    BY <1>2 DEF Squares
  <2>2. At(b, <<0, 0>>) = 0
    BY <2>1 DEF At
  <2> QED
    BY <1>3, <2>1, <2>2, FullMeans
<1>5. ~ Blocked(b, 1)
  <2>1. /\ Go(<<3, 2>>, <<0, 1>>, 1) = <<3, 3>>
        /\ Go(<<3, 2>>, <<0, 1>>, 2) = <<3, 4>>
        /\ <<3, 2>> \in Squares(8) /\ <<0, 1>> \in Around
    <3>1. /\ 3 + 1 * 0 = 3 /\ 3 + 2 * 0 = 3 /\ 2 + 1 * 1 = 3 /\ 2 + 2 * 1 = 4
      OBVIOUS
    <3>2. /\ Go(<<3, 2>>, <<0, 1>>, 1) = <<3, 3>>
          /\ Go(<<3, 2>>, <<0, 1>>, 2) = <<3, 4>>
      BY <3>1 DEF Go
    <3>3. <<3, 2>> \in Squares(8)
      BY DEF Squares
    <3>4. <<0, 1>> \in Around
      BY DEF Around
    <3> QED
      BY <3>2, <3>3, <3>4
  <2>2. At(b, <<3, 2>>) = 0 /\ At(b, <<3, 3>>) = -1 /\ At(b, <<3, 4>>) = 1
    BY <1>2 DEF At
  <2>3. On(b, <<3, 4>>)
    BY <1>2 DEF On
  <2>4. \A j \in 1 .. 2 - 1 : j = 1
    OBVIOUS
  <2>5. Oth!CanFlipInDirection(b, <<3, 2>>, <<0, 1>>, 1)
    BY <2>1, <2>2, <2>3, <2>4, OthDirections DEF Oth!CanFlipInDirection
  <2> QED
    BY <2>1, <2>2, <2>5, OthGrid, OthDirections DEF Blocked, Oth!IsValidMove
<1>6. server.board = b /\ server.passes = 0 /\ server.player = 0
  BY <1>1 DEF b
<1>7. ~ Oth!IsGameOver(server)
  BY <1>4, <1>5, <1>6, OthelloServer
<1>8. /\ server \in [board : Boards(8, Stones), player : {0, 1}, passes : {0, 1}]
      /\ train \in [board : Boards(8, Stones), player : {1, -1}]
      /\ train.board = b /\ train.player = 1
  BY <1>1, <1>3 DEF b
<1> QED
  BY <1>1, <1>6, <1>7, <1>8 DEF OthInv, StonesInStep, Seat, Oth!GetWinner

(* A turn of Othello, a pass included, keeps its invariant.                *)
LEMMA OthStep ==
  ASSUME game = "Othello", OthInv, Turn
  PROVE  OthInv'
<1>1. /\ server \in [board : Boards(8, Stones), player : {0, 1}, passes : {0, 1}]
      /\ train \in [board : Boards(8, Stones), player : {1, -1}]
      /\ ~ over /\ StonesInStep /\ server.player \in {0, 1}
      /\ server.passes = 1 => ~ Blocked(server.board, Oth!Stone(server.player))
  BY DEF OthInv, Turn
<1>2. PICK m \in Select(game, server) :
        Makes(MakeMove(game, server, m)) /\ Follows(m)
  BY TurnIs DEF Games
<1> DEFINE v == Oth!Stone(server.player)
           made == MakeMove(game, server, m)
<1>3. v \in {1, -1} /\ v = Seat(server.player) /\ v \in Stones
  BY <1>1 DEF Oth!Stone, Seat, Stones
<1>4. m \in IF Oth!ValidMoves(server) = {} THEN {Oth!Pass} ELSE Oth!ValidMoves(server)
  BY OthelloOps DEF SelectOthello
(* What the move does to the two boards.                                   *)
<1>5. /\ made \in [board : Boards(8, Stones), player : {0, 1}, passes : {0, 1}]
      /\ made.player = server.player
      /\ made.passes = 1 => Blocked(made.board, v)
      /\ train' \in [board : Boards(8, Stones), player : {1, -1}]
      /\ together' => /\ together /\ train'.board = made.board
                      /\ train'.player = -train.player
  <2>1. CASE m = Oth!Pass /\ Oth!ValidMoves(server) = {}
    <3>1. Blocked(server.board, v) /\ server.passes = 0
      BY <1>1, <2>1, OthelloServer
    <3>2. made = [server EXCEPT !.passes = @ + 1]
      BY <2>1, OthelloOps DEF Oth!MakeMove
    <3>3. /\ made \in [board : Boards(8, Stones), player : {0, 1}, passes : {0, 1}]
          /\ made.player = server.player /\ made.board = server.board
      BY <1>1, <3>1, <3>2
    <3>4. together' => together /\ train' = [train EXCEPT !.player = -@]
      BY <1>2, <2>1, OthelloTraining DEF Follows, Oth!TrainPass
    <3>5. ~ together' => train' = train
      BY <1>2 DEF Follows
    <3> HIDE DEF made
    <3> QED
      BY <1>1, <3>1, <3>3, <3>4, <3>5 DEF StonesInStep
  <2>2. CASE m \in Oth!ValidMoves(server)
    <3>1. m \in Squares(8)
      BY <2>2, OthGrid DEF Oth!ValidMoves
    <3>2. m # Oth!Pass
      BY <3>1 DEF Squares, Oth!Pass
    <3> DEFINE cells == {m} \cup Oth!Flipped(server.board, m, v)
               b == Oth!Cover(server.board, cells, v)
    <3>3. made = [server EXCEPT !.board = b, !.passes = 0]
      BY <1>1, <3>2, OthelloOps DEF Oth!MakeMove
    <3>4. b \in Boards(8, Stones)
      BY <1>1, <1>3, CoverIs
    <3> HIDE DEF b
    <3>5. /\ made \in [board : Boards(8, Stones), player : {0, 1}, passes : {0, 1}]
          /\ made.player = server.player /\ made.board = b /\ made.passes = 0
      BY <1>1, <3>3, <3>4
    <3> DEFINE turned == UNION {{Oth!Go(m, d, j) : j \in 1 .. Oth!TrainRun(train, m, d)} :
                                  d \in {x \in Around : Oth!TrainEndsOwn(train, m, x)}}
               c == Oth!Cover(train.board, {m} \cup turned, train.player)
    <3>6. together' => together /\ train' = [board |-> c, player |-> -train.player]
      BY <1>2, <3>2, OthelloTraining, OthDirections DEF Follows, Oth!TrainMakeMove
    <3>7. turned = Oth!Flipped(train.board, m, train.player)
      BY <1>1, <3>1, OthelloMoves
    <3> HIDE DEF turned
    <3>8. c \in Boards(8, Stones)
      BY <1>1, CoverIs DEF Stones
    <3>9. together => c = b
      BY <1>1, <1>3, <3>7 DEF b, StonesInStep
    <3>10. ~ together' => train' = train
      BY <1>2 DEF Follows
    <3> HIDE DEF made, c
    <3>11. [board |-> c, player |-> -train.player] \in [board : Boards(8, Stones), player : {1, -1}]
      BY <1>1, <3>8
    <3> QED
      BY <1>1, <3>5, <3>6, <3>9, <3>10, <3>11
  <2> QED
    BY <1>4, <2>1, <2>2
<1> HIDE DEF made
<1>6. /\ NextTurn(made) \in [board : Boards(8, Stones), player : {0, 1}, passes : {0, 1}]
      /\ NextTurn(made).board = made.board /\ NextTurn(made).passes = made.passes
      /\ NextTurn(made).player = (server.player + 1) % 2
  <2>1. (server.player + 1) % 2 \in {0, 1}
    BY <1>1
  <2> QED
    BY <1>5, <2>1 DEF NextTurn
<1>7. Oth!IsGameOver(made) <=> Oth!IsGameOver(NextTurn(made))
  BY <1>5, <1>6, OthelloServer
<1>8. CASE Oth!IsGameOver(made)
  <2>1. server' = made /\ over' /\ winner' = Oth!GetWinner(made)
    BY <1>2, <1>8, OthelloOps DEF Makes, made
  <2>2. StonesInStep'
    BY <1>1, <1>5, <2>1, StepInStep
  <2> QED
    BY <2>1, <2>2, <1>5, <1>8 DEF OthInv
<1>9. CASE ~ Oth!IsGameOver(made)
  <2>1. server' = NextTurn(made) /\ ~ over' /\ winner' = {}
    BY <1>2, <1>9, OthelloOps DEF Makes, made
  <2>2. StonesInStep'
    BY <1>1, <1>5, <1>6, <2>1, StepInStep
  <2>3. Oth!GetWinner(server') = {} /\ ~ Oth!IsGameOver(server')
    BY <1>7, <1>9, <2>1 DEF Oth!GetWinner
  <2>4. made.passes = 1 => ~ Blocked(made.board, Oth!Stone((server.player + 1) % 2))
    <3>1. ~ (Blocked(made.board, 1) /\ Blocked(made.board, -1))
      BY <1>9, OthelloServer
    <3>2. Oth!Stone((server.player + 1) % 2) = -v
      BY <1>1 DEF Oth!Stone
    <3>3. v = 1 \/ (v = -1 /\ -v = 1)
      BY <1>3
    <3> HIDE DEF v
    <3> QED
      BY <1>5, <3>1, <3>2, <3>3
  <2> QED
    BY <2>1, <2>2, <2>3, <2>4, <1>5, <1>6 DEF OthInv
<1> QED
  BY <1>8, <1>9

(* The chess server's geometry is the grid's.                              *)
LEMMA ChsGeometry ==
  /\ \A x : Chs!Size(x) = Size(x)
  /\ \A s, t : Chs!Rows(s, t) = Rows(s, t) /\ Chs!Columns(s, t) = Columns(s, t)
  /\ \A s, t : Chs!Straight(s, t) <=> Straight(s, t)
  /\ \A s, t : Chs!Diagonal(s, t) <=> Diagonal(s, t)
  /\ \A s, t : Chs!Leap(s, t) <=> Leap(s, t)
  /\ \A s, t : Chs!Step(s, t) <=> Step(s, t)
  /\ \A b, s, t : Chs!Clear(b, s, t) <=> Clear(b, s, t)
BY DEF Chs!Size, Size, Chs!Rows, Rows, Chs!Columns, Columns,
       Chs!Straight, Straight, Chs!Diagonal, Diagonal, Chs!Leap, Leap,
       Chs!Step, Step, Chs!Clear, Clear, Chs!Sign, Sign, Chs!At, At,
       Chs!Go, Go

Pieces == -6 .. 6
Men == Boards(8, Pieces)
Own(b, s, white) == At(b, s) # 0 /\ ((At(b, s) > 0) <=> white)

(* A valid move, taken apart.                                              *)
LEMMA ChessMoveIs ==
  ASSUME NEW p, p.board \in Men, p.player \in {0, 1}, NEW m
  PROVE  m \in Chs!ValidMoves(p) <=>
           \E s \in Squares(8) : \E t \in Chs!PieceMoves(p, s) :
             \E q \in Chs!Promotions(p, s, t) :
               /\ m = <<s, t, q>>
               /\ Own(p.board, s, p.player = 0)
               /\ ~ Chs!WouldBeInCheckAfterMove(p, s, t, p.player = 0)
<1> DEFINE white == p.player = 0
           own == {s \in Squares(8) : At(p.board, s) # 0
                                        /\ Chs!IsWhite(At(p.board, s)) = white}
<1>1. \A s \in Squares(8) : s \in own <=> Own(p.board, s, white)
  BY DEF Own, Chs!IsWhite
<1>2. Chs!ValidMoves(p)
        = UNION {UNION {{<<s, t, q>> : q \in Chs!Promotions(p, s, t)} :
                     t \in {u \in Chs!PieceMoves(p, s) :
                              ~ Chs!WouldBeInCheckAfterMove(p, s, u, white)}} :
              s \in own}
  BY ChsGrid DEF Chs!ValidMoves
<1>3. own \subseteq Squares(8)
  OBVIOUS
<1> HIDE DEF own, white
<1>4. m \in Chs!ValidMoves(p) <=>
        \E s \in own : \E t \in Chs!PieceMoves(p, s) :
          /\ ~ Chs!WouldBeInCheckAfterMove(p, s, t, white)
          /\ \E q \in Chs!Promotions(p, s, t) : m = <<s, t, q>>
  <2> DEFINE safe(s) == {u \in Chs!PieceMoves(p, s) :
                           ~ Chs!WouldBeInCheckAfterMove(p, s, u, white)}
             named(s, t) == {<<s, t, q>> : q \in Chs!Promotions(p, s, t)}
             from(s) == UNION {named(s, t) : t \in safe(s)}
  <2>1. \A s, t : m \in named(s, t) <=> \E q \in Chs!Promotions(p, s, t) : m = <<s, t, q>>
    OBVIOUS
  <2>2. Chs!ValidMoves(p) = UNION {from(s) : s \in own}
    BY <1>2
  <2> HIDE DEF named
  <2>3. \A s : m \in from(s) <=> \E t \in safe(s) : m \in named(s, t)
    OBVIOUS
  <2> HIDE DEF from
  <2>4. m \in Chs!ValidMoves(p) <=> \E s \in own : m \in from(s)
    BY <2>2
  <2> QED
    BY <2>1, <2>3, <2>4
<1> QED
  BY <1>1, <1>3, <1>4 DEF white

(* What a chess move changes, square by square.                            *)
Forward(white) == IF white THEN 1 ELSE -1
Man(b, s) == Size(At(b, s))
Passed(p, m) ==
  {<<m[2][1] - Forward(p.player = 0), m[2][2]>> :
     e \in {x \in p.ep : Man(p.board, m[1]) = 1 /\ x = m[2]}}
Castling(p, m) == Man(p.board, m[1]) = 6 /\ Size(Columns(m[1], m[2])) = 2
Corner(m) == <<m[1][1], IF m[2][2] = 6 THEN 7 ELSE 0>>
Beside(m) == <<m[1][1], IF m[2][2] = 6 THEN 5 ELSE 3>>
Placed(p, m) ==
  IF m[3] # 0 /\ Man(p.board, m[1]) = 1 /\ m[2][1] \in {0, 7}
  THEN m[3] * Forward(p.player = 0) ELSE At(p.board, m[1])

(* The board after a chess move, square by square.                         *)
LEMMA MovedIs ==
  ASSUME NEW p, NEW m, m[1] \in Squares(8), m[2] \in Squares(8), m[1] # m[2],
         Castling(p, m) =>
           m[1][2] = 4 /\ m[2][1] = m[1][1] /\ m[2][2] \in {2, 6}
  PROVE  /\ \A values :
              (\A x \in Squares(8) : At(Chs!Moved(p, m), x) \in values)
                => Chs!Moved(p, m) \in Boards(8, values)
         /\ \A x \in Squares(8) :
              At(Chs!Moved(p, m), x) =
                IF x = m[2] THEN Placed(p, m)
                ELSE IF x = m[1] \/ x \in Passed(p, m) THEN 0
                ELSE IF Castling(p, m) /\ x = Corner(m) THEN 0
                ELSE IF Castling(p, m) /\ x = Beside(m) THEN At(p.board, Corner(m))
                ELSE At(p.board, x)
<1> DEFINE cell(x) ==
             IF x = m[2] THEN Placed(p, m)
             ELSE IF x = m[1] \/ x \in Passed(p, m) THEN 0
             ELSE IF Castling(p, m) /\ x = Corner(m) THEN 0
             ELSE IF Castling(p, m) /\ x = Beside(m) THEN At(p.board, Corner(m))
             ELSE At(p.board, x)
           d(r, c) ==
             CASE <<r, c>> = m[2] -> Placed(p, m)
               [] <<r, c>> = m[1] -> 0
               [] <<r, c>> \in Passed(p, m) -> 0
               [] Castling(p, m) /\ <<r, c>> = Corner(m) -> 0
               [] Castling(p, m) /\ <<r, c>> = Beside(m) -> At(p.board, Corner(m))
               [] OTHER -> p.board[r][c]
           b == Chs!Moved(p, m)
<1>1. b = [r \in 0 .. 7 |-> [c \in 0 .. 7 |-> d(r, c)]]
  BY ChsGrid, ChsGeometry
  DEF Chs!Moved, Placed, Passed, Castling, Corner, Beside, Man, Forward,
      Chs!Forward, Chs!Pawn, Chs!King
<1> HIDE DEF b, d
<1>2. \A x \in Squares(8) : b[x[1]][x[2]] = d(x[1], x[2])
  BY <1>1 DEF Squares
<1>3. ASSUME NEW x \in Squares(8) PROVE d(x[1], x[2]) = cell(x)
  <2>1. <<x[1], x[2]>> = x /\ p.board[x[1]][x[2]] = At(p.board, x)
    BY DEF Squares, At
  <2>2. m[2] \notin Passed(p, m)
    <3>1. m[2][1] \in Int /\ m[2][1] - 1 # m[2][1] /\ m[2][1] - (-1) # m[2][1]
      BY DEF Squares
    <3> QED
      BY <3>1 DEF Passed, Forward
  <2>3. Castling(p, m) => Passed(p, m) = {}
    BY DEF Castling, Passed
  <2>4. Castling(p, m) =>
          /\ Corner(m) # m[1] /\ Corner(m) # m[2] /\ Corner(m) # Beside(m)
          /\ Beside(m) # m[1] /\ Beside(m) # m[2]
    BY DEF Corner, Beside
  <2> DEFINE E == CASE x = m[2] -> Placed(p, m)
                    [] x = m[1] -> 0
                    [] x \in Passed(p, m) -> 0
                    [] Castling(p, m) /\ x = Corner(m) -> 0
                    [] Castling(p, m) /\ x = Beside(m) -> At(p.board, Corner(m))
                    [] OTHER -> At(p.board, x)
  <2>5. d(x[1], x[2]) = E
    BY <2>1, Zenon DEF d
  <2>6. CASE x = m[2]
    BY <2>2, <2>3, <2>4, <2>5, <2>6
  <2>7. CASE x = m[1]
    BY <2>2, <2>3, <2>4, <2>5, <2>7
  <2>8. CASE x \in Passed(p, m)
    BY <2>2, <2>3, <2>4, <2>5, <2>8
  <2>9. CASE x # m[2] /\ x # m[1] /\ x \notin Passed(p, m)
    BY <2>4, <2>5, <2>9
  <2> QED
    BY <2>6, <2>7, <2>8, <2>9
<1>4. ASSUME NEW values, \A x \in Squares(8) : At(b, x) \in values
      PROVE  b \in Boards(8, values)
  <2>1. ASSUME NEW r \in 0 .. 7, NEW c \in 0 .. 7 PROVE d(r, c) \in values
    <3>1. <<r, c>> \in Squares(8)
      BY DEF Squares
    <3>2. At(b, <<r, c>>) = d(r, c)
      BY <1>1 DEF At
    <3> QED
      BY <1>4, <3>1, <3>2
  <2> QED
    BY <1>1, <2>1 DEF Boards
<1>5. \A x \in Squares(8) : At(b, x) = cell(x)
  BY <1>2, <1>3 DEF At
<1> QED
  BY <1>4, <1>5 DEF b

Row(white) == IF white THEN 0 ELSE 7

(* A chess game as the game server keeps it.  A king that has not moved    *)
(* stands on its home square, whatever the flags of the rooks say.         *)
KingHome(p) ==
  \A s \in Squares(8) : \A w \in BOOLEAN :
    At(p.board, s) = 6 * Forward(w) /\ ~ p.kingMoved[w] => s = <<Row(w), 4>>

ChessPosition(p) ==
  /\ p \in [board : Men, player : {0, 1}, kingMoved : [BOOLEAN -> BOOLEAN],
            rookMoved : [BOOLEAN -> SUBSET {0, 7}], ep : SUBSET Squares(8),
            clock : 0 .. 50]
  /\ p.ep = {} \/ \E e \in Squares(8) : p.ep = {e} /\ e[1] \in {2, 5}
  /\ KingHome(p)

PawnSteps(s, t, white) ==
  \/ /\ t[1] = s[1] + Forward(white)
     /\ t[2] \in {s[2] - 1, s[2], s[2] + 1}
  \/ /\ s[1] = IF white THEN 1 ELSE 6
     /\ t[1] = s[1] + 2 * Forward(white) /\ t[2] = s[2]

(* A square holds nothing or a piece of one colour.                        *)
LEMMA ManIs ==
  ASSUME NEW b \in Men, NEW s \in Squares(8)
  PROVE  /\ At(b, s) \in Pieces /\ Man(b, s) \in 0 .. 6
         /\ At(b, s) = 0 <=> Man(b, s) = 0
         /\ \A white \in BOOLEAN : Own(b, s, white) =>
              /\ Chs!IsWhite(At(b, s)) <=> white
              /\ At(b, s) = Man(b, s) * Forward(white) /\ Man(b, s) # 0
<1>1. At(b, s) \in -6 .. 6
  BY DEF Men, Boards, Pieces, Squares, At
<1> QED
  BY <1>1 DEF Man, Size, Own, Forward, Chs!IsWhite, Pieces

(* Pieces move along lines or leap; only castling takes a king two files.  *)
LEMMA ReachesIs ==
  ASSUME NEW p, p.board \in Men, NEW s \in Squares(8), NEW t \in Squares(8),
         NEW white \in BOOLEAN, Own(p.board, s, white), Chs!Reaches(p, s, t)
  PROVE  /\ s # t
         /\ Straight(s, t) \/ Diagonal(s, t) \/ Leap(s, t)
         /\ Man(p.board, s) = 1 => PawnSteps(s, t, white)
         /\ Man(p.board, s) = 6 => Size(Columns(s, t)) # 2
<1>1. /\ s[1] \in 0 .. 7 /\ s[2] \in 0 .. 7 /\ t[1] \in 0 .. 7 /\ t[2] \in 0 .. 7
      /\ s = <<s[1], s[2]>> /\ t = <<t[1], t[2]>>
  BY DEF Squares
<1>2. Chs!IsWhite(At(p.board, s)) <=> white
  BY ManIs
<1>3. CASE Man(p.board, s) = 1
  <2>1. Chs!PawnReaches(p, s, t, Chs!IsWhite(At(p.board, s)))
    BY <1>3, ChsGeometry, ChsGrid DEF Chs!Reaches, Man, Chs!Pawn
  <2>2. PawnSteps(s, t, white)
    <3>1. Rows(s, t) = t[1] - s[1] /\ Columns(s, t) = t[2] - s[2]
      BY DEF Rows, Columns
    <3>2. CASE white
      BY <1>1, <1>2, <2>1, <3>1, <3>2, ChsGeometry
      DEF Chs!PawnReaches, PawnSteps, Chs!Forward, Forward, Size
    <3>3. CASE ~ white
      BY <1>1, <1>2, <2>1, <3>1, <3>3, ChsGeometry
      DEF Chs!PawnReaches, PawnSteps, Chs!Forward, Forward, Size
    <3> QED
      BY <3>2, <3>3
  <2>3. s # t /\ (Straight(s, t) \/ Diagonal(s, t))
    BY <1>1, <2>2
    DEF PawnSteps, Straight, Diagonal, Rows, Columns, Size, Forward
  <2> QED
    BY <1>3, <2>2, <2>3
<1>4. CASE Man(p.board, s) # 1
  <2>1. \/ Man(p.board, s) = 2 /\ Leap(s, t)
        \/ Man(p.board, s) = 6 /\ Step(s, t)
        \/ Man(p.board, s) # 6 /\ Diagonal(s, t)
        \/ Man(p.board, s) # 6 /\ Straight(s, t)
    BY <1>4, ChsGeometry, ChsGrid
    DEF Chs!Reaches, Man, Chs!Pawn, Chs!Knight, Chs!Bishop, Chs!Rook, Chs!Queen, Chs!King
  <2>2. Step(s, t) => /\ Straight(s, t) \/ Diagonal(s, t)
                      /\ Size(Columns(s, t)) # 2
    BY <1>1 DEF Step, Straight, Diagonal, Rows, Columns, Size
  <2>3. Straight(s, t) \/ Diagonal(s, t) \/ Leap(s, t) => s # t
    BY <1>1 DEF Leap, Straight, Diagonal, Rows, Columns, Size
  <2> QED
    BY <1>4, <2>1, <2>2, <2>3
<1> QED
  BY <1>3, <1>4

(* A move of a chess game as the pieces go, and a valid one.               *)
ChessStep(p, m) ==
  LET white == p.player = 0
  IN /\ m = <<m[1], m[2], m[3]>> /\ m[1] \in Squares(8) /\ m[2] \in Squares(8)
     /\ m[1] # m[2] /\ Own(p.board, m[1], white)
     /\ Straight(m[1], m[2]) \/ Diagonal(m[1], m[2]) \/ Leap(m[1], m[2])
     /\ Man(p.board, m[1]) = 1 => PawnSteps(m[1], m[2], white)
     /\ Castling(p, m) =>
          /\ m[1] = <<Row(white), 4>> /\ m[2] \in {<<Row(white), 2>>, <<Row(white), 6>>}
          /\ m[2] \in Chs!CastlingMoves(p, white)
     /\ ~ Castling(p, m) => Chs!Reaches(p, m[1], m[2])
     /\ m[3] \in IF Man(p.board, m[1]) = 1 /\ m[2][1] \in {0, 7} THEN 2 .. 5 ELSE {0}
ChessMove(p, m) ==
  ChessStep(p, m) /\ ~ Chs!WouldBeInCheckAfterMove(p, m[1], m[2], p.player = 0)

(* Every move of get_valid_moves has these properties.                     *)
LEMMA ValidIsChessMove ==
  ASSUME NEW p, ChessPosition(p), NEW m \in Chs!ValidMoves(p)
  PROVE  ChessMove(p, m)
<1> DEFINE white == p.player = 0
<1>1. p.board \in Men /\ p.player \in {0, 1} /\ white \in BOOLEAN
  BY DEF ChessPosition
<1>2. PICK s, t, q :
        /\ s \in Squares(8)
        /\ t \in Chs!PieceMoves(p, s) /\ q \in Chs!Promotions(p, s, t)
        /\ m = <<s, t, q>> /\ Own(p.board, s, white)
        /\ ~ Chs!WouldBeInCheckAfterMove(p, s, t, white)
  BY <1>1, ChessMoveIs
<1>3. m[1] = s /\ m[2] = t /\ m[3] = q
  BY <1>2
<1>4. Chs!IsWhite(At(p.board, s)) <=> white
  BY <1>1, <1>2, ManIs
<1> HIDE DEF white
<1>5. q \in IF Man(p.board, s) = 1 /\ t[1] \in {0, 7} THEN 2 .. 5 ELSE {0}
  BY <1>2, ChsGeometry, ChsGrid DEF Chs!Promotions, Man, Chs!Pawn
<1>6. \/ t \in Squares(8) /\ Chs!Reaches(p, s, t)
      \/ Man(p.board, s) = 6 /\ t \in Chs!CastlingMoves(p, white)
  <2>1. t \in {u \in Squares(8) : Chs!Reaches(p, s, u)}
          \cup IF Man(p.board, s) = 6
               THEN Chs!CastlingMoves(p, Chs!IsWhite(At(p.board, s))) ELSE {}
    BY <1>2, ChsGeometry, ChsGrid DEF Chs!PieceMoves, Man, Chs!King
  <2>2. Chs!CastlingMoves(p, Chs!IsWhite(At(p.board, s))) = Chs!CastlingMoves(p, white)
    <3>1. Chs!IsWhite(At(p.board, s)) \in BOOLEAN
      BY DEF Chs!IsWhite
    <3>2. Chs!IsWhite(At(p.board, s)) = white
      BY <1>1, <1>4, <3>1
    <3> QED
      BY <3>2
  <2> QED
    BY <2>1, <2>2
<1>7. CASE t \in Squares(8) /\ Chs!Reaches(p, s, t)
  <2>1. /\ s # t
        /\ Straight(s, t) \/ Diagonal(s, t) \/ Leap(s, t)
        /\ Man(p.board, s) = 1 => PawnSteps(s, t, white)
        /\ Man(p.board, s) = 6 => Size(Columns(s, t)) # 2
    BY <1>1, <1>2, <1>7, ReachesIs
  <2>2. ~ Castling(p, m)
    BY <1>3, <2>1 DEF Castling
  <2> QED
    BY <1>2, <1>3, <1>5, <1>7, <2>1, <2>2 DEF ChessMove, ChessStep, white
<1>8. CASE Man(p.board, s) = 6 /\ t \in Chs!CastlingMoves(p, white)
  <2>1. ~ p.kingMoved[white] /\ t \in {<<Row(white), 2>>, <<Row(white), 6>>}
    BY <1>8 DEF Chs!CastlingMoves, Row
  <2>2. s = <<Row(white), 4>>
    <3>1. At(p.board, s) = 6 * Forward(white) /\ KingHome(p)
      BY <1>1, <1>2, <1>8, ManIs DEF ChessPosition
    <3> QED
      BY <1>1, <1>2, <2>1, <3>1 DEF KingHome
  <2>3. s # t /\ t \in Squares(8) /\ Straight(s, t) /\ Size(Columns(s, t)) = 2
    BY <2>1, <2>2 DEF Row, Squares, Straight, Rows, Columns, Size
  <2>4. Castling(p, m) /\ Man(p.board, s) # 1
    BY <1>3, <1>8, <2>3 DEF Castling
  <2> QED
    BY <1>2, <1>3, <1>5, <1>8, <2>1, <2>2, <2>3, <2>4 DEF ChessMove, ChessStep, white
<1> QED
  BY <1>6, <1>7, <1>8

(* A chess move, field by field.                                           *)
ChessMakes(p, m, white, n) ==
  /\ n.board = Chs!Moved(p, m) /\ n.player = p.player
  /\ n = [board |-> n.board, player |-> n.player, kingMoved |-> n.kingMoved,
          rookMoved |-> n.rookMoved, ep |-> n.ep, clock |-> n.clock]
  /\ n.kingMoved =
       [w \in BOOLEAN |-> p.kingMoved[w] \/ (w = white /\ Man(p.board, m[1]) = 6)]
  /\ n.rookMoved =
       [w \in BOOLEAN |->
          IF w = white /\ Man(p.board, m[1]) = 4
          THEN p.rookMoved[w] \cup ({m[1][2]} \cap {0, 7}) ELSE p.rookMoved[w]]
  /\ n.ep = IF Man(p.board, m[1]) = 1 /\ Size(Rows(m[1], m[2])) = 2
            THEN {<<(m[1][1] + m[2][1]) \div 2, m[1][2]>>} ELSE {}
  /\ n.clock \in {0, p.clock + 1}

(* _update_game_state, field by field.                                     *)
LEMMA ChessMade ==
  ASSUME NEW p, ChessPosition(p), NEW m, ChessMove(p, m), NEW white \in BOOLEAN,
         white <=> (p.player = 0), NEW n, n = Chs!MakeMove(p, m)
  PROVE  ChessMakes(p, m, white, n)
<1>1. /\ p = [board |-> p.board, player |-> p.player, kingMoved |-> p.kingMoved,
              rookMoved |-> p.rookMoved, ep |-> p.ep, clock |-> p.clock]
      /\ p.kingMoved \in [BOOLEAN -> BOOLEAN] /\ p.rookMoved \in [BOOLEAN -> SUBSET {0, 7}]
      /\ p.board \in Men
  BY DEF ChessPosition
<1>2. Chs!IsWhite(At(p.board, m[1])) = white
  <2>1. Chs!IsWhite(At(p.board, m[1])) \in BOOLEAN
    BY DEF Chs!IsWhite
  <2>2. Own(p.board, m[1], white) /\ m[1] \in Squares(8)
    BY DEF ChessMove, ChessStep, Own
  <2> QED
    BY <1>1, <2>1, <2>2, ManIs
<1> DEFINE man == Man(p.board, m[1])
           from == m[1]
           to == m[2]
           taken == Chs!Captures(p, m)
<1>3. n = [p EXCEPT
        !.board = Chs!Moved(p, m),
        !.kingMoved[white] = @ \/ man = 6,
        !.rookMoved[white] =
           IF man = 4 THEN @ \cup ({from[2]} \cap {0, 7}) ELSE @,
        !.ep = IF man = 1 /\ Size(Rows(from, to)) = 2
               THEN {<<(from[1] + to[1]) \div 2, from[2]>>} ELSE {},
        !.clock = IF man = 1 \/ taken THEN 0 ELSE @ + 1]
  BY <1>2, ChsGrid, ChsGeometry DEF Chs!MakeMove, Man, Chs!King, Chs!Rook, Chs!Pawn
<1> HIDE DEF man, taken
<1>4. n = [board |-> Chs!Moved(p, m), player |-> p.player,
           kingMoved |-> [p.kingMoved EXCEPT ![white] = p.kingMoved[white] \/ man = 6],
           rookMoved |-> [p.rookMoved EXCEPT ![white] =
              IF man = 4 THEN p.rookMoved[white] \cup ({from[2]} \cap {0, 7})
              ELSE p.rookMoved[white]],
           ep |-> IF man = 1 /\ Size(Rows(from, to)) = 2
                  THEN {<<(from[1] + to[1]) \div 2, from[2]>>} ELSE {},
           clock |-> IF man = 1 \/ taken THEN 0 ELSE p.clock + 1]
  BY <1>1, <1>3
<1> DEFINE km == [p.kingMoved EXCEPT ![white] = p.kingMoved[white] \/ man = 6]
           rm == [p.rookMoved EXCEPT ![white] =
              IF man = 4 THEN p.rookMoved[white] \cup ({from[2]} \cap {0, 7})
              ELSE p.rookMoved[white]]
<1>5. km = [w \in BOOLEAN |-> p.kingMoved[w] \/ (w = white /\ man = 6)]
  BY <1>1
<1>6. rm = [w \in BOOLEAN |->
              IF w = white /\ man = 4
              THEN p.rookMoved[w] \cup ({from[2]} \cap {0, 7}) ELSE p.rookMoved[w]]
  BY <1>1
<1> QED
  BY <1>4, <1>5, <1>6 DEF man, ChessMakes

(* The board after a valid move.                                           *)
LEMMA MovedBoard ==
  ASSUME NEW p, ChessPosition(p), NEW m, ChessStep(p, m)
  PROVE  /\ Chs!Moved(p, m) \in Men
         /\ \A x \in Squares(8) :
              At(Chs!Moved(p, m), x) =
                IF x = m[2] THEN Placed(p, m)
                ELSE IF x = m[1] \/ x \in Passed(p, m) THEN 0
                ELSE IF Castling(p, m) /\ x = Corner(m) THEN 0
                ELSE IF Castling(p, m) /\ x = Beside(m) THEN At(p.board, Corner(m))
                ELSE At(p.board, x)
         /\ Corner(m) \in Squares(8)
         /\ Placed(p, m) \in Pieces
         /\ Man(p.board, m[1]) # 1 => Placed(p, m) = At(p.board, m[1])
         /\ Man(p.board, m[1]) = 1 => Size(Placed(p, m)) \in 1 .. 5
         /\ \A white \in BOOLEAN : Own(p.board, m[1], white) =>
              Placed(p, m) # 0 /\ (Placed(p, m) > 0 <=> white)
<1>1. /\ m[1] \in Squares(8) /\ m[2] \in Squares(8) /\ m[1] # m[2]
      /\ p.board \in Men /\ p.player \in {0, 1}
  BY DEF ChessMove, ChessStep, ChessPosition
<1>2. Castling(p, m) => m[1][2] = 4 /\ m[2][1] = m[1][1] /\ m[2][2] \in {2, 6}
  BY DEF ChessMove, ChessStep
<1>3. Corner(m) \in Squares(8)
  BY <1>1 DEF Corner, Squares
<1>4. m[3] \in 2 .. 5 \/ m[3] = 0
  BY DEF ChessMove, ChessStep
<1>5. At(p.board, m[1]) \in Pieces /\ Own(p.board, m[1], p.player = 0)
  BY <1>1, ManIs DEF ChessMove, ChessStep
<1>6. /\ Placed(p, m) \in Pieces
      /\ Man(p.board, m[1]) # 1 => Placed(p, m) = At(p.board, m[1])
      /\ Man(p.board, m[1]) = 1 => Size(Placed(p, m)) \in 1 .. 5
      /\ \A white \in BOOLEAN : Own(p.board, m[1], white) =>
           Placed(p, m) # 0 /\ (Placed(p, m) > 0 <=> white)
  <2>1. CASE Placed(p, m) = At(p.board, m[1])
    BY <1>5, <2>1 DEF Own, Pieces, Man, Size
  <2>2. CASE /\ m[3] \in 2 .. 5 /\ Man(p.board, m[1]) = 1
             /\ Placed(p, m) = m[3] * Forward(p.player = 0)
    <3>1. CASE p.player = 0
      BY <1>5, <2>2, <3>1 DEF Own, Pieces, Size, Forward
    <3>2. CASE p.player # 0
      BY <1>5, <2>2, <3>2 DEF Own, Pieces, Size, Forward
    <3> QED
      BY <3>1, <3>2
  <2> QED
    BY <1>4, <2>1, <2>2 DEF Placed
<1>7. \A x \in Squares(8) :
        At(Chs!Moved(p, m), x) =
          IF x = m[2] THEN Placed(p, m)
          ELSE IF x = m[1] \/ x \in Passed(p, m) THEN 0
          ELSE IF Castling(p, m) /\ x = Corner(m) THEN 0
          ELSE IF Castling(p, m) /\ x = Beside(m) THEN At(p.board, Corner(m))
          ELSE At(p.board, x)
  BY <1>1, <1>2, MovedIs
<1>8. \A x \in Squares(8) : At(Chs!Moved(p, m), x) \in Pieces
  <2>1. \A x \in Squares(8) : At(p.board, x) \in Pieces
    BY <1>1, ManIs
  <2>2. 0 \in Pieces
    BY DEF Pieces
  <2> QED
    BY <1>3, <1>6, <1>7, <2>1, <2>2
<1>9. Chs!Moved(p, m) \in Men
  BY <1>1, <1>2, <1>8, MovedIs DEF Men
<1> QED
  BY <1>3, <1>6, <1>7, <1>9

(* A valid move of a game that goes on leads to a chess position.          *)
LEMMA ChessPositionKept ==
  ASSUME NEW p, ChessPosition(p), NEW m, ChessMove(p, m), p.clock < 50
  PROVE  ChessPosition(Chs!MakeMove(p, m))
<1> DEFINE n == Chs!MakeMove(p, m)
<1>0. PICK white \in BOOLEAN : white <=> (p.player = 0)
  OBVIOUS
<1>1. /\ p.player \in {0, 1} /\ p.board \in Men
      /\ p.kingMoved \in [BOOLEAN -> BOOLEAN] /\ p.rookMoved \in [BOOLEAN -> SUBSET {0, 7}]
      /\ p.clock \in 0 .. 50 /\ KingHome(p)
  BY DEF ChessPosition
<1>2. /\ m[1] \in Squares(8) /\ m[2] \in Squares(8) /\ Own(p.board, m[1], white)
      /\ Man(p.board, m[1]) = 1 => PawnSteps(m[1], m[2], white)
  BY <1>0 DEF ChessMove, ChessStep, Own, PawnSteps, Forward
<1>3. ChessMakes(p, m, white, n)
  BY <1>0, ChessMade
<1> HIDE DEF n
<1>4. n.ep = {} \/ \E e \in Squares(8) : n.ep = {e} /\ e[1] \in {2, 5}
  <2>1. CASE Man(p.board, m[1]) = 1 /\ Size(Rows(m[1], m[2])) = 2
    <3> DEFINE e == <<(m[1][1] + m[2][1]) \div 2, m[1][2]>>
    <3>1. /\ m[1][1] \in 0 .. 7 /\ m[1][2] \in 0 .. 7 /\ m[2][1] \in 0 .. 7
          /\ m[2][1] - m[1][1] \in {2, -2}
      BY <1>2, <2>1 DEF Squares, Rows, Size
    <3>2. PawnSteps(m[1], m[2], white)
      BY <1>2, <2>1
    <3>3. (m[1][1] + m[2][1]) \div 2 \in {2, 5}
      <4>1. CASE white
        <5>1. m[1][1] = 1 /\ m[2][1] = 3
          BY <3>1, <3>2, <4>1 DEF PawnSteps, Forward
        <5> QED
          BY <5>1
      <4>2. CASE ~ white
        <5>1. m[1][1] = 6 /\ m[2][1] = 4
          BY <3>1, <3>2, <4>2 DEF PawnSteps, Forward
        <5> QED
          BY <5>1
      <4> QED
        BY <4>1, <4>2
    <3>4. e \in Squares(8) /\ e[1] \in {2, 5}
      BY <3>1, <3>3 DEF Squares
    <3> QED
      BY <1>3, <2>1, <3>4 DEF ChessMakes
  <2> QED
    BY <1>3, <2>1 DEF ChessMakes
<1>5. KingHome(n)
  <2>1. ASSUME NEW x \in Squares(8), NEW w \in BOOLEAN,
               At(n.board, x) = 6 * Forward(w), ~ n.kingMoved[w]
        PROVE  At(p.board, x) = 6 * Forward(w) /\ ~ p.kingMoved[w]
    <3>1. ~ p.kingMoved[w] /\ ~ (w = white /\ Man(p.board, m[1]) = 6)
      <4>1. n.kingMoved =
              [u \in BOOLEAN |-> p.kingMoved[u] \/ (u = white /\ Man(p.board, m[1]) = 6)]
        BY <1>3 DEF ChessMakes
      <4>2. n.kingMoved[w] = (p.kingMoved[w] \/ (w = white /\ Man(p.board, m[1]) = 6))
        BY <4>1, Zenon
      <4> QED
        BY <2>1, <4>2
    <3>2. 6 * Forward(w) \in {6, -6} /\ Size(6 * Forward(w)) = 6
      <4>1. Forward(w) = 1 \/ Forward(w) = -1
        <5>1. CASE w = TRUE
          BY <5>1 DEF Forward
        <5>2. CASE w = FALSE
          BY <5>2 DEF Forward
        <5> QED
          BY <5>1, <5>2
      <4>2. \A k \in 1 .. 6 : k * 1 = k /\ k * (-1) = -k /\ Size(k) = k /\ Size(-k) = k
        BY DEF Size
      <4>3. 6 * 1 = 6 /\ 6 * (-1) = -6 /\ Size(6) = 6 /\ Size(-6) = 6
        BY <4>2
      <4> QED
        BY <4>1, <4>2, <4>3
    <3>3. Placed(p, m) # 6 * Forward(w)
      <4>1. CASE Man(p.board, m[1]) = 1
        BY <3>2, <4>1, MovedBoard DEF ChessMove
      <4>2. CASE Man(p.board, m[1]) # 1
        <5>1. Placed(p, m) = At(p.board, m[1])
          BY <4>2, MovedBoard DEF ChessMove
        <5>2. At(p.board, m[1]) = Man(p.board, m[1]) * Forward(white)
          BY <1>1, <1>2, ManIs
        <5>3. SUFFICES ASSUME At(p.board, m[1]) = 6 * Forward(w) PROVE FALSE
          BY <5>1
        <5>4. Man(p.board, m[1]) = 6
          BY <3>2, <5>3 DEF Man
        <5>5. w # white
          BY <3>1, <5>4
        <5> QED
          BY <1>1, <5>2, <5>3, <5>4, <5>5 DEF Forward
      <4> QED
        BY <4>1, <4>2
    <3>4. Castling(p, m) => At(p.board, Corner(m)) # 6 * Forward(w)
      <4> SUFFICES ASSUME Castling(p, m), At(p.board, Corner(m)) = 6 * Forward(w)
                   PROVE  FALSE
        OBVIOUS
      <4>1. Corner(m) \in Squares(8) /\ Corner(m)[2] \in {0, 7}
        BY MovedBoard DEF ChessMove, Corner
      <4>2. Corner(m)[2] = 4
        BY <1>1, <3>1, <4>1 DEF KingHome
      <4> QED
        BY <4>1, <4>2
    <3> QED
      BY <1>3, <2>1, <3>1, <3>2, <3>3, <3>4, MovedBoard DEF ChessMove, ChessMakes
  <2> QED
    BY <1>1, <2>1 DEF KingHome
<1>6. n \in [board : Men, player : {0, 1}, kingMoved : [BOOLEAN -> BOOLEAN],
             rookMoved : [BOOLEAN -> SUBSET {0, 7}], ep : SUBSET Squares(8),
             clock : 0 .. 50]
  <2>1. n.board \in Men /\ n.player \in {0, 1} /\ n.clock \in 0 .. 50
    BY <1>1, <1>3, MovedBoard DEF ChessMove, ChessMakes
  <2>2. n.kingMoved \in [BOOLEAN -> BOOLEAN]
    BY <1>1, <1>3 DEF ChessMakes
  <2>3. n.rookMoved \in [BOOLEAN -> SUBSET {0, 7}]
    BY <1>1, <1>3 DEF ChessMakes
  <2>4. n.ep \in SUBSET Squares(8)
    BY <1>4
  <2> QED
    BY <1>3, <2>1, <2>2, <2>3, <2>4 DEF ChessMakes
<1> QED
  BY <1>4, <1>5, <1>6 DEF ChessPosition, n

(* The training code's grid and geometry are the grid's.                   *)
LEMMA TrnGrid ==
  /\ \A n : Trn!Squares(n) = Squares(n)
  /\ \A b, s : Trn!At(b, s) = At(b, s)
  /\ \A x : Trn!Size(x) = Size(x)
  /\ \A s, t : Trn!Rows(s, t) = Rows(s, t) /\ Trn!Columns(s, t) = Columns(s, t)
  /\ \A s, t : Trn!Straight(s, t) <=> Straight(s, t)
  /\ \A s, t : Trn!Diagonal(s, t) <=> Diagonal(s, t)
  /\ \A s, t : Trn!Leap(s, t) <=> Leap(s, t)
  /\ \A s, t : Trn!Step(s, t) <=> Step(s, t)
  /\ \A b, s, t : Trn!Clear(b, s, t) <=> Clear(b, s, t)
BY DEF Trn!Squares, Squares, Trn!At, At, Trn!Size, Size, Trn!Rows, Rows,
       Trn!Columns, Columns, Trn!Straight, Straight, Trn!Diagonal, Diagonal,
       Trn!Leap, Leap, Trn!Step, Step, Trn!Clear, Clear, Trn!Sign, Sign,
       Trn!Go, Go

(* The training code's row of a square and code of a piece.                *)
Code(v) == IF v < 0 THEN 6 - v ELSE v

(* Turning the board over is its own inverse.                              *)
LEMMA AcrossIs ==
  ASSUME NEW x \in Squares(8)
  PROVE  /\ Across(x) \in Squares(8) /\ Across(Across(x)) = x
         /\ Across(x)[1] = 7 - x[1] /\ Across(x)[2] = x[2]
         /\ \A y \in Squares(8) : Across(x) = Across(y) <=> x = y
<1>1. x[1] \in 0 .. 7 /\ x[2] \in 0 .. 7 /\ x = <<x[1], x[2]>>
  BY DEF Squares
<1>2. \A y \in Squares(8) : y[1] \in 0 .. 7 /\ y[2] \in 0 .. 7 /\ y = <<y[1], y[2]>>
  BY DEF Squares
<1>3. Across(x) = <<7 - x[1], x[2]>> /\ \A y : Across(y) = <<7 - y[1], y[2]>>
  BY DEF Across
<1>4. 7 - x[1] \in 0 .. 7 /\ 7 - (7 - x[1]) = x[1]
  BY <1>1
<1>5. Across(x) \in Squares(8)
  BY <1>1, <1>3, <1>4 DEF Squares
<1>6. Across(Across(x)) = x
  BY <1>1, <1>3, <1>4
<1>7. ASSUME NEW y \in Squares(8), Across(x) = Across(y) PROVE x = y
  <2>1. 7 - x[1] = 7 - y[1] /\ x[2] = y[2]
    BY <1>3, <1>7
  <2>2. x[1] = y[1]
    BY <1>1, <1>2, <2>1
  <2> QED
    BY <1>1, <1>2, <2>1, <2>2
<1> QED
  BY <1>3, <1>5, <1>6, <1>7

(* A board in the training code's codes, square by square.                 *)
LEMMA BoardInTrainingIs ==
  ASSUME NEW b \in Men
  PROVE  /\ BoardInTraining("Chess", b) \in Boards(8, 0 .. 12)
         /\ \A x \in Squares(8) :
              /\ At(BoardInTraining("Chess", b), Across(x)) = Code(At(b, x))
              /\ At(BoardInTraining("Chess", b), x) = Code(At(b, Across(x)))
<1> DEFINE B == BoardInTraining("Chess", b)
<1>1. B = [r \in 0 .. 7 |-> [c \in 0 .. 7 |-> Code(b[7 - r][c])]]
  BY DEF BoardInTraining, Code
<1>2. \A r \in 0 .. 7 : \A c \in 0 .. 7 : b[7 - r][c] \in -6 .. 6
  BY DEF Men, Boards, Pieces
<1>3. \A v \in -6 .. 6 : Code(v) \in 0 .. 12
  BY DEF Code
<1> HIDE DEF B
<1>4. B \in Boards(8, 0 .. 12)
  <2>1. \A r \in 0 .. 7 : 7 - r \in 0 .. 7
    OBVIOUS
  <2>2. \A r \in 0 .. 7 : \A c \in 0 .. 7 : Code(b[7 - r][c]) \in 0 .. 12
    BY <1>2, <1>3
  <2>3. B \in [0 .. 7 -> [0 .. 7 -> 0 .. 12]]
    BY <1>1, <2>2
  <2> QED
    BY <2>3 DEF Boards
<1>5. ASSUME NEW x \in Squares(8) PROVE At(B, x) = Code(At(b, Across(x)))
  BY <1>1 DEF At, Squares, Across
<1>6. ASSUME NEW x \in Squares(8) PROVE At(B, Across(x)) = Code(At(b, x))
  <2>1. Across(x) \in Squares(8) /\ Across(Across(x)) = x
    BY AcrossIs
  <2> QED
    BY <1>5, <2>1
<1> QED
  BY <1>4, <1>5, <1>6 DEF B

(* The codes tell pieces and colours as the signs do.                      *)
LEMMA CodeIs ==
  ASSUME NEW v \in Pieces
  PROVE  /\ Code(v) \in 0 .. 12
         /\ Code(v) = 0 <=> v = 0
         /\ Code(v) \in Trn!PawnCode <=> Size(v) = 1
         /\ Code(v) \in Trn!KnightCode <=> Size(v) = 2
         /\ Code(v) \in Trn!BishopCode <=> Size(v) = 3
         /\ Code(v) \in Trn!RookCode <=> Size(v) = 4
         /\ Code(v) \in Trn!QueenCode <=> Size(v) = 5
         /\ Code(v) \in Trn!KingCode <=> Size(v) = 6
         /\ Code(v) = 1 <=> v = 1
         /\ Code(v) = 7 <=> v = -1
         /\ Trn!GetPieceColor(Code(v)) = Sign(v)
<1>1. v \in -6 .. 6
  BY DEF Pieces
<1>2. CASE v < 0
  <2>1. Code(v) = 6 - v /\ Size(v) = -v /\ Sign(v) = -1
    BY <1>2 DEF Code, Size, Sign
  <2> QED
    BY <1>1, <1>2, <2>1
    DEF Trn!PawnCode, Trn!KnightCode, Trn!BishopCode, Trn!RookCode,
        Trn!QueenCode, Trn!KingCode, Trn!GetPieceColor
<1>3. CASE ~ (v < 0)
  <2>1. Code(v) = v /\ Size(v) = v /\ Sign(v) = IF v = 0 THEN 0 ELSE 1
    BY <1>3 DEF Code, Size, Sign
  <2> QED
    BY <1>1, <1>3, <2>1
    DEF Trn!PawnCode, Trn!KnightCode, Trn!BishopCode, Trn!RookCode,
        Trn!QueenCode, Trn!KingCode, Trn!GetPieceColor
<1> QED
  BY <1>2, <1>3

(* What a move changes in the training code, square by square.             *)
TrnPasses(t, s, u) == At(t.board, s) \in Trn!PawnCode /\ u \in t.ep
TrnCastles(t, s, u) == At(t.board, s) \in Trn!KingCode /\ Size(Columns(s, u)) = 2
TrnCorner(s, u) == <<s[1], IF u[2] > s[2] THEN 7 ELSE 0>>
TrnBeside(s, u) == <<s[1], IF u[2] > s[2] THEN 5 ELSE 3>>
TrnPlaced(t, s, u) ==
  IF At(t.board, s) = 1 /\ u[1] = 0 THEN 5
  ELSE IF At(t.board, s) = 7 /\ u[1] = 7 THEN 11 ELSE At(t.board, s)
TrnCell(t, s, u, x) ==
  IF x = u THEN TrnPlaced(t, s, u)
  ELSE IF x = s \/ (TrnPasses(t, s, u) /\ x = <<s[1], u[2]>>) THEN 0
  ELSE IF TrnCastles(t, s, u) /\ x = TrnCorner(s, u) THEN 0
  ELSE IF TrnCastles(t, s, u) /\ x = TrnBeside(s, u)
       THEN At(t.board, TrnCorner(s, u))
  ELSE At(t.board, x)

(* The training code's board after a move, square by square.               *)
LEMMA TrnMovedIs ==
  ASSUME NEW t, NEW s \in Squares(8), NEW u \in Squares(8), s # u,
         TrnPasses(t, s, u) => s[1] # u[1],
         TrnCastles(t, s, u) => s[2] = 4 /\ u[1] = s[1] /\ u[2] \in {2, 6}
  PROVE  Trn!Moved(t, s, u)
           = [r \in 0 .. 7 |-> [c \in 0 .. 7 |-> TrnCell(t, s, u, <<r, c>>)]]
<1> DEFINE passed == {<<s[1], u[2]>> : e \in
                        {x \in t.ep : At(t.board, s) \in Trn!PawnCode /\ x = u}}
           placed == CASE At(t.board, s) = 1 /\ u[1] = 0 -> 5
                       [] At(t.board, s) = 7 /\ u[1] = 7 -> 11
                       [] OTHER -> At(t.board, s)
           castles == TrnCastles(t, s, u)
           corner == TrnCorner(s, u)
           beside == TrnBeside(s, u)
           d(y) == CASE y \in passed -> 0
                     [] y = s -> 0
                     [] y = u -> placed
                     [] castles /\ y = corner -> 0
                     [] castles /\ y = beside -> At(t.board, corner)
                     [] OTHER -> At(t.board, y)
           e(r, c) == CASE <<r, c>> \in passed -> 0
                     [] <<r, c>> = s -> 0
                     [] <<r, c>> = u -> placed
                     [] castles /\ <<r, c>> = corner -> 0
                     [] castles /\ <<r, c>> = beside -> At(t.board, corner)
                     [] OTHER -> t.board[r][c]
<1>1. Trn!Moved(t, s, u) = [r \in 0 .. 7 |-> [c \in 0 .. 7 |-> e(r, c)]]
  BY TrnGrid DEF Trn!Moved, TrnCastles, TrnCorner, TrnBeside
<1>2. placed = TrnPlaced(t, s, u)
  BY DEF TrnPlaced
<1>3. \A y : y \in passed <=> TrnPasses(t, s, u) /\ y = <<s[1], u[2]>>
  BY DEF TrnPasses
<1>4. /\ castles => ~ TrnPasses(t, s, u)
      /\ castles => /\ corner # s /\ corner # u /\ corner # beside
                    /\ beside # s /\ beside # u
      /\ TrnPasses(t, s, u) => u # <<s[1], u[2]>>
  <2>1. castles => ~ TrnPasses(t, s, u)
    BY DEF TrnCastles, TrnPasses, Trn!KingCode, Trn!PawnCode
  <2>2. castles => /\ corner # s /\ corner # u /\ corner # beside
                   /\ beside # s /\ beside # u
    BY DEF TrnCorner, TrnBeside
  <2>3. TrnPasses(t, s, u) => u # <<s[1], u[2]>>
    OBVIOUS
  <2> QED
    BY <2>1, <2>2, <2>3
<1>5. \A r, c : e(r, c) = d(<<r, c>>)
  BY DEF At
<1> HIDE DEF passed, placed, castles, corner, beside, e
<1>6. ASSUME NEW y PROVE d(y) = TrnCell(t, s, u, y)
  <2>1. CASE y = u
    BY <1>2, <1>3, <1>4, <2>1 DEF TrnCell
  <2>2. CASE y = s \/ y \in passed
    BY <1>2, <1>3, <1>4, <2>2 DEF TrnCell, castles, corner, beside
  <2>3. CASE y # u /\ y # s /\ y \notin passed
    BY <1>2, <1>3, <1>4, <2>3 DEF TrnCell, castles, corner, beside
  <2> QED
    BY <2>1, <2>2, <2>3
<1> HIDE DEF d
<1>7. \A r, c : e(r, c) = TrnCell(t, s, u, <<r, c>>)
  BY <1>5, <1>6
<1> QED
  BY <1>1, <1>7

(* Boards are equal when all their cells are.                              *)
LEMMA SameCells ==
  ASSUME NEW a, NEW b,
         a = [r \in 0 .. 7 |-> [c \in 0 .. 7 |-> a[r][c]]],
         b = [r \in 0 .. 7 |-> [c \in 0 .. 7 |-> b[r][c]]],
         \A x \in Squares(8) : At(a, x) = At(b, x)
  PROVE  a = b
<1>1. \A r \in 0 .. 7 : \A c \in 0 .. 7 : a[r][c] = b[r][c]
  <2> TAKE r \in 0 .. 7
  <2> TAKE c \in 0 .. 7
  <2>1. <<r, c>> \in Squares(8)
    BY DEF Squares
  <2> QED
    BY <2>1 DEF At
<1> QED
  BY <1>1

(* The two implementations change the same squares.                        *)
LEMMA SameBoard ==
  ASSUME NEW p, ChessPosition(p), NEW m, ChessStep(p, m), m[3] \in {0, 5},
         NEW t, t.board = BoardInTraining("Chess", p.board),
         t.ep = {Across(e) : e \in p.ep}
  PROVE  Trn!Moved(t, Across(m[1]), Across(m[2]))
           = BoardInTraining("Chess", Chs!Moved(p, m))
<1>0. PICK white \in BOOLEAN : white <=> (p.player = 0)
  OBVIOUS
<1> DEFINE s == Across(m[1])
           u == Across(m[2])
           b == p.board
<1>1. /\ m[1] \in Squares(8) /\ m[2] \in Squares(8) /\ m[1] # m[2] /\ b \in Men
      /\ Own(b, m[1], white)
      /\ Man(b, m[1]) = 1 => PawnSteps(m[1], m[2], white)
      /\ Castling(p, m) => /\ m[1] = <<Row(white), 4>>
                           /\ m[2] \in {<<Row(white), 2>>, <<Row(white), 6>>}
      /\ m[3] \in IF Man(b, m[1]) = 1 /\ m[2][1] \in {0, 7} THEN {5} ELSE {0}
  BY <1>0 DEF ChessMove, ChessStep, ChessPosition, Own, PawnSteps, Forward, Row
<1>2. /\ m[1][1] \in 0 .. 7 /\ m[1][2] \in 0 .. 7
      /\ m[2][1] \in 0 .. 7 /\ m[2][2] \in 0 .. 7
  BY <1>1 DEF Squares
<1>3. /\ s \in Squares(8) /\ u \in Squares(8) /\ s # u
      /\ s[1] = 7 - m[1][1] /\ s[2] = m[1][2]
      /\ u[1] = 7 - m[2][1] /\ u[2] = m[2][2]
  BY <1>1, AcrossIs
<1>4. /\ At(b, m[1]) \in Pieces /\ At(b, m[1]) = Man(b, m[1]) * Forward(white)
      /\ Man(b, m[1]) \in 1 .. 6
      /\ At(t.board, s) = Code(At(b, m[1]))
  BY <1>1, ManIs, BoardInTrainingIs
<1> HIDE DEF s, u, b
<1>5. /\ At(t.board, s) \in Trn!PawnCode <=> Man(b, m[1]) = 1
      /\ At(t.board, s) \in Trn!KingCode <=> Man(b, m[1]) = 6
      /\ At(t.board, s) = 1 <=> At(b, m[1]) = 1
      /\ At(t.board, s) = 7 <=> At(b, m[1]) = -1
  BY <1>4, CodeIs DEF Man
<1>6. Columns(s, u) = Columns(m[1], m[2])
  BY <1>3 DEF Columns
<1>7. TrnCastles(t, s, u) <=> Castling(p, m)
  BY <1>5, <1>6 DEF TrnCastles, Castling, b
<1>8. u \in t.ep <=> m[2] \in p.ep
  <2>1. p.ep \subseteq Squares(8)
    BY DEF ChessPosition
  <2> QED
    BY <1>1, <2>1, AcrossIs DEF u
<1>9. TrnPasses(t, s, u) <=> Man(b, m[1]) = 1 /\ m[2] \in p.ep
  BY <1>5, <1>8 DEF TrnPasses
<1>10. TrnPasses(t, s, u) => m[1][1] = m[2][1] - Forward(white)
  <2> SUFFICES ASSUME TrnPasses(t, s, u) PROVE m[1][1] = m[2][1] - Forward(white)
    OBVIOUS
  <2>1. m[2][1] \in {2, 5} /\ PawnSteps(m[1], m[2], white)
    BY <1>1, <1>9 DEF ChessPosition
  <2> QED
    BY <1>2, <2>1 DEF PawnSteps, Forward
<1>11. Passed(p, m) = IF TrnPasses(t, s, u) THEN {<<m[1][1], m[2][2]>>} ELSE {}
  <2>1. Forward(p.player = 0) = Forward(white)
    BY <1>0 DEF Forward
  <2>2. CASE TrnPasses(t, s, u)
    <3>1. {x \in p.ep : Man(b, m[1]) = 1 /\ x = m[2]} = {m[2]}
      BY <1>9, <2>2
    <3> QED
      BY <1>10, <2>1, <2>2, <3>1 DEF Passed, b
  <2>3. CASE ~ TrnPasses(t, s, u)
    BY <1>9, <2>3 DEF Passed, b
  <2> QED
    BY <2>2, <2>3
<1>12. /\ Corner(m) \in Squares(8) /\ Beside(m) \in Squares(8)
       /\ <<m[1][1], m[2][2]>> \in Squares(8)
       /\ Across(<<m[1][1], m[2][2]>>) = <<s[1], u[2]>>
       /\ Castling(p, m) => /\ Across(Corner(m)) = TrnCorner(s, u)
                            /\ Across(Beside(m)) = TrnBeside(s, u)
  <2>1. /\ Corner(m) \in Squares(8) /\ Beside(m) \in Squares(8)
        /\ <<m[1][1], m[2][2]>> \in Squares(8)
    BY <1>2 DEF Squares, Corner, Beside
  <2>2. Across(<<m[1][1], m[2][2]>>) = <<s[1], u[2]>>
    BY <1>3 DEF Across
  <2>3. ASSUME Castling(p, m)
        PROVE  /\ Across(Corner(m)) = TrnCorner(s, u)
               /\ Across(Beside(m)) = TrnBeside(s, u)
    <3>1. s[2] = 4 /\ (u[2] = 2 \/ u[2] = 6) /\ m[2][2] = u[2]
      BY <1>1, <1>3, <2>3
    <3> QED
      BY <1>3, <3>1 DEF Across, Corner, Beside, TrnCorner, TrnBeside
  <2> QED
    BY <2>1, <2>2, <2>3
<1>13. TrnPlaced(t, s, u) = Code(Placed(p, m))
  <2>1. Forward(p.player = 0) = Forward(white)
    BY <1>0 DEF Forward
  <2>2. CASE white = TRUE
    <3>1. Forward(white) = 1 /\ (Man(b, m[1]) = 1 => m[2][1] > 0)
      BY <1>1, <1>2, <2>2 DEF Forward, PawnSteps
    <3>2. At(b, m[1]) = Man(b, m[1])
      BY <1>4, <3>1
    <3>3. Code(5) = 5 /\ 5 * 1 = 5
      BY DEF Code
    <3> QED
      BY <1>1, <1>2, <1>3, <1>4, <1>5, <2>1, <3>1, <3>2, <3>3 DEF TrnPlaced, Placed, b
  <2>3. CASE white = FALSE
    <3>1. Forward(white) = -1 /\ (Man(b, m[1]) = 1 => m[2][1] < 7)
      BY <1>1, <1>2, <2>3 DEF Forward, PawnSteps
    <3>2. At(b, m[1]) = -Man(b, m[1])
      BY <1>4, <3>1
    <3>3. Code(5 * (-1)) = 11
      BY DEF Code
    <3> QED
      BY <1>1, <1>2, <1>3, <1>4, <1>5, <2>1, <3>1, <3>2, <3>3 DEF TrnPlaced, Placed, b
  <2> QED
    BY <2>2, <2>3
<1> DEFINE A == Trn!Moved(t, s, u)
           n == Chs!Moved(p, m)
           B == BoardInTraining("Chess", n)
<1>14. A = [r \in 0 .. 7 |-> [c \in 0 .. 7 |-> TrnCell(t, s, u, <<r, c>>)]]
  <2>1. TrnPasses(t, s, u) => s[1] # u[1]
    <3>1. Forward(white) = 1 \/ Forward(white) = -1
      BY DEF Forward
    <3> QED
      BY <1>2, <1>3, <1>10, <3>1
  <2>2. TrnCastles(t, s, u) => s[2] = 4 /\ u[1] = s[1] /\ u[2] \in {2, 6}
    BY <1>1, <1>3, <1>7
  <2> QED
    BY <1>3, <2>1, <2>2, TrnMovedIs
<1>15. /\ n \in Men /\ B \in Boards(8, 0 .. 12)
       /\ \A x \in Squares(8) : At(B, Across(x)) = Code(At(n, x))
  BY MovedBoard, BoardInTrainingIs
<1>16. ASSUME NEW x \in Squares(8) PROVE At(A, Across(x)) = At(B, Across(x))
  <2> DEFINE y == Across(x)
  <2>1. /\ y \in Squares(8) /\ y = <<y[1], y[2]>>
        /\ y[1] \in 0 .. 7 /\ y[2] \in 0 .. 7
    BY AcrossIs DEF Squares
  <2>2. At(A, y) = TrnCell(t, s, u, y)
    <3> HIDE DEF y, A
    <3>1. \A r \in 0 .. 7 : \A c \in 0 .. 7 :
            A[r][c] = TrnCell(t, s, u, <<r, c>>)
      BY <1>14
    <3>2. A[y[1]][y[2]] = TrnCell(t, s, u, <<y[1], y[2]>>)
      BY <2>1, <3>1
    <3> QED
      BY <2>1, <3>2 DEF At
  <2>3. /\ y = u <=> x = m[2]
        /\ y = s <=> x = m[1]
        /\ y = <<s[1], u[2]>> <=> x = <<m[1][1], m[2][2]>>
        /\ Castling(p, m) => /\ y = TrnCorner(s, u) <=> x = Corner(m)
                             /\ y = TrnBeside(s, u) <=> x = Beside(m)
    <3>1. \A z \in Squares(8) : y = Across(z) <=> x = z
      BY AcrossIs
    <3> HIDE DEF y
    <3> QED
      BY <1>1, <1>12, <3>1 DEF s, u
  <2>4. At(t.board, y) = Code(At(b, x))
    BY <1>1, BoardInTrainingIs DEF b
  <2>5. Castling(p, m) => At(t.board, TrnCorner(s, u)) = Code(At(b, Corner(m)))
    BY <1>1, <1>12, BoardInTrainingIs DEF b
  <2>6. Code(0) = 0
    BY DEF Code
  <2> HIDE DEF y
  <2>7. x \in Passed(p, m) <=> TrnPasses(t, s, u) /\ y = <<s[1], u[2]>>
    BY <1>11, <2>3
  <2>8. TrnCell(t, s, u, y) =
          IF x = m[2] THEN Code(Placed(p, m))
          ELSE IF x = m[1] \/ x \in Passed(p, m) THEN 0
          ELSE IF Castling(p, m) /\ x = Corner(m) THEN 0
          ELSE IF Castling(p, m) /\ x = Beside(m) THEN Code(At(b, Corner(m)))
          ELSE Code(At(b, x))
    BY <1>7, <1>13, <2>3, <2>4, <2>5, <2>7 DEF TrnCell
  <2>9. At(n, x) =
          IF x = m[2] THEN Placed(p, m)
          ELSE IF x = m[1] \/ x \in Passed(p, m) THEN 0
          ELSE IF Castling(p, m) /\ x = Corner(m) THEN 0
          ELSE IF Castling(p, m) /\ x = Beside(m) THEN At(b, Corner(m))
          ELSE At(b, x)
    BY MovedBoard DEF b
  <2> QED
    BY <1>15, <2>2, <2>6, <2>8, <2>9 DEF y
<1> HIDE DEF A, B
<1>17. ASSUME NEW x \in Squares(8) PROVE At(A, x) = At(B, x)
  <2>1. Across(x) \in Squares(8) /\ Across(Across(x)) = x
    BY AcrossIs
  <2> QED
    BY <1>16, <2>1
<1>18. /\ A = [r \in 0 .. 7 |-> [c \in 0 .. 7 |-> A[r][c]]]
       /\ B = [r \in 0 .. 7 |-> [c \in 0 .. 7 |-> B[r][c]]]
  BY <1>14, <1>15 DEF Boards
<1> QED
  BY <1>17, <1>18, SameCells DEF A, B, s, u

(* The training code's position is the game server's.                      *)
ChessInStep(p, t) ==
  /\ t.board = BoardInTraining("Chess", p.board)
  /\ t.ep = {Across(s) : s \in p.ep}
  /\ t.rights \in [{1, -1} -> SUBSET {0, 7}]
  /\ \A w \in BOOLEAN :
       t.rights[Forward(w)] = IF p.kingMoved[w] THEN {} ELSE {0, 7} \ p.rookMoved[w]

(* The castling rights that go with a move.                                *)
Lost(p, m) ==
  IF Man(p.board, m[1]) = 6 THEN {0, 7}
  ELSE IF Man(p.board, m[1]) = 4 THEN {m[1][2]} ELSE {}
Skipped(m) == <<(m[1][1] + m[2][1]) \div 2, m[1][2]>>
DoubleStep(p, m) == Man(p.board, m[1]) = 1 /\ Size(Rows(m[1], m[2])) = 2

ChessTrains(p, m, t, white, u) ==
  /\ u.board = BoardInTraining("Chess", Chs!Moved(p, m))
  /\ u.player = -t.player
  /\ u.ep = IF DoubleStep(p, m) THEN {Across(Skipped(m))} ELSE {}
  /\ u.rights = [t.rights EXCEPT ![Forward(white)] = @ \ Lost(p, m)]

(* A move on both sides, seen from the training code.                      *)
LEMMA ChessTrained ==
  ASSUME NEW p, ChessPosition(p), NEW m, ChessMove(p, m), m[3] \in {0, 5},
         NEW t, ChessInStep(p, t), NEW white \in BOOLEAN, white <=> (p.player = 0),
         NEW u, u = Trn!TrainMakeMove(t, <<Across(m[1]), Across(m[2])>>)
  PROVE  ChessTrains(p, m, t, white, u)
<1> DEFINE s == Across(m[1])
           v == Across(m[2])
           piece == At(t.board, s)
           man == Man(p.board, m[1])
           lost == CASE piece \in Trn!KingCode -> {7, 0}
                     [] piece \in Trn!RookCode -> {s[2]}
                     [] OTHER -> {}
           ep == IF piece \in Trn!PawnCode /\ Size(Rows(s, v)) = 2
                 THEN {<<(s[1] + v[1]) \div 2, s[2]>>} ELSE {}
<1>1. u = [board |-> Trn!Moved(t, s, v), player |-> -t.player,
           rights |-> [t.rights EXCEPT ![Trn!GetPieceColor(piece)] = @ \ lost],
           ep |-> ep,
           history |-> Append(t.history, <<s, v>>)]
  BY TrnGrid DEF Trn!TrainMakeMove, Trn!Kingside, Trn!Queenside
<1>2. /\ m[1] \in Squares(8) /\ m[2] \in Squares(8) /\ p.board \in Men
      /\ Own(p.board, m[1], white)
      /\ Man(p.board, m[1]) = 1 => PawnSteps(m[1], m[2], white)
  BY DEF ChessMove, ChessStep, ChessPosition, Own, PawnSteps, Forward
<1>3. /\ At(p.board, m[1]) \in Pieces /\ man \in 1 .. 6
      /\ At(p.board, m[1]) = man * Forward(white)
      /\ piece = Code(At(p.board, m[1]))
  BY <1>2, ManIs, BoardInTrainingIs DEF ChessInStep
<1>4. /\ s[1] = 7 - m[1][1] /\ s[2] = m[1][2] /\ v[1] = 7 - m[2][1]
      /\ m[1][1] \in 0 .. 7 /\ m[1][2] \in 0 .. 7 /\ m[2][1] \in 0 .. 7
  BY <1>2, AcrossIs DEF Squares
<1> HIDE DEF s, v
<1>5. /\ piece \in Trn!PawnCode <=> man = 1
      /\ piece \in Trn!KingCode <=> man = 6
      /\ piece \in Trn!RookCode <=> man = 4
      /\ Trn!GetPieceColor(piece) = Sign(At(p.board, m[1]))
  BY <1>3, CodeIs DEF Man
<1> HIDE DEF piece, man
<1>6. Sign(At(p.board, m[1])) = Forward(white)
  BY <1>3 DEF Sign, Forward
<1>7. lost = IF man = 6 THEN {0, 7} ELSE IF man = 4 THEN {m[1][2]} ELSE {}
  <2>1. CASE man = 6
    BY <1>4, <1>5, <2>1
  <2>2. CASE man = 4
    BY <1>4, <1>5, <2>2
  <2>3. CASE man # 6 /\ man # 4
    BY <1>4, <1>5, <2>3
  <2> QED
    BY <2>1, <2>2, <2>3
<1>8. ep = IF man = 1 /\ Size(Rows(m[1], m[2])) = 2
           THEN {Across(<<(m[1][1] + m[2][1]) \div 2, m[1][2]>>)} ELSE {}
  <2>1. Size(Rows(s, v)) = Size(Rows(m[1], m[2]))
    BY <1>4 DEF Size, Rows
  <2>2. ASSUME man = 1, Size(Rows(m[1], m[2])) = 2
        PROVE  (s[1] + v[1]) \div 2 = 7 - ((m[1][1] + m[2][1]) \div 2)
    <3>1. m[2][1] - m[1][1] \in {2, -2} /\ PawnSteps(m[1], m[2], white)
      BY <1>2, <1>4, <2>2 DEF Rows, Size, man
    <3>2. (m[1][1] = 1 /\ m[2][1] = 3) \/ (m[1][1] = 6 /\ m[2][1] = 4)
      BY <1>4, <3>1 DEF PawnSteps, Forward
    <3>3. CASE m[1][1] = 1 /\ m[2][1] = 3
      <4>1. s[1] = 6 /\ v[1] = 4
        BY <1>4, <3>3
      <4> QED
        BY <3>3, <4>1
    <3>4. CASE m[1][1] = 6 /\ m[2][1] = 4
      <4>1. s[1] = 1 /\ v[1] = 3
        BY <1>4, <3>4
      <4> QED
        BY <3>4, <4>1
    <3> QED
      BY <3>2, <3>3, <3>4
  <2>3. CASE man = 1 /\ Size(Rows(m[1], m[2])) = 2
    BY <1>4, <1>5, <2>1, <2>2, <2>3 DEF Across
  <2>4. CASE ~ (man = 1 /\ Size(Rows(m[1], m[2])) = 2)
    BY <1>5, <2>1, <2>4
  <2> QED
    BY <2>3, <2>4
<1>9. Trn!Moved(t, s, v) = BoardInTraining("Chess", Chs!Moved(p, m))
  BY SameBoard DEF ChessMove, s, v, ChessInStep
<1> HIDE DEF lost, ep
<1>10. Trn!GetPieceColor(piece) = Forward(white)
  BY <1>5, <1>6
<1> DEFINE rights == [t.rights EXCEPT ![Trn!GetPieceColor(piece)] = @ \ lost]
           board == Trn!Moved(t, s, v)
           history == Append(t.history, <<s, v>>)
<1>11. /\ u.board = board /\ u.player = -t.player /\ u.rights = rights /\ u.ep = ep
  <2>1. u = [board |-> board, player |-> -t.player, rights |-> rights,
             ep |-> ep, history |-> history]
    BY <1>1
  <2> HIDE DEF rights, board, history
  <2> QED
    BY <2>1
<1>12. lost = Lost(p, m)
  BY <1>7 DEF man, Lost
<1>13. ep = IF DoubleStep(p, m) THEN {Across(Skipped(m))} ELSE {}
  BY <1>8 DEF man, DoubleStep, Skipped
<1> QED
  BY <1>9, <1>10, <1>11, <1>12, <1>13 DEF ChessTrains

(* They stay in step.                                                      *)
LEMMA ChessStaysInStep ==
  ASSUME NEW p, ChessPosition(p), NEW m, ChessMove(p, m), m[3] \in {0, 5},
         NEW t, ChessInStep(p, t),
         NEW n, n = Chs!MakeMove(p, m),
         NEW u, u = Trn!TrainMakeMove(t, <<Across(m[1]), Across(m[2])>>)
  PROVE  ChessInStep(n, u) /\ u.player = -t.player
<1>1. PICK white \in BOOLEAN : white <=> (p.player = 0)
  OBVIOUS
<1> DEFINE man == Man(p.board, m[1])
           lost == Lost(p, m)
           e == Skipped(m)
<1>2. /\ u.board = BoardInTraining("Chess", Chs!Moved(p, m))
      /\ u.player = -t.player
      /\ u.ep = IF DoubleStep(p, m) THEN {Across(e)} ELSE {}
      /\ u.rights = [t.rights EXCEPT ![Forward(white)] = @ \ lost]
  <2>1. ChessTrains(p, m, t, white, u)
    BY <1>1, ChessTrained
  <2> QED
    BY <2>1 DEF ChessTrains
<1>3. ChessMakes(p, m, white, n)
  BY <1>1, ChessMade
<1> HIDE DEF man, lost, e
<1>4. u.board = BoardInTraining("Chess", n.board)
  BY <1>2, <1>3 DEF ChessMakes
<1>5. u.ep = {Across(s) : s \in n.ep}
  <2>1. n.ep = IF DoubleStep(p, m) THEN {e} ELSE {}
    BY <1>3 DEF ChessMakes, DoubleStep, Skipped, e
  <2>2. {Across(s) : s \in {e}} = {Across(e)} /\ {Across(s) : s \in {}} = {}
    OBVIOUS
  <2> QED
    BY <1>2, <2>1, <2>2
<1>6. \A w \in BOOLEAN : Forward(w) \in {1, -1} /\ (Forward(w) = Forward(white) <=> w = white)
  BY DEF Forward
<1>7. /\ t.rights \in [{1, -1} -> SUBSET {0, 7}]
      /\ \A w \in BOOLEAN :
           t.rights[Forward(w)] = IF p.kingMoved[w] THEN {} ELSE {0, 7} \ p.rookMoved[w]
  BY DEF ChessInStep
<1>8. u.rights \in [{1, -1} -> SUBSET {0, 7}]
  BY <1>2, <1>7
<1>9. ASSUME NEW w \in BOOLEAN
      PROVE  u.rights[Forward(w)] = IF n.kingMoved[w] THEN {} ELSE {0, 7} \ n.rookMoved[w]
  <2>1. /\ n.kingMoved[w] <=> (p.kingMoved[w] \/ (w = white /\ man = 6))
        /\ n.rookMoved[w] = IF w = white /\ man = 4
                            THEN p.rookMoved[w] \cup ({m[1][2]} \cap {0, 7})
                            ELSE p.rookMoved[w]
    <3>1. /\ n.kingMoved =
               [x \in BOOLEAN |-> p.kingMoved[x] \/ (x = white /\ man = 6)]
          /\ n.rookMoved =
               [x \in BOOLEAN |->
                  IF x = white /\ man = 4
                  THEN p.rookMoved[x] \cup ({m[1][2]} \cap {0, 7}) ELSE p.rookMoved[x]]
      BY <1>3 DEF ChessMakes, man
    <3>2. n.kingMoved[w] = (p.kingMoved[w] \/ (w = white /\ man = 6))
      BY <3>1, Zenon
    <3>3. n.rookMoved[w] = IF w = white /\ man = 4
                            THEN p.rookMoved[w] \cup ({m[1][2]} \cap {0, 7})
                            ELSE p.rookMoved[w]
      BY <3>1, Zenon
    <3> QED
      BY <3>2, <3>3
  <2>2. u.rights[Forward(w)] =
          IF w = white THEN t.rights[Forward(w)] \ lost ELSE t.rights[Forward(w)]
    BY <1>2, <1>6, <1>7
  <2>3. CASE w = white /\ man = 6
    <3>1. lost = {0, 7} /\ t.rights[Forward(w)] \subseteq {0, 7}
      BY <1>6, <1>7, <2>3 DEF lost, Lost, man
    <3>2. t.rights[Forward(w)] \ lost = {}
      BY <3>1
    <3> QED
      BY <2>1, <2>2, <2>3, <3>2
  <2>4. CASE w = white /\ man = 4
    <3>1. lost = {m[1][2]}
      BY <2>4 DEF lost, Lost, man
    <3>2. \A R : ({0, 7} \ R) \ {m[1][2]} = {0, 7} \ (R \cup ({m[1][2]} \cap {0, 7}))
      OBVIOUS
    <3>3. n.kingMoved[w] <=> p.kingMoved[w]
      BY <2>1, <2>4
    <3>4. u.rights[Forward(w)] = t.rights[Forward(w)] \ {m[1][2]}
      BY <2>2, <2>4, <3>1
    <3>5. n.rookMoved[w] = p.rookMoved[w] \cup ({m[1][2]} \cap {0, 7})
      BY <2>1, <2>4
    <3> QED
      BY <1>7, <3>2, <3>3, <3>4, <3>5
  <2>5. CASE w # white \/ (man # 4 /\ man # 6)
    <3>1. u.rights[Forward(w)] = t.rights[Forward(w)]
      BY <2>2, <2>5 DEF lost, Lost, man
    <3>2. (n.kingMoved[w] <=> p.kingMoved[w]) /\ n.rookMoved[w] = p.rookMoved[w]
      BY <2>1, <2>5
    <3> QED
      BY <1>7, <3>1, <3>2
  <2> QED
    BY <2>3, <2>4, <2>5
<1> QED
  BY <1>2, <1>4, <1>5, <1>8, <1>9 DEF ChessInStep

ChsInv ==
  game = "Chess" =>
    /\ ChessPosition(server)
    /\ train.player \in {1, -1}
    /\ ~ over => server.clock < 50 /\ winner = {}
    /\ over => Chs!IsGameOver(server) /\ winner = Chs!GetWinner(server)
    /\ together =>
         /\ ChessInStep(server, train)
         /\ train.player = IF over THEN -Seat(server.player) ELSE Seat(server.player)

(* A turn of chess keeps its invariant.                                    *)
LEMMA ChsStep ==
  ASSUME game = "Chess", ChsInv, Turn
  PROVE  ChsInv'
<1>1. /\ ChessPosition(server) /\ train.player \in {1, -1}
      /\ ~ over /\ server.clock < 50
      /\ together => ChessInStep(server, train) /\ train.player = Seat(server.player)
  BY DEF ChsInv, Turn
<1>2. PICK m \in Select(game, server) :
        Makes(MakeMove(game, server, m)) /\ Follows(m)
  BY TurnIs DEF Games
<1>3. m \in Chs!ValidMoves(server)
  BY ChessOps DEF SelectBase
<1>4. ChessMove(server, m)
  BY <1>1, <1>3, ValidIsChessMove
<1> DEFINE made == Chs!MakeMove(server, m)
           next == NextTurn(made)
<1>5. ChessPosition(made)
  BY <1>1, <1>4, ChessPositionKept
<1>6. made.player = server.player /\ server.player \in {0, 1}
  <2>1. PICK white \in BOOLEAN : white <=> (server.player = 0)
    OBVIOUS
  <2>2. ChessMakes(server, m, white, made)
    BY <1>1, <1>4, <2>1, ChessMade
  <2> QED
    BY <1>1, <2>2 DEF ChessMakes, ChessPosition
<1> HIDE DEF made
<1>7. /\ ChessPosition(next) /\ next.player = (server.player + 1) % 2
      /\ next.board = made.board /\ next.ep = made.ep /\ next.clock = made.clock
      /\ next.kingMoved = made.kingMoved /\ next.rookMoved = made.rookMoved
  <2>1. (made.player + 1) % 2 \in {0, 1}
    BY <1>6
  <2>2. made \in [board : Men, player : {0, 1}, kingMoved : [BOOLEAN -> BOOLEAN],
            rookMoved : [BOOLEAN -> SUBSET {0, 7}], ep : SUBSET Squares(8),
            clock : 0 .. 50]
    BY <1>5 DEF ChessPosition
  <2>3. next = [made EXCEPT !.player = (made.player + 1) % 2]
    BY DEF NextTurn
  <2>4. /\ next \in [board : Men, player : {0, 1}, kingMoved : [BOOLEAN -> BOOLEAN],
              rookMoved : [BOOLEAN -> SUBSET {0, 7}], ep : SUBSET Squares(8),
              clock : 0 .. 50]
        /\ next.player = (server.player + 1) % 2
        /\ next.board = made.board /\ next.ep = made.ep /\ next.clock = made.clock
        /\ next.kingMoved = made.kingMoved /\ next.rookMoved = made.rookMoved
    BY <1>6, <2>1, <2>2, <2>3
  <2> HIDE DEF next
  <2>5. KingHome(next)
    BY <1>5, <2>4 DEF ChessPosition, KingHome
  <2> QED
    BY <1>5, <2>4, <2>5 DEF ChessPosition
<1>8. /\ train'.player \in {1, -1}
      /\ together' => /\ together /\ ChessInStep(made, train')
                      /\ train'.player = -train.player
  <2> DEFINE u == Trn!TrainMakeMove(train, <<Across(m[1]), Across(m[2])>>)
  <2>1. together' => together /\ m[3] \in {0, 5} /\ train' = u
    BY <1>2, ChessTrainingOps DEF Follows, InTraining, Chs!Queen
  <2>2. together' => ChessInStep(made, u) /\ u.player = -train.player
    BY <1>1, <1>4, <2>1, ChessStaysInStep DEF made
  <2>3. ~ together' => train' = train
    BY <1>2 DEF Follows
  <2> HIDE DEF u
  <2> QED
    BY <1>1, <2>1, <2>2, <2>3
<1>9. Seat((server.player + 1) % 2) = -Seat(server.player)
  BY <1>6 DEF Seat
<1>10. game' = "Chess" /\ (IsGameOver(game, made) <=> Chs!IsGameOver(made))
       /\ GetWinner(game, made) = Chs!GetWinner(made)
  BY ChessOps DEF Turn
<1>11. Makes(made)
  BY <1>2, ChessOps DEF made
<1> HIDE DEF next
<1>12. CASE Chs!IsGameOver(made)
  <2>1. server' = made /\ over' /\ winner' = Chs!GetWinner(made)
    BY <1>10, <1>11, <1>12 DEF Makes
  <2> QED
    BY <1>1, <1>5, <1>6, <1>8, <1>12, <2>1 DEF ChsInv
<1>13. CASE ~ Chs!IsGameOver(made)
  <2>1. server' = next /\ ~ over' /\ winner' = {}
    BY <1>10, <1>11, <1>13 DEF Makes, next
  <2>2. made.clock < 50
    BY <1>5, <1>13 DEF Chs!IsGameOver, ChessPosition
  <2>3. together' => ChessInStep(next, train')
    BY <1>7, <1>8 DEF ChessInStep
  <2>4. together' => train'.player = Seat(next.player)
    BY <1>1, <1>7, <1>8, <1>9
  <2> QED
    BY <1>7, <1>8, <2>1, <2>2, <2>3, <2>4 DEF ChsInv
<1> QED
  BY <1>12, <1>13

(* Chess starts with the same pieces on both sides.                        *)
LEMMA ChsInit ==
  ASSUME Init, game = "Chess"
  PROVE  ChsInv
<1>1. server = Chs!Initial /\ train = Trn!TrainInitial /\ ~ over /\ winner = {}
  BY ChessOps, ChessTrainingOps DEF Init
<1> DEFINE p == Chs!Initial
           t == Trn!TrainInitial
           cell(r, c) == IF r = 0 THEN Chs!Home[c + 1] ELSE IF r = 1 THEN 1
                         ELSE IF r = 6 THEN -1
                         ELSE IF r = 7 THEN -Chs!Home[c + 1] ELSE 0
           tcell(r, c) == IF r = 0 THEN Chs!Home[c + 1] + 6 ELSE IF r = 1 THEN 7
                         ELSE IF r = 6 THEN 1
                         ELSE IF r = 7 THEN Chs!Home[c + 1] ELSE 0
<1>2. /\ p.player = 0 /\ p.ep = {} /\ p.clock = 0
      /\ p.kingMoved = [w \in BOOLEAN |-> FALSE] /\ p.rookMoved = [w \in BOOLEAN |-> {}]
      /\ p.board = [r \in 0 .. 7 |-> [c \in 0 .. 7 |-> cell(r, c)]]
      /\ p = [board |-> p.board, player |-> 0, kingMoved |-> p.kingMoved,
              rookMoved |-> p.rookMoved, ep |-> {}, clock |-> 0]
  <2> DEFINE d(r, c) == CASE r = 0 -> Chs!Home[c + 1] [] r = 1 -> Chs!Pawn
                          [] r = 6 -> -Chs!Pawn [] r = 7 -> -Chs!Home[c + 1]
                          [] OTHER -> 0
             b == [r \in 0 .. 7 |-> [c \in 0 .. 7 |-> d(r, c)]]
  <2>1. p = [board |-> b, player |-> 0, kingMoved |-> [w \in BOOLEAN |-> FALSE],
             rookMoved |-> [w \in BOOLEAN |-> {}], ep |-> {}, clock |-> 0]
    BY DEF Chs!Initial
  <2>2. \A r \in 0 .. 7 : \A c : d(r, c) = cell(r, c)
    BY DEF Chs!Pawn
  <2>3. b = [r \in 0 .. 7 |-> [c \in 0 .. 7 |-> cell(r, c)]]
    BY <2>2
  <2> HIDE DEF b, p
  <2> QED
    BY <2>1, <2>3
<1>3. /\ t.player = 1 /\ t.ep = {} /\ t.rights = [w \in {1, -1} |-> {7, 0}]
      /\ t.board = [r \in 0 .. 7 |-> [c \in 0 .. 7 |-> tcell(r, c)]]
  <2> DEFINE far(c) == Trn!HomeRow[c + 1] + 6
             near(c) == Trn!HomeRow[c + 1]
             d(r, c) == CASE r = 0 -> far(c) [] r = 1 -> 7
                          [] r = 6 -> 1 [] r = 7 -> near(c)
                          [] OTHER -> 0
             b == [r \in 0 .. 7 |-> [c \in 0 .. 7 |-> d(r, c)]]
  <2>1. t = [board |-> b, player |-> 1, rights |-> [w \in {1, -1} |-> {7, 0}],
             ep |-> {}, history |-> <<>>]
    BY DEF Trn!TrainInitial, Trn!Kingside, Trn!Queenside
  <2>2. Trn!HomeRow = Chs!Home
    BY DEF Trn!HomeRow, Chs!Home
  <2>3. \A r \in 0 .. 7 : \A c : d(r, c) = tcell(r, c)
    <3>1. \A c : far(c) = Chs!Home[c + 1] + 6 /\ near(c) = Chs!Home[c + 1]
      BY <2>2
    <3> HIDE DEF far, near
    <3>2. \A r \in 0 .. 7 : \A c :
            d(r, c) = IF r = 0 THEN far(c) ELSE IF r = 1 THEN 7
                      ELSE IF r = 6 THEN 1 ELSE IF r = 7 THEN near(c) ELSE 0
      OBVIOUS
    <3> QED
      BY <3>1, <3>2
  <2> HIDE DEF d, tcell
  <2>4. b = [r \in 0 .. 7 |-> [c \in 0 .. 7 |-> tcell(r, c)]]
    BY <2>3
  <2> HIDE DEF b, t
  <2> QED
    BY <2>1, <2>4
<1> HIDE DEF p, t
<1>4. \A c \in 0 .. 7 : Chs!Home[c + 1] \in 1 .. 6 /\ (Chs!Home[c + 1] = 6 <=> c = 4)
  <2> TAKE c \in 0 .. 7
  <2>1. Chs!Home = <<4, 2, 3, 5, 6, 3, 2, 4>>
    BY DEF Chs!Home
  <2>2. c = 0 \/ c = 1 \/ c = 2 \/ c = 3 \/ c = 4 \/ c = 5 \/ c = 6 \/ c = 7
    OBVIOUS
  <2> QED
    BY <2>1, <2>2
<1>5. \A r \in 0 .. 7 : \A c \in 0 .. 7 :
        /\ cell(r, c) \in -6 .. 6
        /\ cell(r, c) = 6 <=> r = 0 /\ c = 4
        /\ cell(r, c) = -6 <=> r = 7 /\ c = 4
  BY <1>4
<1>6. p.board \in Men
  BY <1>2, <1>5 DEF Men, Boards, Pieces
<1>7. KingHome(p)
  <2> SUFFICES ASSUME NEW s \in Squares(8), NEW w \in BOOLEAN,
                      At(p.board, s) = 6 * Forward(w)
               PROVE  s = <<Row(w), 4>>
    BY DEF KingHome
  <2>1. s[1] \in 0 .. 7 /\ s[2] \in 0 .. 7 /\ s = <<s[1], s[2]>>
    BY DEF Squares
  <2>2. At(p.board, s) = cell(s[1], s[2])
    BY <1>2, <2>1 DEF At
  <2> HIDE DEF cell
  <2>3. CASE w = TRUE
    <3>1. 6 * Forward(w) = 6
      BY <2>3 DEF Forward
    <3> QED
      BY <1>5, <2>1, <2>2, <2>3, <3>1 DEF Row
  <2>4. CASE w = FALSE
    <3>1. 6 * Forward(w) = -6
      BY <2>4 DEF Forward
    <3> QED
      BY <1>5, <2>1, <2>2, <2>4, <3>1 DEF Row
  <2> QED
    BY <2>3, <2>4
<1>8. ChessPosition(p)
  <2>1. p \in [board : Men, player : {0, 1}, kingMoved : [BOOLEAN -> BOOLEAN],
            rookMoved : [BOOLEAN -> SUBSET {0, 7}], ep : SUBSET Squares(8),
            clock : 0 .. 50]
    <3>1. /\ p.kingMoved \in [BOOLEAN -> BOOLEAN]
          /\ p.rookMoved \in [BOOLEAN -> SUBSET {0, 7}]
      BY <1>2
    <3>2. {} \in SUBSET Squares(8) /\ 0 \in 0 .. 50 /\ 0 \in {0, 1}
      OBVIOUS
    <3> DEFINE b == p.board
               k == p.kingMoved
               r == p.rookMoved
    <3>3. p = [board |-> b, player |-> 0, kingMoved |-> k, rookMoved |-> r,
               ep |-> {}, clock |-> 0]
      BY <1>2
    <3>4. b \in Men /\ k \in [BOOLEAN -> BOOLEAN] /\ r \in [BOOLEAN -> SUBSET {0, 7}]
      BY <1>6, <3>1
    <3> HIDE DEF b, k, r
    <3> QED
      BY <3>2, <3>3, <3>4
  <2> QED
    BY <1>2, <1>7, <2>1 DEF ChessPosition
<1>9. ChessInStep(p, t)
  <2>1. t.board = BoardInTraining("Chess", p.board)
    <3> DEFINE B == BoardInTraining("Chess", p.board)
    <3>1. B = [r \in 0 .. 7 |-> [c \in 0 .. 7 |-> Code(p.board[7 - r][c])]]
      BY DEF BoardInTraining, Code
    <3>2. \A r \in 0 .. 7 : \A c \in 0 .. 7 : p.board[7 - r][c] = cell(7 - r, c)
      BY <1>2
    <3>3. \A r \in 0 .. 7 : \A c \in 0 .. 7 : Code(cell(7 - r, c)) = tcell(r, c)
      <4> TAKE r \in 0 .. 7
      <4> TAKE c \in 0 .. 7
      <4>1. /\ Chs!Home[c + 1] \in 1 .. 6
            /\ 7 - r = 0 <=> r = 7
            /\ 7 - r = 1 <=> r = 6
            /\ 7 - r = 6 <=> r = 1
            /\ 7 - r = 7 <=> r = 0
        BY <1>4
      <4> QED
        BY <4>1 DEF Code
    <3> HIDE DEF cell, tcell, B
    <3>4. B = [r \in 0 .. 7 |-> [c \in 0 .. 7 |-> tcell(r, c)]]
      BY <3>1, <3>2, <3>3
    <3> QED
      BY <1>3, <3>4 DEF B
  <2>2. t.ep = {Across(s) : s \in p.ep}
    BY <1>2, <1>3
  <2>3. t.rights \in [{1, -1} -> SUBSET {0, 7}]
    BY <1>3
  <2>4. \A w \in BOOLEAN :
          t.rights[Forward(w)] = IF p.kingMoved[w] THEN {} ELSE {0, 7} \ p.rookMoved[w]
    BY <1>2, <1>3 DEF Forward
  <2> QED
    BY <2>1, <2>2, <2>3, <2>4 DEF ChessInStep
<1>10. Seat(p.player) = t.player
  BY <1>2, <1>3 DEF Seat
<1>11. t.player \in {1, -1} /\ p.clock < 50
  BY <1>2, <1>3
<1> QED
  BY <1>1, <1>8, <1>9, <1>10, <1>11 DEF ChsInv, p, t

-----------------------------------------------------------------------------
(* The inductive invariant: for each game what its two implementations     *)
(* remember beside their boards is what the boards show.                   *)
Inv == game \in Games /\ TttInv /\ OmkInv /\ OthInv /\ ChsInv

(* The invariant holds in every state of a game.                           *)
THEOREM Invariance == Spec => []Inv
<1>1. Init => Inv
  <2> SUFFICES ASSUME Init PROVE Inv
    OBVIOUS
  <2>1. game \in Games
    BY BoardGamesAssumption DEF Init
  <2>2. TttInv
    BY TttInit DEF TttInv
  <2>3. OmkInv
    BY OmkInit DEF OmkInv
  <2>4. OthInv
    BY OthInit DEF OthInv
  <2>5. ChsInv
    BY ChsInit DEF ChsInv
  <2> QED
    BY <2>1, <2>2, <2>3, <2>4, <2>5 DEF Inv
<1>2. Inv /\ [Next]_vars => Inv'
  <2> SUFFICES ASSUME Inv, [Next]_vars PROVE Inv'
    OBVIOUS
  <2>1. CASE Turn
    <3>1. game' = game /\ game \in Games
      BY <2>1 DEF Turn, Inv
    <3>2. CASE game = "TicTacToe"
      BY <2>1, <3>1, <3>2, TttStep DEF Inv, OmkInv, OthInv, ChsInv, Games
    <3>3. CASE game = "Omok"
      BY <2>1, <3>1, <3>3, OmkStep DEF Inv, TttInv, OthInv, ChsInv, Games
    <3>4. CASE game = "Othello"
      BY <2>1, <3>1, <3>4, OthStep DEF Inv, TttInv, OmkInv, ChsInv, Games
    <3>5. CASE game = "Chess"
      BY <2>1, <3>1, <3>5, ChsStep DEF Inv, TttInv, OmkInv, OthInv, Games
    <3> QED
      BY <3>1, <3>2, <3>3, <3>4, <3>5 DEF Games
  <2>2. CASE UNCHANGED vars
    BY <2>2 DEF vars, Inv, TttInv, OmkInv, OthInv, ChsInv, StonesInStep
  <2> QED
    BY <2>1, <2>2 DEF Next
<1> QED
  BY <1>1, <1>2, PTL DEF Spec

(* A game that play ends is over.                                          *)
THEOREM OverIsOver == Spec => []EndIsReal
<1>1. Inv => EndIsReal
  <2> SUFFICES ASSUME Inv, over PROVE EndIsReal
    BY DEF EndIsReal
  <2>1. CASE game = "TicTacToe"
    <3>1. Ttt!IsGameOver(server) /\ winner = Ttt!GetWinner(server)
      BY <2>1 DEF Inv, TttInv
    <3>2. winner # {} \/ Full(server.board)
      BY <3>1, TttGrid DEF Ttt!IsGameOver, Ttt!GetWinner
    <3> QED
      BY <2>1, <3>2 DEF EndIsReal
  <2>2. CASE game = "Omok"
    <3>1. Omk!IsGameOver(server) /\ winner = server.winner
      BY <2>2 DEF Inv, OmkInv
    <3>2. winner # {} \/ Full(server.board)
      BY <3>1, OmkGrid DEF Omk!IsGameOver
    <3> QED
      BY <2>2, <3>2 DEF EndIsReal
  <2>3. CASE game = "Othello"
    <3>1. /\ Oth!IsGameOver(server)
          /\ server \in [board : Boards(8, Stones), player : {0, 1}, passes : {0, 1}]
      BY <2>3 DEF Inv, OthInv
    <3> DEFINE next == NextTurn(server)
    <3>2. ~ (server.passes >= 2)
      BY <3>1
    <3>3. \A s \in Squares(8) : Full(server.board) => At(server.board, s) # 0
      BY <3>1, FullMeans
    <3>4. Blocked(server.board, 1) /\ Blocked(server.board, -1)
      BY <3>1, <3>2, <3>3, OthelloServer DEF Blocked
    <3>5. next.board = server.board
      BY <3>1 DEF NextTurn
    <3>6. Oth!Stone(server.player) \in {1, -1} /\ Oth!Stone(next.player) \in {1, -1}
      BY DEF Oth!Stone
    <3>7. Oth!ValidMoves(server) = {} /\ Oth!ValidMoves(next) = {}
      <4>1. /\ Blocked(server.board, Oth!Stone(server.player))
            /\ Blocked(next.board, Oth!Stone(next.player))
        BY <3>4, <3>5, <3>6
      <4> HIDE DEF next
      <4> QED
        BY <4>1, OthelloServer
    <3>8. ValidMoves(game, server) = {} /\ ValidMoves(game, next) = {}
      BY <2>3, <3>7, OthelloOps
    <3> QED
      BY <2>3, <3>8 DEF EndIsReal
  <2>4. CASE game = "Chess"
    <3>1. Chs!IsGameOver(server)
      BY <2>4 DEF Inv, ChsInv
    <3>2. \/ server.clock >= 50 \/ Chs!IsInsufficientMaterial(server)
          \/ ValidMoves(game, server) = {}
      BY <2>4, <3>1, ChessOps
      DEF Chs!IsGameOver, Chs!IsCheckmate, Chs!IsStalemate
    <3> QED
      BY <2>4, <3>2 DEF EndIsReal
  <2> QED
    BY <2>1, <2>2, <2>3, <2>4 DEF Inv, Games
<1> QED
  BY <1>1, Invariance, PTL

(* A valid chess move that no index names is a promotion, and the knight's *)
(* comes with it.                                                          *)
LEMMA ChessNamed ==
  ASSUME NEW p, ChessPosition(p)
  PROVE  /\ \A m \in Chs!ValidMoves(p) : m[3] = 0 => IsPolicyMove("Chess", m)
         /\ \A m \in Chs!ValidMoves(p) :
              m[3] # 0 => \E n \in Chs!ValidMoves(p) : n[3] = 2
<1>1. ASSUME NEW m \in Chs!ValidMoves(p), m[3] = 0
      PROVE  IsPolicyMove("Chess", m)
  BY <1>1, ValidIsChessMove DEF ChessMove, ChessStep, IsPolicyMove
<1>2. ASSUME NEW m \in Chs!ValidMoves(p), m[3] # 0
      PROVE  \E n \in Chs!ValidMoves(p) : n[3] = 2
  <2>1. p.board \in Men /\ p.player \in {0, 1}
    BY DEF ChessPosition
  <2>2. PICK s, t, q :
          /\ t \in Chs!PieceMoves(p, s) /\ q \in Chs!Promotions(p, s, t)
          /\ m = <<s, t, q>> /\ Own(p.board, s, p.player = 0)
          /\ ~ Chs!WouldBeInCheckAfterMove(p, s, t, p.player = 0)
    BY <2>1, ChessMoveIs
  <2>3. q # 0
    BY <1>2, <2>2
  <2>4. Chs!Promotions(p, s, t) = 2 .. 5
    BY <2>2, <2>3 DEF Chs!Promotions
  <2>5. 2 \in Chs!Promotions(p, s, t)
    BY <2>4
  <2>6. <<s, t, 2>> \in Chs!ValidMoves(p)
    BY <2>1, <2>2, <2>5, ChessMoveIs
  <2> QED
    BY <2>6
<1> QED
  BY <1>1, <1>2

(* A game that goes on has a next move.                                    *)
THEOREM GoesOn == Spec => []EndNoticed
<1>1. Inv => EndNoticed
  <2> SUFFICES ASSUME Inv, ~ over PROVE EndNoticed
    BY DEF EndNoticed
  <2>1. CASE game = "TicTacToe"
    <3>1. ~ Ttt!IsGameOver(server) /\ server.board \in Boards(3, Stones)
      BY <2>1 DEF Inv, TttInv
    <3>2. ~ Full(server.board)
      BY <3>1, TttGrid DEF Ttt!IsGameOver
    <3>3. PICK s \in Squares(3) : At(server.board, s) = 0
      BY <3>1, <3>2, FullMeans
    <3>4. s \in ValidMoves("TicTacToe", server)
      BY <3>3, TicTacToeOps, TttGrid DEF Ttt!ValidMoves
    <3>5. IsPolicyMove("TicTacToe", s)
      BY DEF IsPolicyMove
    <3>6. Select("TicTacToe", server) # {}
      BY <3>4, <3>5, TicTacToeOps DEF SelectBase
    <3> QED
      BY <2>1, <3>6 DEF EndNoticed
  <2>2. CASE game = "Omok"
    <3>1. /\ ~ Omk!IsGameOver(server) /\ server.board \in Boards(OmokSize, Stones)
          /\ OmokSize \in Nat
      BY <2>2, BoardGamesAssumption DEF Inv, OmkInv
    <3>2. ~ Full(server.board)
      BY <3>1, OmkGrid DEF Omk!IsGameOver
    <3>3. PICK s \in Squares(OmokSize) : At(server.board, s) = 0
      BY <3>1, <3>2, FullMeans
    <3>4. s \in Select("Omok", server)
      BY <3>3, OmokOps DEF SelectOmok
    <3> QED
      BY <2>2, <3>4 DEF EndNoticed
  <2>3. CASE game = "Othello"
    <3>1. Select("Othello", server) # {}
      BY OthelloOps DEF SelectOthello
    <3> QED
      BY <2>3, <3>1 DEF EndNoticed
  <2>4. CASE game = "Chess"
    <3>1. ChessPosition(server)
      BY <2>4 DEF Inv, ChsInv
    <3>2. ASSUME NEW m \in Chs!ValidMoves(server)
          PROVE  SelectBase("Chess", server) # {}
      <4>1. ValidMoves("Chess", server) = Chs!ValidMoves(server)
        BY ChessOps
      <4> DEFINE valid == Chs!ValidMoves(server)
                 named == {n \in valid : IsPolicyMove("Chess", n)}
                 knights == {n \in valid : n[3] = 2}
      <4>2. named # {} \/ knights # {}
        BY <3>1, <3>2, ChessNamed
      <4>3. SelectBase("Chess", server) = IF named # {} THEN named ELSE knights
        BY <4>1 DEF SelectBase
      <4> HIDE DEF named, knights
      <4> QED
        BY <4>2, <4>3
    <3>3. Select("Chess", server) # {} \/ ValidMoves("Chess", server) = {}
      BY <3>2, ChessOps
    <3> QED
      BY <2>4, <3>3 DEF EndNoticed
  <2> QED
    BY <2>1, <2>2, <2>3, <2>4 DEF Inv, Games
<1> QED
  BY <1>1, Invariance, PTL

(* What the rules allow can be asked for; what is selected is accepted.    *)
THEOREM AskedAndAccepted == Spec => []Selectable
<1>1. Inv => Selectable
  <2> SUFFICES ASSUME Inv, ~ over PROVE Selectable
    BY DEF Selectable
  <2>1. \A m \in Select(game, server) : Accepts(game, server, m)
    BY SelectedIsAccepted DEF Inv
  <2>2. ASSUME NEW m \in ValidMoves(game, server)
        PROVE  IsPolicyMove(game, m) \/ (game = "Chess" /\ m[3] # 0)
    <3>1. CASE game # "Chess"
      BY <3>1 DEF IsPolicyMove
    <3>2. CASE game = "Chess"
      <4>1. ChessPosition(server) /\ m \in Chs!ValidMoves(server)
        BY <3>2, <2>2, ChessOps DEF Inv, ChsInv
      <4> QED
        BY <3>2, <4>1, ChessNamed
    <3> QED
      BY <3>1, <3>2
  <2> QED
    BY <2>1, <2>2 DEF Selectable
<1> QED
  BY <1>1, Invariance, PTL

(* The number of stones of a colour is a number.                           *)
LEMMA CountOfStones ==
  ASSUME NEW b, NEW v
  PROVE  Oth!Count(b, v) \in Nat
<1>1. IsFiniteSet(Squares(8))
  <2>1. IsFiniteSet(0 .. 7)
    <3>1. 0 \in Int /\ 7 \in Int
      OBVIOUS
    <3> QED
      BY <3>1, FS_Interval, Zenon
  <2> QED
    BY <2>1, FS_Product DEF Squares
<1>2. IsFiniteSet({s \in Squares(8) : At(b, s) = v})
  BY <1>1, FS_Subset
<1> QED
  <2>1. Cardinality({s \in Squares(8) : At(b, s) = v}) \in Nat
    BY <1>2, FS_CardinalityType
  <2> QED
    BY <2>1, OthGrid DEF Oth!Count, Oth!Cardinality, Cardinality

(* Type correctness of both implementations.                               *)
THEOREM TypeCorrect == Spec => []TypeOK
<1>1. Inv => TypeOK
  <2> SUFFICES ASSUME Inv PROVE TypeOK
    OBVIOUS
  <2> DEFINE Cells(values) ==
               \A r \in DOMAIN server.board : \A c \in DOMAIN server.board[r] :
                 server.board[r][c] \in values
  <2>1. ASSUME NEW n, NEW values, server.board \in Boards(n, values)
        PROVE  Cells(values)
    BY <2>1 DEF Boards
  <2>2. Stones = -1 .. 1 /\ Pieces = -6 .. 6
    BY DEF Stones, Pieces
  <2>3. CASE game = "TicTacToe"
    <3>1. /\ server \in [board : Boards(3, Stones), player : {0, 1}]
          /\ train.player \in {1, -1} /\ winner = Ttt!GetWinner(server)
      BY <2>3 DEF Inv, TttInv
    <3>2. winner \in {{}, {0}, {1}}
      <4>1. Ttt!CheckWinner(server.board) \subseteq {server.player}
        BY <2>3 DEF Inv, TttInv
      <4>2. winner \subseteq {server.player} /\ server.player \in {0, 1}
        BY <3>1, <4>1 DEF Ttt!GetWinner
      <4> QED
        BY <4>2
    <3>3. Cells(-1 .. 1)
      BY <2>1, <2>2, <3>1
    <3> QED
      BY <2>3, <3>1, <3>2, <3>3 DEF TypeOK, Games
  <2>4. CASE game = "Omok"
    <3>1. /\ server \in [board : Boards(OmokSize, Stones), player : {0, 1},
                         winner : {{}, {0}, {1}}]
          /\ train.player \in {1, -1} /\ winner = server.winner
      BY <2>4 DEF Inv, OmkInv
    <3>2. Cells(-1 .. 1)
      BY <2>1, <2>2, <3>1
    <3> QED
      BY <2>4, <3>1, <3>2 DEF TypeOK, Games
  <2>5. CASE game = "Othello"
    <3>1. /\ server \in [board : Boards(8, Stones), player : {0, 1}, passes : {0, 1}]
          /\ train.player \in {1, -1} /\ winner = Oth!GetWinner(server)
      BY <2>5 DEF Inv, OthInv
    <3>2. winner \in {{}, {0}, {1}}
      <4> DEFINE n(w) == Oth!Count(server.board, Oth!Stone(w))
                 m(w) == Oth!Count(server.board, -Oth!Stone(w))
      <4>1. winner = {} \/ winner = {w \in {0, 1} : n(w) > m(w)}
        BY <3>1 DEF Oth!GetWinner
      <4>2. n(0) = m(1) /\ n(1) = m(0)
        BY DEF Oth!Stone
      <4>3. n(0) \in Int /\ n(1) \in Int
        BY CountOfStones DEF Oth!Stone
      <4> HIDE DEF n, m
      <4>4. ~ (n(0) > m(0) /\ n(1) > m(1))
        BY <4>2, <4>3
      <4> QED
        BY <4>1, <4>4
    <3>3. Cells(-1 .. 1)
      BY <2>1, <2>2, <3>1
    <3> QED
      BY <2>5, <3>1, <3>2, <3>3 DEF TypeOK, Games
  <2>6. CASE game = "Chess"
    <3>1. ChessPosition(server) /\ train.player \in {1, -1}
      BY <2>6 DEF Inv, ChsInv
    <3>2. /\ server.board \in Men /\ server.player \in {0, 1}
          /\ server.rookMoved \in [BOOLEAN -> SUBSET {0, 7}]
          /\ server.clock \in 0 .. 50
          /\ server.ep = {} \/ \E s \in Squares(8) : server.ep = {s}
      BY <3>1 DEF ChessPosition
    <3>3. winner \in {{}, {0}, {1}}
      <4>1. winner = {} \/ winner = Chs!GetWinner(server)
        BY <2>6 DEF Inv, ChsInv
      <4>2. winner = {} \/ winner = {1 - server.player}
        BY <4>1 DEF Chs!GetWinner
      <4>3. 1 - server.player = 0 \/ 1 - server.player = 1
        BY <3>2
      <4> QED
        BY <4>2, <4>3
    <3>4. Cells(-6 .. 6)
      BY <2>1, <2>2, <3>2 DEF Men
    <3>5. \A w \in BOOLEAN : server.rookMoved[w] \subseteq {0, 7}
      BY <3>2
    <3> QED
      BY <2>6, <3>1, <3>2, <3>3, <3>4, <3>5 DEF TypeOK, Games
  <2> QED
    BY <2>3, <2>4, <2>5, <2>6 DEF Inv, Games
<1> QED
  BY <1>1, Invariance, PTL

(* While the training code follows, it sees what the game server sees.     *)
THEOREM SeesTheSame == Spec => []InStep
<1>1. Inv => InStep
  <2> SUFFICES ASSUME Inv, together PROVE InStep
    BY DEF InStep
  <2>1. CASE game # "Chess"
    <3>1. StonesInStep
      BY <2>1 DEF Inv, TttInv, OmkInv, OthInv, Games
    <3> QED
      BY <2>1, <3>1 DEF StonesInStep, InStep, BoardInTraining
  <2>2. CASE game = "Chess"
    <3>1. /\ ChessInStep(server, train)
          /\ train.player = IF over THEN -Seat(server.player) ELSE Seat(server.player)
      BY <2>2 DEF Inv, ChsInv
    <3> QED
      BY <2>2, <3>1 DEF ChessInStep, InStep, Forward
  <2> QED
    BY <2>1, <2>2
<1> QED
  BY <1>1, Invariance, PTL

(* Three in a row, cell by cell.                                           *)
Same(x, y, z, v) == x = v /\ y = v /\ z = v

(* A line of one colour, cell by cell.                                     *)
LEMMA HasLineIs ==
  ASSUME NEW b, NEW v
  PROVE  HasLine(b, v) <=>
           \/ \E i \in 0 .. 2 : Same(b[i][0], b[i][1], b[i][2], v)
           \/ \E j \in 0 .. 2 : Same(b[0][j], b[1][j], b[2][j], v)
           \/ Same(b[0][0], b[1][1], b[2][2], v)
           \/ Same(b[0][2], b[1][1], b[2][0], v)
<1> DEFINE Of(l) == \A s \in l : At(b, s) = v
           row(i) == {<<i, j>> : j \in 0 .. 2}
           column(j) == {<<i, j>> : i \in 0 .. 2}
           down == {<<i, i>> : i \in 0 .. 2}
           up == {<<i, 2 - i>> : i \in 0 .. 2}
<1>0. 0 .. 2 = {0, 1, 2}
  OBVIOUS
<1>1. Ttt!WinningLines = {row(i) : i \in 0 .. 2} \cup {column(j) : j \in 0 .. 2}
                           \cup {down, up}
  BY DEF Ttt!WinningLines
<1>2. HasLine(b, v) <=> \E l \in Ttt!WinningLines : Of(l)
  BY DEF HasLine
<1>3. ASSUME NEW i \in 0 .. 2
      PROVE  Of(row(i)) <=> Same(b[i][0], b[i][1], b[i][2], v)
  <2>1. row(i) = {<<i, 0>>, <<i, 1>>, <<i, 2>>}
    BY <1>0
  <2> HIDE DEF row
  <2> QED
    BY <2>1 DEF Same, At
<1>4. ASSUME NEW j \in 0 .. 2
      PROVE  Of(column(j)) <=> Same(b[0][j], b[1][j], b[2][j], v)
  <2>1. column(j) = {<<0, j>>, <<1, j>>, <<2, j>>}
    BY <1>0
  <2> HIDE DEF column
  <2> QED
    BY <2>1 DEF Same, At
<1>5. Of(down) <=> Same(b[0][0], b[1][1], b[2][2], v)
  <2>1. down = {<<0, 0>>, <<1, 1>>, <<2, 2>>}
    BY <1>0
  <2> HIDE DEF down
  <2> QED
    BY <2>1 DEF Same, At
<1>6. Of(up) <=> Same(b[0][2], b[1][1], b[2][0], v)
  <2>1. up = {<<0, 2>>, <<1, 1>>, <<2, 0>>}
    <3>1. up = {<<0, 2 - 0>>, <<1, 2 - 1>>, <<2, 2 - 2>>}
      BY <1>0
    <3> QED
      BY <3>1
  <2> HIDE DEF up
  <2> QED
    BY <2>1 DEF Same, At
<1> HIDE DEF Of, row, column, down, up
<1>7. HasLine(b, v) <=> \/ \E i \in 0 .. 2 : Of(row(i))
                        \/ \E j \in 0 .. 2 : Of(column(j))
                        \/ Of(down) \/ Of(up)
  BY <1>1, <1>2
<1> QED
  BY <1>3, <1>4, <1>5, <1>6, <1>7

(* The training code's sums find the lines.                                *)
LEMMA TicTacToeVerdict ==
  ASSUME NEW t, t.board \in Boards(3, Stones)
  PROVE  LET won == {v \in {1, -1} : HasLine(t.board, v)}
         IN Ttt!TrainGetWinner(t) = IF won # {} THEN won
                                    ELSE IF Full(t.board) THEN {0} ELSE {}
<1> DEFINE b == t.board
           sums == {b[i][0] + b[i][1] + b[i][2] : i \in 0 .. 2}
                     \cup {b[0][j] + b[1][j] + b[2][j] : j \in 0 .. 2}
                     \cup {b[0][0] + b[1][1] + b[2][2], b[0][2] + b[1][1] + b[2][0]}
           threes == {y \in sums : Size(y) = 3}
           found == {Sign(x) : x \in threes}
           won == {v \in {1, -1} : HasLine(b, v)}
<1>1. Ttt!TrainGetWinner(t) = IF found # {} THEN found
                              ELSE IF Full(b) THEN {0} ELSE {}
  <2>1. \A x : Ttt!Sign(x) = Sign(x) /\ Ttt!Size(x) = Size(x)
    BY DEF Ttt!Sign, Sign, Ttt!Size, Size
  <2>2. \A c : Ttt!Full(c) <=> Full(c)
    BY TttGrid
  <2> QED
    BY <2>1, <2>2 DEF Ttt!TrainGetWinner
<1>2. \A i \in 0 .. 2 : \A j \in 0 .. 2 : b[i][j] \in Stones
  BY DEF Boards
<1>3. ASSUME NEW x \in Stones, NEW y \in Stones, NEW z \in Stones
      PROVE  /\ Size(x + y + z) = 3 =>
                  \/ Same(x, y, z, 1) /\ Sign(x + y + z) = 1
                  \/ Same(x, y, z, -1) /\ Sign(x + y + z) = -1
             /\ \A v \in {1, -1} :
                  Same(x, y, z, v) => Size(x + y + z) = 3 /\ Sign(x + y + z) = v
  BY DEF Stones, Same, Size, Sign
<1>4. 0 \in 0 .. 2 /\ 1 \in 0 .. 2 /\ 2 \in 0 .. 2
  OBVIOUS
<1>5. ASSUME NEW x \in threes
      PROVE  \E v \in {1, -1} : Sign(x) = v /\ HasLine(b, v)
  <2>1. PICK x1 \in Stones, x2 \in Stones, x3 \in Stones :
          /\ x = x1 + x2 + x3
          /\ \A v : Same(x1, x2, x3, v) => HasLine(b, v)
    <3>1. CASE \E i \in 0 .. 2 : x = b[i][0] + b[i][1] + b[i][2]
      BY <1>2, <1>4, <3>1, HasLineIs
    <3>2. CASE \E j \in 0 .. 2 : x = b[0][j] + b[1][j] + b[2][j]
      BY <1>2, <1>4, <3>2, HasLineIs
    <3>3. CASE x = b[0][0] + b[1][1] + b[2][2]
      BY <1>2, <1>4, <3>3, HasLineIs
    <3>4. CASE x = b[0][2] + b[1][1] + b[2][0]
      BY <1>2, <1>4, <3>4, HasLineIs
    <3> QED
      BY <3>1, <3>2, <3>3, <3>4
  <2>2. Size(x1 + x2 + x3) = 3
    BY <2>1
  <2> QED
    BY <1>3, <2>1, <2>2
<1>6. ASSUME NEW v \in {1, -1}, HasLine(b, v)
      PROVE  \E x \in threes : Sign(x) = v
  <2>1. PICK x1 \in Stones, x2 \in Stones, x3 \in Stones :
          x1 + x2 + x3 \in sums /\ Same(x1, x2, x3, v)
    <3>1. CASE \E i \in 0 .. 2 : Same(b[i][0], b[i][1], b[i][2], v)
      BY <1>2, <1>4, <3>1
    <3>2. CASE \E j \in 0 .. 2 : Same(b[0][j], b[1][j], b[2][j], v)
      BY <1>2, <1>4, <3>2
    <3>3. CASE Same(b[0][0], b[1][1], b[2][2], v)
      BY <1>2, <1>4, <3>3
    <3>4. CASE Same(b[0][2], b[1][1], b[2][0], v)
      BY <1>2, <1>4, <3>4
    <3> QED
      BY <1>6, <3>1, <3>2, <3>3, <3>4, HasLineIs
  <2>2. Size(x1 + x2 + x3) = 3 /\ Sign(x1 + x2 + x3) = v
    BY <1>3, <2>1
  <2> QED
    BY <2>1, <2>2
<1> HIDE DEF threes
<1>7. found = won
  BY <1>5, <1>6
<1> HIDE DEF found, won
<1> QED
  BY <1>1, <1>7 DEF won

(* The test for the end is a truth value, and the server remembers it.     *)
LEMMA OverIsTruth == Spec => [](over \in BOOLEAN)
<1>1. \A g \in Games : \A p : IsGameOver(g, p) \in BOOLEAN
  <2> TAKE g \in Games
  <2> TAKE p
  <2>1. /\ Ttt!IsGameOver(p) \in BOOLEAN /\ Omk!IsGameOver(p) \in BOOLEAN
        /\ Oth!IsGameOver(p) \in BOOLEAN /\ Chs!IsGameOver(p) \in BOOLEAN
    BY DEF Ttt!IsGameOver, Omk!IsGameOver, Oth!IsGameOver, Chs!IsGameOver
  <2> QED
    BY <2>1 DEF IsGameOver, Games
<1>2. Init => over \in BOOLEAN
  BY DEF Init
<1>3. Inv /\ over \in BOOLEAN /\ [Next]_vars => (over \in BOOLEAN)'
  <2> SUFFICES ASSUME Inv, over \in BOOLEAN, [Next]_vars PROVE (over \in BOOLEAN)'
    OBVIOUS
  <2>1. CASE Turn
    <3>1. PICK m : Play(m)
      BY <2>1 DEF Turn
    <3>2. \E p : over' = IsGameOver(game, p)
      BY <3>1 DEF Play
    <3> QED
      BY <1>1, <3>2 DEF Inv
  <2>2. CASE UNCHANGED vars
    BY <2>2 DEF vars
  <2> QED
    BY <2>1, <2>2 DEF Next
<1> QED
  BY <1>2, <1>3, Invariance, PTL DEF Spec

(* The two implementations agree on when a game is over and who has won.   *)
THEOREM VerdictsAgree == Spec => []SameVerdict
<1>1. Inv /\ over \in BOOLEAN => SameVerdict
  <2> SUFFICES ASSUME Inv, over \in BOOLEAN, together, game # "Chess"
               PROVE  SameVerdict
    BY DEF SameVerdict
  <2>1. StonesInStep
    BY DEF Inv, TttInv, OmkInv, OthInv, Games
  <2>2. train.board = server.board
    BY <2>1 DEF StonesInStep
  <2> DEFINE verdict == TrainGetWinner(game, train)
             ends == TrainIsGameOver(game, train)
  <2>3. Seat(0) = 1 /\ Seat(1) = -1
    BY DEF Seat
  <2>4. SUFFICES (over <=> ends) /\ (over => winner = {w \in {0, 1} : verdict = {Seat(w)}})
    <3>1. ends \in BOOLEAN
      <4>1. /\ Ttt!TrainIsGameOver(train) \in BOOLEAN
            /\ Omk!TrainIsGameOver(train) \in BOOLEAN
            /\ Oth!TrainIsGameOver(train) \in BOOLEAN
        BY DEF Ttt!TrainIsGameOver, Omk!TrainIsGameOver, Oth!TrainIsGameOver
      <4> QED
        BY <4>1 DEF TrainIsGameOver, Inv, Games
    <3> QED
      BY <3>1 DEF SameVerdict
  <2>5. CASE game = "TicTacToe"
    <3> DEFINE b == server.board
               won == {v \in {1, -1} : HasLine(b, v)}
    <3>1. /\ b \in Boards(3, Stones) /\ (over <=> Ttt!IsGameOver(server))
          /\ winner = Ttt!GetWinner(server)
          /\ Ttt!CheckWinner(b) \subseteq {server.player}
      BY <2>5 DEF Inv, TttInv
    <3>2. Ttt!TrainGetWinner(train) = IF won # {} THEN won
                                      ELSE IF Full(b) THEN {0} ELSE {}
      BY <2>2, <3>1, TicTacToeVerdict
    <3>3. /\ verdict = Ttt!TrainGetWinner(train)
          /\ ends <=> verdict # {} \/ Full(b)
      BY <2>2, <2>5, TicTacToeTraining, TttGrid DEF Ttt!TrainIsGameOver
    <3>4. /\ Ttt!IsGameOver(server) <=> Ttt!CheckWinner(b) # {} \/ Full(b)
          /\ over => winner = Ttt!CheckWinner(b)
      BY <3>1, TttGrid DEF Ttt!IsGameOver, Ttt!GetWinner
    <3>5. /\ 0 \in Ttt!CheckWinner(b) <=> 1 \in won
          /\ 1 \in Ttt!CheckWinner(b) <=> -1 \in won
          /\ Ttt!CheckWinner(b) \subseteq {0, 1} /\ won \subseteq {1, -1}
      BY WinnerIs
    <3> HIDE DEF b, won, verdict, ends
    <3>6. over <=> ends
      BY <3>1, <3>2, <3>3, <3>4, <3>5
    <3>7. ~ (0 \in Ttt!CheckWinner(b) /\ 1 \in Ttt!CheckWinner(b))
      BY <3>1
    <3>8. over => winner = {w \in {0, 1} : verdict = {Seat(w)}}
      <4>1. won = {} \/ won = {1} \/ won = {-1}
        BY <3>5, <3>7
      <4>2. verdict = {1} <=> 1 \in won
        BY <3>2, <3>3, <4>1
      <4>3. verdict = {-1} <=> -1 \in won
        BY <3>2, <3>3, <4>1
      <4> QED
        BY <2>3, <3>4, <3>5, <4>2, <4>3
    <3> QED
      BY <3>6, <3>8 DEF verdict, ends
  <2>6. CASE game = "Omok"
    <3> DEFINE b == server.board
               won == {v \in {1, -1} : HasFive(b, v)}
    <3>1. /\ b \in Boards(OmokSize, Stones) /\ (over <=> Omk!IsGameOver(server))
          /\ winner = server.winner /\ server.winner \subseteq {server.player}
          /\ server.winner \in {{}, {0}, {1}}
          /\ \A w \in {0, 1} : w \in server.winner <=> HasFive(b, Seat(w))
      BY <2>6 DEF Inv, OmkInv
    <3>2. Omk!TrainGetWinner(train) = IF won # {} THEN won
                                      ELSE IF Full(b) THEN {0} ELSE {}
      BY <2>2, <3>1, OmokVerdict
    <3>3. /\ verdict = Omk!TrainGetWinner(train)
          /\ ends <=> verdict # {} \/ Full(b)
      BY <2>2, <2>6, OmokTraining, OmkGrid DEF Omk!TrainIsGameOver
    <3>4. Omk!IsGameOver(server) <=> server.winner # {} \/ Full(b)
      BY OmkGrid DEF Omk!IsGameOver
    <3>5. /\ 0 \in server.winner <=> 1 \in won
          /\ 1 \in server.winner <=> -1 \in won
          /\ won \subseteq {1, -1}
      BY <2>3, <3>1
    <3> HIDE DEF b, won, verdict, ends
    <3>6. over <=> ends
      BY <3>1, <3>2, <3>3, <3>4, <3>5
    <3>7. over => winner = {w \in {0, 1} : verdict = {Seat(w)}}
      <4>1. won = {} \/ won = {1} \/ won = {-1}
        <5>1. ~ (1 \in won /\ -1 \in won)
          BY <3>1, <3>5
        <5> QED
          BY <3>5, <5>1
      <4>2. verdict = {1} <=> 1 \in won
        BY <3>2, <3>3, <4>1
      <4>3. verdict = {-1} <=> -1 \in won
        BY <3>2, <3>3, <4>1
      <4> QED
        BY <2>3, <3>1, <3>5, <4>2, <4>3
    <3> QED
      BY <3>6, <3>7 DEF verdict, ends
  <2>7. CASE game = "Othello"
    <3> DEFINE b == server.board
               ones == Oth!Count(b, 1)
               others == Oth!Count(b, -1)
    <3>1. /\ server \in [board : Boards(8, Stones), player : {0, 1}, passes : {0, 1}]
          /\ train \in [board : Boards(8, Stones), player : {1, -1}]
          /\ over <=> Oth!IsGameOver(server)
          /\ winner = Oth!GetWinner(server)
      BY <2>7 DEF Inv, OthInv
    <3>2. ends <=> Oth!TrainIsGameOver(train)
      BY <2>7, OthelloTraining
    <3>3. over <=> ends
      <4>1. ~ (server.passes >= 2)
        BY <3>1
      <4> QED
        BY <2>2, <3>1, <3>2, <4>1, OthelloServer, OthelloTrained
    <3>4. ones \in Nat /\ others \in Nat
      BY CountOfStones
    <3>5. over => verdict = {Sign(ones - others)}
      <4>1. \A x : Oth!Sign(x) = Sign(x)
        BY DEF Oth!Sign, Sign
      <4> QED
        BY <2>2, <2>7, <3>2, <3>3, <4>1, OthelloTraining DEF Oth!TrainGetWinner
    <3>6. over => winner = {w \in {0, 1} : Oth!Count(b, Oth!Stone(w))
                                              > Oth!Count(b, -Oth!Stone(w))}
      BY <3>1 DEF Oth!GetWinner
    <3>7. /\ Oth!Stone(0) = 1 /\ -Oth!Stone(0) = -1
          /\ Oth!Stone(1) = -1 /\ -Oth!Stone(1) = 1
      <4>1. \A k \in Int : k + 1 = 0 => -k = 1
        OBVIOUS
      <4>2. Oth!Stone(0) = 1 /\ Oth!Stone(1) = -1
        BY DEF Oth!Stone
      <4>3. Oth!Stone(1) \in Int /\ Oth!Stone(1) + 1 = 0
        BY <4>2
      <4> QED
        BY <4>1, <4>2, <4>3
    <3>8. over => /\ 0 \in winner <=> ones > others
                  /\ 1 \in winner <=> others > ones
                  /\ winner \subseteq {0, 1}
      BY <3>6, <3>7
    <3> HIDE DEF b, ones, others, verdict, ends
    <3>9. over => /\ verdict = {Seat(0)} <=> ones > others
                  /\ verdict = {Seat(1)} <=> others > ones
      BY <2>3, <3>4, <3>5 DEF Sign
    <3>10. over => winner = {w \in {0, 1} : verdict = {Seat(w)}}
      BY <3>8, <3>9
    <3> QED
      BY <3>3, <3>10 DEF verdict, ends
  <2> QED
    BY <2>5, <2>6, <2>7 DEF Inv, Games
<1> QED
  BY <1>1, Invariance, OverIsTruth, PTL

(* The squares between two squares of one line; none is a corner.          *)
Inner(s, t) ==
  LET d == <<Sign(Rows(s, t)), Sign(Columns(s, t))>>
      far == IF Rows(s, t) = 0 THEN Size(Columns(s, t)) ELSE Size(Rows(s, t))
  IN {Go(s, d, k) : k \in 1 .. far - 1}
Corners == {0, 7} \X {0, 7}

(* A line is clear when the squares within it are empty.                   *)
LEMMA InnerIs ==
  ASSUME NEW s \in Squares(8), NEW t \in Squares(8), Straight(s, t) \/ Diagonal(s, t)
  PROVE  /\ \A b : Clear(b, s, t) <=> \A y \in Inner(s, t) : At(b, y) = 0
         /\ Inner(s, t) \subseteq Squares(8) \ Corners
<1> DEFINE d == <<Sign(Rows(s, t)), Sign(Columns(s, t))>>
           far == IF Rows(s, t) = 0 THEN Size(Columns(s, t)) ELSE Size(Rows(s, t))
<1>1. /\ s[1] \in 0 .. 7 /\ s[2] \in 0 .. 7 /\ t[1] \in 0 .. 7 /\ t[2] \in 0 .. 7
      /\ s = <<s[1], s[2]>> /\ t = <<t[1], t[2]>>
  BY DEF Squares
<1>2. \A b : Clear(b, s, t) <=> \A y \in Inner(s, t) : At(b, y) = 0
  <2>1. Inner(s, t) = {Go(s, d, k) : k \in 1 .. far - 1}
    BY DEF Inner
  <2>2. \A b : Clear(b, s, t) <=> \A k \in 1 .. far - 1 : At(b, Go(s, d, k)) = 0
    BY DEF Clear
  <2> HIDE DEF d, far
  <2> QED
    BY <2>1, <2>2
<1>3. ASSUME NEW a \in 0 .. 7, NEW c \in 0 .. 7, NEW k \in 1 .. Size(c - a) - 1
      PROVE  a + k * Sign(c - a) \in 1 .. 6
  <2>1. CASE c > a
    <3>1. Size(c - a) = c - a /\ Sign(c - a) = 1 /\ k * 1 = k
      BY <2>1 DEF Size, Sign
    <3> QED
      BY <2>1, <3>1
  <2>2. CASE c < a
    <3>1. Size(c - a) = a - c /\ Sign(c - a) = -1 /\ k * (-1) = -k
      BY <2>2 DEF Size, Sign
    <3> QED
      BY <2>2, <3>1
  <2>3. CASE c = a
    <3>1. Size(c - a) = 0
      BY <2>3 DEF Size
    <3> QED
      BY <3>1
  <2> QED
    BY <2>1, <2>2, <2>3
<1>4. ASSUME NEW k \in 1 .. far - 1
      PROVE  Go(s, d, k) \in Squares(8) \ Corners
  <2>1. Go(s, d, k) = <<s[1] + k * Sign(t[1] - s[1]), s[2] + k * Sign(t[2] - s[2])>>
    BY DEF Go, Rows, Columns
  <2>2. \A x \in 0 .. 7 : x - x = 0 /\ Sign(0) = 0 /\ x + k * 0 = x
    BY DEF Sign
  <2>3. CASE t[1] = s[1]
    <3>1. far = Size(t[2] - s[2])
      BY <1>1, <2>3 DEF Rows, Columns
    <3>2. s[2] + k * Sign(t[2] - s[2]) \in 1 .. 6
      BY <1>1, <1>3, <3>1
    <3>3. s[1] + k * Sign(t[1] - s[1]) = s[1]
      BY <1>1, <2>2, <2>3
    <3> QED
      BY <1>1, <2>1, <3>2, <3>3 DEF Squares, Corners
  <2>4. CASE t[1] # s[1]
    <3>1. far = Size(t[1] - s[1])
      BY <1>1, <2>4 DEF Rows, Columns
    <3>2. s[1] + k * Sign(t[1] - s[1]) \in 1 .. 6
      BY <1>1, <1>3, <3>1
    <3>3. s[2] + k * Sign(t[2] - s[2]) \in 0 .. 7
      <4>1. CASE t[2] = s[2]
        BY <1>1, <2>2, <4>1
      <4>2. CASE t[2] # s[2]
        <5>1. Diagonal(s, t)
          BY <1>1, <2>4, <4>2 DEF Straight, Rows, Columns
        <5>2. far = Size(t[2] - s[2])
          BY <3>1, <5>1 DEF Diagonal, Rows, Columns
        <5>3. s[2] + k * Sign(t[2] - s[2]) \in 1 .. 6
          BY <1>1, <1>3, <5>2
        <5> QED
          BY <5>3
      <4> QED
        BY <4>1, <4>2
    <3> QED
      BY <2>1, <3>2, <3>3 DEF Squares, Corners
  <2> QED
    BY <2>3, <2>4
<1>5. Inner(s, t) \subseteq Squares(8) \ Corners
  <2>1. Inner(s, t) = {Go(s, d, k) : k \in 1 .. far - 1}
    BY DEF Inner
  <2> HIDE DEF d, far
  <2> QED
    BY <1>4, <2>1
<1> QED
  BY <1>2, <1>5

(* A piece of the other colour attacks a king's square.                    *)
Hits(b, x, k) ==
  LET man == Man(b, x)
  IN \/ man = 1 /\ Rows(x, k) = Forward(At(b, x) > 0) /\ Size(Columns(x, k)) = 1
     \/ man = 2 /\ Leap(x, k)
     \/ man = 6 /\ Step(x, k)
     \/ man \in {3, 5} /\ Diagonal(x, k) /\ \A y \in Inner(x, k) : At(b, y) = 0
     \/ man \in {4, 5} /\ Straight(x, k) /\ \A y \in Inner(x, k) : At(b, y) = 0
Check(b, white) ==
  \E k \in Squares(8) : \E x \in Squares(8) :
    At(b, k) = 6 * Forward(white) /\ Own(b, x, ~ white) /\ Hits(b, x, k)

(* The codes of the two kings.                                             *)
LEMMA KingCode ==
  ASSUME NEW white \in BOOLEAN
  PROVE  /\ 6 * Forward(white) = IF white THEN 6 ELSE -6
         /\ 6 * Forward(white) # 0 /\ Size(6 * Forward(white)) = 6
         /\ 6 * Forward(white) > 0 <=> white
<1>1. CASE white = TRUE
  BY <1>1 DEF Forward, Size
<1>2. CASE white = FALSE
  <2>1. \A k \in 1 .. 6 : k * (-1) = -k /\ -k < 0 /\ Size(-k) = k
    BY DEF Size
  <2>2. 6 * Forward(white) = -6 /\ Size(-6) = 6 /\ -6 < 0
    BY <1>2, <2>1 DEF Forward
  <2> QED
    BY <1>2, <2>2
<1> QED
  BY <1>1, <1>2

(* is_in_check looks at the board only.                                    *)
LEMMA CheckIs ==
  ASSUME NEW p, p.board \in Men, NEW white \in BOOLEAN
  PROVE  Chs!IsInCheck(p, white) <=> Check(p.board, white)
<1> DEFINE b == p.board
<1>1. Chs!IsInCheck(p, white) <=>
        \E k \in Squares(8) : At(b, k) = 6 * Forward(white)
                                /\ Chs!IsSquareAttacked(p, k, ~ white)
  BY KingCode, ChsGrid DEF Chs!IsInCheck, Chs!King
<1>2. ASSUME NEW k \in Squares(8), At(b, k) = 6 * Forward(white)
      PROVE  Chs!IsSquareAttacked(p, k, ~ white) <=>
               \E x \in Squares(8) : Own(b, x, ~ white) /\ Hits(b, x, k)
  <2>1. Chs!IsSquareAttacked(p, k, ~ white) <=>
          \E x \in Squares(8) :
            /\ Own(b, x, ~ white)
            /\ IF Man(b, x) = 1 THEN Chs!PawnAttacksSquare(x, ~ white, k)
               ELSE Chs!Reaches(p, x, k)
    <3>1. \A x : (At(b, x) # 0 /\ Chs!IsWhite(At(b, x)) = (~ white)) <=> Own(b, x, ~ white)
      BY DEF Own, Chs!IsWhite
    <3> QED
      BY <3>1, ChsGrid, ChsGeometry DEF Chs!IsSquareAttacked, Man, Chs!Pawn
  <2>2. ASSUME NEW x \in Squares(8), Own(b, x, ~ white)
        PROVE  (IF Man(b, x) = 1 THEN Chs!PawnAttacksSquare(x, ~ white, k)
                ELSE Chs!Reaches(p, x, k)) <=> Hits(b, x, k)
    <3>1. At(b, x) > 0 <=> ~ white
      BY <2>2 DEF Own
    <3>2. CASE Man(b, x) = 1
      <4>1. Forward(At(b, x) > 0) = Chs!Forward(~ white)
        BY <3>1 DEF Forward, Chs!Forward
      <4> QED
        BY <3>2, <4>1, ChsGeometry DEF Chs!PawnAttacksSquare, Hits
    <3>3. CASE Man(b, x) # 1
      <4>1. Chs!IsEnemy(At(b, k), Chs!IsWhite(At(b, x)))
        BY <1>2, <3>1, KingCode DEF Chs!IsEnemy, Chs!IsWhite
      <4>2. Chs!Reaches(p, x, k) <=>
              \/ Man(b, x) = 2 /\ Leap(x, k)
              \/ Man(b, x) = 6 /\ Step(x, k)
              \/ Man(b, x) \in {3, 5} /\ Diagonal(x, k) /\ Clear(b, x, k)
              \/ Man(b, x) \in {4, 5} /\ Straight(x, k) /\ Clear(b, x, k)
        BY <3>3, <4>1, ChsGrid, ChsGeometry
        DEF Chs!Reaches, Man, Chs!Pawn, Chs!Knight, Chs!Bishop, Chs!Rook,
            Chs!Queen, Chs!King
      <4>3. Straight(x, k) \/ Diagonal(x, k) =>
              (Clear(b, x, k) <=> \A y \in Inner(x, k) : At(b, y) = 0)
        BY InnerIs
      <4> QED
        BY <3>3, <4>2, <4>3 DEF Hits
    <3> QED
      BY <3>2, <3>3
  <2> HIDE DEF b
  <2> QED
    BY <2>1, <2>2
<1> HIDE DEF b
<1> QED
  BY <1>1, <1>2 DEF Check, b

(* The board a move is tried out on.                                       *)
Tried(p, s, t) == Put(Put(p.board, t, At(p.board, s)), s, 0)

(* A valid move was tried out, and left no check on the board of the       *)
(* trial.                                                                  *)
LEMMA TriedIs ==
  ASSUME NEW p, ChessPosition(p), NEW m, ChessStep(p, m), NEW white \in BOOLEAN,
         white <=> (p.player = 0), NEW T, T = Tried(p, m[1], m[2])
  PROVE  /\ Chs!WouldBeInCheckAfterMove(p, m[1], m[2], p.player = 0) <=> Check(T, white)
         /\ T \in Men
         /\ \A x \in Squares(8) :
              At(T, x) = IF x = m[1] THEN 0
                         ELSE IF x = m[2] THEN At(p.board, m[1]) ELSE At(p.board, x)
<1>1. /\ m[1] \in Squares(8) /\ m[2] \in Squares(8) /\ m[1] # m[2] /\ p.board \in Men
      /\ At(p.board, m[1]) \in Pieces /\ 0 \in Pieces /\ 8 \in Nat
  BY ManIs DEF ChessStep, ChessPosition, Pieces
<1> DEFINE b == Put(p.board, m[2], At(p.board, m[1]))
<1>2. /\ b \in Boards(8, Pieces) /\ At(b, m[2]) = At(p.board, m[1])
      /\ \A x \in Squares(8) : x # m[2] => At(b, x) = At(p.board, x)
  BY <1>1, PutIs DEF Men
<1> HIDE DEF b
<1>3. /\ Put(b, m[1], 0) \in Boards(8, Pieces) /\ At(Put(b, m[1], 0), m[1]) = 0
      /\ \A x \in Squares(8) : x # m[1] => At(Put(b, m[1], 0), x) = At(b, x)
  BY <1>1, <1>2, PutIs
<1>4. T = Put(b, m[1], 0)
  BY DEF Tried, b
<1>5. /\ T \in Men
      /\ \A x \in Squares(8) :
           At(T, x) = IF x = m[1] THEN 0
                      ELSE IF x = m[2] THEN At(p.board, m[1]) ELSE At(p.board, x)
  BY <1>1, <1>2, <1>3, <1>4 DEF Men
<1>6. Chs!WouldBeInCheckAfterMove(p, m[1], m[2], p.player = 0) <=> Check(T, white)
  <2> DEFINE q == [p EXCEPT !.board = T]
  <2>1. Chs!WouldBeInCheckAfterMove(p, m[1], m[2], p.player = 0) <=>
          Chs!IsInCheck(q, p.player = 0)
    BY ChsGrid DEF Chs!WouldBeInCheckAfterMove, Tried
  <2>2. (p.player = 0) = white
    OBVIOUS
  <2>3. Chs!WouldBeInCheckAfterMove(p, m[1], m[2], p.player = 0) <=> Chs!IsInCheck(q, white)
    BY <2>1, <2>2
  <2>4. q.board = T
    BY DEF ChessPosition
  <2> HIDE DEF q
  <2> QED
    BY <1>5, <2>3, <2>4, CheckIs
<1> QED
  BY <1>5, <1>6

(* An attack stays one where the same squares are empty and the attacker   *)
(* and the king stand as they do.                                          *)
LEMMA HitsOn ==
  ASSUME NEW b, NEW c, NEW x \in Squares(8), NEW k \in Squares(8), Hits(b, x, k),
         At(c, x) = At(b, x),
         \A y \in Squares(8) \ Corners : At(b, y) = 0 => At(c, y) = 0
  PROVE  Hits(c, x, k)
<1>1. Man(c, x) = Man(b, x)
  BY DEF Man
<1>2. Straight(x, k) \/ Diagonal(x, k) =>
        ((\A y \in Inner(x, k) : At(b, y) = 0) => \A y \in Inner(x, k) : At(c, y) = 0)
  BY InnerIs
<1> QED
  BY <1>1, <1>2 DEF Hits

(* A king that castles is attacked afterwards only by the other king, when *)
(* that one stood on the corner.                                           *)
LEMMA CastlesSafely ==
  ASSUME NEW p, ChessPosition(p), NEW m, ChessMove(p, m), Castling(p, m),
         NEW white \in BOOLEAN, white <=> (p.player = 0),
         NEW R, R = Chs!Moved(p, m), Check(R, white)
  PROVE  /\ m[2] = <<Row(white), 2>>
         /\ At(p.board, <<Row(white), 0>>) = -(6 * Forward(white))
         /\ At(R, <<Row(white), 3>>) = -(6 * Forward(white))
<1> DEFINE s == m[1]
           t == m[2]
           b == p.board
           r == Row(white)
           king == 6 * Forward(white)
           T == Tried(p, s, t)
           corner == Corner(m)
           beside == Beside(m)
<1>1. /\ s = <<r, 4>> /\ t \in {<<r, 2>>, <<r, 6>>} /\ t \in Chs!CastlingMoves(p, white)
      /\ b \in Men /\ Own(b, s, white) /\ Man(b, s) = 6 /\ KingHome(p)
      /\ s \in Squares(8) /\ t \in Squares(8) /\ r \in {0, 7}
  <2>1. /\ p.player = 0 <=> white
        /\ Row(p.player = 0) = Row(white)
        /\ Chs!CastlingMoves(p, p.player = 0) = Chs!CastlingMoves(p, white)
        /\ Own(b, s, p.player = 0) <=> Own(b, s, white)
    <3>1. (p.player = 0) = white
      OBVIOUS
    <3> QED
      BY <3>1
  <2> QED
    BY <2>1 DEF ChessMove, ChessStep, ChessPosition, Castling, Row
<1>2. At(b, s) = king
  BY <1>1, ManIs
<1>3. /\ ~ p.kingMoved[white]
      /\ t = <<r, 6>> => b[r][5] = 0 /\ b[r][6] = 0
      /\ t = <<r, 2>> => b[r][1] = 0 /\ b[r][2] = 0 /\ b[r][3] = 0
  <2> DEFINE Safe(c) == ~ Chs!IsSquareAttacked(p, <<r, c>>, ~ white)
             Empty(c) == b[r][c] = 0
  <2>1. ~ p.kingMoved[white] /\ ~ Chs!IsInCheck(p, white)
    BY <1>1 DEF Chs!CastlingMoves
  <2>2. Chs!CastlingMoves(p, white) =
          {u \in {<<r, 2>>, <<r, 6>>} :
             IF u[2] = 6
             THEN /\ 7 \notin p.rookMoved[white]
                  /\ \A c \in {5, 6} : Empty(c) /\ Safe(c)
             ELSE /\ 0 \notin p.rookMoved[white]
                  /\ \A c \in {1, 2, 3} : Empty(c)
                  /\ \A c \in {2, 3} : Safe(c)}
    BY <2>1 DEF Chs!CastlingMoves, Row
  <2> HIDE DEF Safe
  <2>3. IF t[2] = 6 THEN \A c \in {5, 6} : Empty(c) ELSE \A c \in {1, 2, 3} : Empty(c)
    BY <1>1, <2>2
  <2>4. t = <<r, 6>> => t[2] = 6
    OBVIOUS
  <2>5. t = <<r, 2>> => t[2] # 6
    OBVIOUS
  <2> QED
    BY <2>1, <2>3, <2>4, <2>5
<1>4. /\ ~ Check(T, white) /\ T \in Men
      /\ \A x \in Squares(8) :
           At(T, x) = IF x = s THEN 0 ELSE IF x = t THEN At(b, s) ELSE At(b, x)
  BY TriedIs DEF ChessMove
<1>5. /\ R \in Men
      /\ \A x \in Squares(8) :
           At(R, x) = IF x = t THEN At(b, s)
                      ELSE IF x = s THEN 0
                      ELSE IF x = corner THEN 0
                      ELSE IF x = beside THEN At(b, corner)
                      ELSE At(b, x)
  <2>1. Placed(p, m) = At(b, s) /\ Passed(p, m) = {}
    BY <1>1, MovedBoard DEF ChessMove, Passed
  <2> QED
    BY <2>1, MovedBoard DEF ChessMove
<1> HIDE DEF T
<1>6. /\ corner \in Squares(8) /\ corner \in Corners
      /\ beside \in Squares(8) /\ corner # beside /\ corner # s /\ corner # t
      /\ beside # s /\ beside # t
      /\ t = <<r, 6>> => corner = <<r, 7>> /\ beside = <<r, 5>>
      /\ t = <<r, 2>> => corner = <<r, 0>> /\ beside = <<r, 3>>
  BY <1>1 DEF Corner, Beside, Squares, Corners
<1>7. At(b, beside) = 0
  BY <1>1, <1>3, <1>6 DEF At
<1>8. PICK k \in Squares(8), x \in Squares(8) :
        At(R, k) = king /\ Own(R, x, ~ white) /\ Hits(R, x, k)
  BY DEF Check
<1>9. king # 0 /\ (king > 0 <=> white)
  BY KingCode
<1>10. \A y \in Squares(8) : At(b, y) = king => y = s
  BY <1>1, <1>3 DEF KingHome
<1> HIDE DEF s, t, b, r, king, corner, beside
<1>11. k = t
  <2>1. At(b, corner) # king
    BY <1>6, <1>10
  <2> QED
    BY <1>5, <1>8, <1>9, <1>10, <2>1
<1>12. At(T, t) = king
  BY <1>1, <1>2, <1>4, <1>6, <1>5
<1>13. \A y \in Squares(8) \ Corners : At(R, y) = 0 => At(T, y) = 0
  BY <1>4, <1>5, <1>6, <1>7
<1>14. x = beside
  <2> SUFFICES ASSUME x # beside PROVE FALSE
    OBVIOUS
  <2>1. x # t /\ x # s /\ x # corner
    BY <1>1, <1>2, <1>5, <1>8, <1>9 DEF Own
  <2>2. At(T, x) = At(R, x)
    BY <1>4, <1>5, <2>1
  <2>3. Hits(T, x, k)
    BY <1>8, <1>13, <2>2, HitsOn
  <2>4. Own(T, x, ~ white)
    BY <1>8, <2>2 DEF Own
  <2> QED
    BY <1>1, <1>4, <1>11, <1>12, <2>3, <2>4 DEF Check, king
<1>15. At(R, beside) = At(b, corner) /\ At(T, corner) = At(b, corner)
  BY <1>4, <1>5, <1>6
<1>16. Own(T, corner, ~ white)
  BY <1>8, <1>14, <1>15 DEF Own
<1>17. ~ Hits(T, corner, t)
  BY <1>1, <1>4, <1>6, <1>12, <1>16 DEF Check, king
<1>18. Man(R, beside) = Man(T, corner)
  BY <1>15 DEF Man
<1>19. Hits(R, beside, t)
  BY <1>8, <1>11, <1>14
<1>20. beside[1] = r /\ t[1] = r /\ Size(Columns(beside, t)) = 1 /\ r \in Int
  <2>1. CASE t = <<r, 6>>
    BY <1>1, <1>6, <2>1 DEF Columns, Size
  <2>2. CASE t = <<r, 2>>
    BY <1>1, <1>6, <2>2 DEF Columns, Size
  <2> QED
    BY <1>1, <2>1, <2>2
<1>21. Man(R, beside) \in {4, 5, 6}
  <2>1. Rows(beside, t) = 0
    BY <1>20 DEF Rows
  <2>2. Columns(beside, t) \in {1, -1}
    <3>1. beside[2] \in Int /\ t[2] \in Int
      BY <1>1, <1>6 DEF Squares
    <3> QED
      BY <1>20, <3>1 DEF Columns, Size
  <2>3. ~ Leap(beside, t) /\ ~ Diagonal(beside, t)
    BY <2>1, <2>2 DEF Leap, Diagonal, Size
  <2>4. \A v : Forward(v) # 0
    BY DEF Forward
  <2> QED
    BY <1>19, <2>1, <2>3, <2>4 DEF Hits
<1>22. t = <<r, 2>>
  <2> SUFFICES ASSUME t = <<r, 6>> PROVE FALSE
    BY <1>1
  <2>1. corner = <<r, 7>>
    BY <1>6
  <2>2. /\ Straight(corner, t) /\ Step(corner, t)
        /\ Rows(corner, t) = 0 /\ Size(Columns(corner, t)) = 1
    <3>1. /\ corner[1] = r /\ corner[2] = 7 /\ t[1] = r /\ t[2] = 6
          /\ r \in Int /\ corner # t
      BY <1>20, <1>6, <2>1
    <3>2. Rows(corner, t) = 0 /\ Columns(corner, t) = -1
      BY <3>1 DEF Rows, Columns
    <3>3. Size(0) = 0 /\ \A z \in Int : z + 1 = 0 => Size(z) = 1
      BY DEF Size
    <3>4. Size(Columns(corner, t)) = 1
      BY <3>2, <3>3
    <3> QED
      BY <3>1, <3>2, <3>3, <3>4 DEF Straight, Step
  <2>3. Inner(corner, t) = {}
    BY <2>2 DEF Inner
  <2> QED
    BY <1>17, <1>18, <1>21, <2>2, <2>3 DEF Hits
<1>23. Man(R, beside) = 6
  <2> SUFFICES ASSUME Man(R, beside) \in {4, 5} PROVE FALSE
    BY <1>21
  <2>1. corner = <<r, 0>>
    BY <1>6, <1>22
  <2>2. /\ Straight(corner, t) /\ Rows(corner, t) = 0
        /\ Columns(corner, t) = 2 /\ Size(Columns(corner, t)) = 2
    BY <1>20, <1>22, <2>1 DEF Straight, Rows, Columns, Size
  <2>3. Inner(corner, t) \subseteq {<<r, 1>>}
    <3> DEFINE d == <<Sign(Rows(corner, t)), Sign(Columns(corner, t))>>
    <3>1. d = <<0, 1>>
      BY <2>2 DEF Sign
    <3>2. Go(corner, d, 1) = <<r, 1>>
      BY <1>20, <2>1, <3>1 DEF Go
    <3>3. Inner(corner, t) = {Go(corner, d, j) : j \in 1 .. 1}
      BY <2>2 DEF Inner
    <3> HIDE DEF d
    <3>4. \A j \in 1 .. 1 : j = 1
      OBVIOUS
    <3> QED
      BY <3>2, <3>3, <3>4
  <2>4. At(T, <<r, 1>>) = 0
    <3>1. <<r, 1>> \in Squares(8) /\ <<r, 1>> # t
      BY <1>1, <1>22 DEF Squares
    <3>2. At(b, <<r, 1>>) = 0
      BY <1>3, <1>22 DEF At
    <3> QED
      BY <1>4, <3>1, <3>2
  <2> QED
    BY <1>17, <1>18, <2>2, <2>3, <2>4 DEF Hits
<1>24. At(R, beside) = -king
  <2>1. Own(R, beside, ~ white) /\ Man(R, beside) = 6
    BY <1>8, <1>14, <1>23
  <2>2. At(R, beside) \in Int
    BY <1>5, <1>6, ManIs DEF Pieces
  <2> QED
    BY <2>1, <2>2, KingCode DEF Own, Man, Size, king
<1> QED
  BY <1>6, <1>15, <1>22, <1>24 DEF king, r, b, t

(* A pawn that takes in passing stands on the square it took on.           *)
LEMMA TakenInPassing ==
  ASSUME NEW p, ChessPosition(p), NEW m, ChessMove(p, m), m[2] \in p.ep,
         Man(p.board, m[1]) = 1
  PROVE  At(Chs!Moved(p, m), m[2]) = Seat(p.player)
<1>1. PICK white \in BOOLEAN : white <=> (p.player = 0)
  OBVIOUS
<1>2. /\ m[1] \in Squares(8) /\ m[2] \in Squares(8) /\ Own(p.board, m[1], white)
      /\ p.board \in Men /\ m[2][1] \in {2, 5}
  BY <1>1 DEF ChessMove, ChessStep, ChessPosition, Own
<1>3. Placed(p, m) = At(p.board, m[1])
  BY <1>2 DEF Placed
<1>4. At(p.board, m[1]) = 1 * Forward(white)
  BY <1>2, ManIs
<1>5. 1 * Forward(white) = Seat(p.player)
  BY <1>1 DEF Forward, Seat
<1> QED
  BY <1>2, <1>3, <1>4, <1>5, MovedBoard DEF ChessMove

(* Any other move leaves the mover's king safe: the board it was tried out *)
(* on is the one it makes, but for what a pawn has become.                 *)
LEMMA MovesSafely ==
  ASSUME NEW p, ChessPosition(p), NEW m, ChessMove(p, m), ~ Castling(p, m),
         ~ (m[2] \in p.ep /\ Man(p.board, m[1]) = 1),
         NEW white \in BOOLEAN, white <=> (p.player = 0),
         NEW R, R = Chs!Moved(p, m)
  PROVE  ~ Check(R, white)
<1> SUFFICES ASSUME Check(R, white) PROVE FALSE
  OBVIOUS
<1> DEFINE s == m[1]
           t == m[2]
           b == p.board
           king == 6 * Forward(white)
           T == Tried(p, s, t)
<1>1. /\ s \in Squares(8) /\ t \in Squares(8) /\ s # t /\ b \in Men
      /\ Own(b, s, white)
  <2>1. Own(b, s, p.player = 0) <=> Own(b, s, white)
    BY DEF Own
  <2> QED
    BY <2>1 DEF ChessMove, ChessStep, ChessPosition
<1>2. /\ ~ Check(T, white) /\ T \in Men
      /\ \A x \in Squares(8) :
           At(T, x) = IF x = s THEN 0 ELSE IF x = t THEN At(b, s) ELSE At(b, x)
  BY TriedIs DEF ChessMove
<1>3. /\ R \in Men
      /\ \A x \in Squares(8) :
           At(R, x) = IF x = t THEN Placed(p, m) ELSE IF x = s THEN 0 ELSE At(b, x)
      /\ Placed(p, m) # 0 /\ (Placed(p, m) > 0 <=> white)
      /\ Man(b, s) # 1 => Placed(p, m) = At(b, s)
      /\ Man(b, s) = 1 => Size(Placed(p, m)) \in 1 .. 5
  <2>1. Passed(p, m) = {}
    BY DEF Passed
  <2> QED
    BY <1>1, <2>1, MovedBoard DEF ChessMove
<1>4. PICK k \in Squares(8), x \in Squares(8) :
        At(R, k) = king /\ Own(R, x, ~ white) /\ Hits(R, x, k)
  BY DEF Check
<1>5. king # 0 /\ Size(king) = 6
  BY KingCode
<1> HIDE DEF s, t, b, king, T
<1>6. x # t /\ At(T, x) = At(R, x)
  BY <1>1, <1>2, <1>3, <1>4 DEF Own
<1>7. At(T, k) = king
  <2>1. CASE k = t
    <3>1. Placed(p, m) = king
      BY <1>3, <1>4, <2>1
    <3>2. Placed(p, m) = At(b, s)
      BY <1>3, <1>5, <3>1
    <3> QED
      BY <1>1, <1>2, <2>1, <3>1, <3>2
  <2>2. CASE k # t
    BY <1>2, <1>3, <1>4, <1>5, <2>2
  <2> QED
    BY <2>1, <2>2
<1>8. \A y \in Squares(8) : At(R, y) = 0 => At(T, y) = 0
  BY <1>1, <1>2, <1>3
<1>9. Hits(T, x, k) /\ Own(T, x, ~ white)
  BY <1>4, <1>6, <1>8, HitsOn DEF Own
<1> QED
  BY <1>2, <1>7, <1>9 DEF Check, king

(* A chess move leaves the mover's king safe, but for the two moves whose  *)
(* test looks at another board.                                            *)
THEOREM KingStaysSafe == Spec => KingSafe
<1> DEFINE Safe ==
      game = "Chess" =>
       LET white == server.player = 0
           row == IF white THEN 0 ELSE 7
           enemy == IF white THEN -Chs!King ELSE Chs!King
       IN \/ ~ Chs!IsInCheck(server', white)
          \/ \E e \in server.ep : At(server'.board, e) = Seat(server.player)
          \/ At(server.board, <<row, 0>>) = enemy
               /\ At(server'.board, <<row, 3>>) = enemy
<1>1. Inv /\ [Next]_vars => [Safe]_vars
  <2> SUFFICES ASSUME Inv, Turn, game = "Chess" PROVE Safe
    BY DEF Next
  <2>1. ChessPosition(server)
    BY DEF Inv, ChsInv
  <2>2. PICK m \in Select(game, server) : Makes(MakeMove(game, server, m))
    BY TurnIs DEF Inv
  <2>3. ChessMove(server, m)
    <3>1. m \in Chs!ValidMoves(server)
      BY ChessOps DEF SelectBase
    <3> QED
      BY <2>1, <3>1, ValidIsChessMove
  <2>4. PICK white \in BOOLEAN : white <=> (server.player = 0)
    OBVIOUS
  <2> DEFINE R == Chs!Moved(server, m)
             made == Chs!MakeMove(server, m)
  <2>5. server'.board = R /\ R \in Men
    <3>1. ChessMakes(server, m, white, made)
      BY <2>1, <2>3, <2>4, ChessMade
    <3> HIDE DEF made
    <3>2. made.board = R /\ NextTurn(made).board = made.board
      BY <3>1 DEF ChessMakes, NextTurn
    <3>3. Makes(made)
      BY <2>2, ChessOps DEF made
    <3>4. R \in Men
      BY <2>1, <2>3, MovedBoard DEF ChessMove
    <3> QED
      BY <3>2, <3>3, <3>4 DEF Makes
  <2> HIDE DEF R
  <2>6. Chs!IsInCheck(server', white) <=> Check(R, white)
    <3>1. \A q : q.board = R => (Chs!IsInCheck(q, white) <=> Check(R, white))
      BY <2>5, CheckIs
    <3> QED
      BY <2>5, <3>1
  <2>7. (server.player = 0) = white
    BY <2>4
  <2>8. CASE m[2] \in server.ep /\ Man(server.board, m[1]) = 1
    <3>1. At(server'.board, m[2]) = Seat(server.player)
      BY <2>1, <2>3, <2>5, <2>8, TakenInPassing DEF R
    <3> QED
      BY <2>8, <3>1
  <2>9. CASE Castling(server, m)
    <3>1. Check(R, white) =>
            /\ At(server.board, <<Row(white), 0>>) = -(6 * Forward(white))
            /\ At(R, <<Row(white), 3>>) = -(6 * Forward(white))
      BY <2>1, <2>3, <2>4, <2>9, CastlesSafely DEF R
    <3>2. -(6 * Forward(white)) = IF white THEN -Chs!King ELSE Chs!King
      <4>1. \A k \in Int : k + 6 = 0 => -k = 6
        OBVIOUS
      <4>2. CASE white = TRUE
        BY <4>2, KingCode DEF Chs!King
      <4>3. CASE white = FALSE
        <5>1. 6 * Forward(white) \in Int /\ 6 * Forward(white) + 6 = 0
          BY <4>3, KingCode
        <5> QED
          BY <4>1, <4>3, <5>1 DEF Chs!King
      <4> QED
        BY <4>2, <4>3
    <3>3. Row(white) = IF white THEN 0 ELSE 7
      BY DEF Row
    <3> QED
      BY <2>5, <2>6, <2>7, <3>1, <3>2, <3>3
  <2>10. CASE ~ Castling(server, m) /\ ~ (m[2] \in server.ep /\ Man(server.board, m[1]) = 1)
    <3>1. ~ Check(R, white)
      BY <2>1, <2>3, <2>4, <2>10, MovesSafely DEF R
    <3> QED
      BY <2>6, <2>7, <3>1
  <2> QED
    BY <2>8, <2>9, <2>10
<1>2. [][Safe]_vars => KingSafe
  BY DEF KingSafe
<1> QED
  BY <1>1, <1>2, Invariance, PTL DEF Spec

(* Where the two agree on the boards of stones they agree on the moves.    *)
LEMMA SameStoneMoves ==
  ASSUME Inv, together, ~ over, game # "Chess"
  PROVE  TrainValidMoves(game, train) = ValidMoves(game, server)
<1>1. CASE game = "TicTacToe"
  <2>1. train.board = server.board
    BY <1>1 DEF Inv, TttInv, StonesInStep
  <2> QED
    BY <1>1, <2>1, TicTacToeOps, TicTacToeTraining
    DEF Ttt!ValidMoves, Ttt!TrainValidMoves
<1>2. CASE game = "Omok"
  <2>1. train.board = server.board
    BY <1>2 DEF Inv, OmkInv, StonesInStep
  <2> QED
    BY <1>2, <2>1, OmokOps, OmokTraining
    DEF Omk!ValidMoves, Omk!TrainValidMoves
<1>3. CASE game = "Othello"
  <2>1. /\ train.board = server.board /\ train.player = Seat(server.player)
        /\ train \in [board : Boards(8, Stones), player : {1, -1}]
        /\ server.player \in {0, 1}
    BY <1>3 DEF Inv, OthInv, StonesInStep
  <2>2. Oth!Stone(server.player) = train.player
    BY <2>1 DEF Oth!Stone, Seat
  <2>3. Oth!TrainValidMoves(train)
          = {s \in Squares(8) : At(train.board, s) = 0
                                  /\ Oth!IsValidMove(train.board, s, train.player)}
    BY <2>1, OthelloTrained
  <2>4. Oth!ValidMoves(server)
          = {s \in Squares(8) : At(server.board, s) = 0
               /\ Oth!IsValidMove(server.board, s, Oth!Stone(server.player))}
    BY OthGrid DEF Oth!ValidMoves
  <2>5. Oth!TrainValidMoves(train) = Oth!ValidMoves(server)
    BY <2>1, <2>2, <2>3, <2>4
  <2> QED
    BY <1>3, <2>5, OthelloOps, OthelloTraining
<1> QED
  BY <1>1, <1>2, <1>3 DEF Inv, Games

(* Two squares in the training code's rows.                                *)
LEMMA AcrossLines ==
  ASSUME NEW s \in Squares(8), NEW u \in Squares(8)
  PROVE  /\ Rows(Across(s), Across(u)) = -Rows(s, u)
         /\ Columns(Across(s), Across(u)) = Columns(s, u)
         /\ Straight(Across(s), Across(u)) <=> Straight(s, u)
         /\ Diagonal(Across(s), Across(u)) <=> Diagonal(s, u)
         /\ Leap(Across(s), Across(u)) <=> Leap(s, u)
         /\ Step(Across(s), Across(u)) <=> Step(s, u)
<1> DEFINE S == Across(s)
           U == Across(u)
           r == Rows(s, u)
           c == Columns(s, u)
<1>1. /\ S[1] = 7 - s[1] /\ S[2] = s[2] /\ U[1] = 7 - u[1] /\ U[2] = u[2]
      /\ s[1] \in Int /\ s[2] \in Int /\ u[1] \in Int /\ u[2] \in Int
      /\ S = U <=> s = u
  BY AcrossIs DEF Squares
<1> HIDE DEF S, U
<1>2. /\ Rows(S, U) = -r /\ Columns(S, U) = c /\ r \in Int /\ c \in Int
      /\ -r = 0 <=> r = 0
  BY <1>1 DEF Rows, Columns
<1>3. Size(-r) = Size(r) /\ (-r) * (-r) = r * r
  <2>1. r \in Int
    BY <1>2
  <2> HIDE DEF r
  <2> QED
    BY <2>1 DEF Size
<1> HIDE DEF r, c
<1>4. Straight(S, U) <=> Straight(s, u)
  BY <1>2 DEF Straight, r, c
<1>5. Diagonal(S, U) <=> Diagonal(s, u)
  BY <1>1, <1>2, <1>3 DEF Diagonal, r, c
<1>6. Leap(S, U) <=> Leap(s, u)
  BY <1>2, <1>3 DEF Leap, r, c
<1>7. Step(S, U) <=> Step(s, u)
  BY <1>1, <1>2, <1>3 DEF Step, r, c
<1> QED
  BY <1>2, <1>4, <1>5, <1>6, <1>7 DEF S, U, r, c

(* The cells between them are empty on both boards or on none.             *)
LEMMA AcrossClear ==
  ASSUME NEW b \in Men, NEW s \in Squares(8), NEW u \in Squares(8),
         Straight(s, u) \/ Diagonal(s, u)
  PROVE  Clear(BoardInTraining("Chess", b), Across(s), Across(u)) <=>
           \A y \in Inner(s, u) : At(b, y) = 0
<1> DEFINE B == BoardInTraining("Chess", b)
           S == Across(s)
           U == Across(u)
           d == <<Sign(Rows(s, u)), Sign(Columns(s, u))>>
           far == IF Rows(s, u) = 0 THEN Size(Columns(s, u)) ELSE Size(Rows(s, u))
           D == <<Sign(Rows(S, U)), Sign(Columns(S, U))>>
           Far == IF Rows(S, U) = 0 THEN Size(Columns(S, U)) ELSE Size(Rows(S, U))
<1>1. /\ s[1] \in 0 .. 7 /\ s[2] \in 0 .. 7 /\ u[1] \in 0 .. 7 /\ u[2] \in 0 .. 7
      /\ S = <<7 - s[1], s[2]>>
      /\ Rows(s, u) \in Int /\ Columns(s, u) \in Int
  BY DEF Squares, Rows, Columns, Across
<1>2. Rows(S, U) = -Rows(s, u) /\ Columns(S, U) = Columns(s, u)
  BY AcrossLines
<1>3. \A r \in Int : Sign(-r) = -Sign(r) /\ Size(-r) = Size(r) /\ (-r = 0 <=> r = 0)
                       /\ Sign(r) \in {-1, 0, 1} /\ Size(r) \in Nat
  BY DEF Sign, Size
<1>4. Far = far /\ far \in Nat
  BY <1>1, <1>2, <1>3
<1>5. D[1] = -d[1] /\ D[2] = d[2] /\ d[1] \in {-1, 0, 1} /\ d[2] \in {-1, 0, 1}
  BY <1>1, <1>2, <1>3
<1>6. Clear(B, S, U) <=> \A k \in 1 .. Far - 1 : At(B, Go(S, D, k)) = 0
  BY DEF Clear
<1>7. Inner(s, u) = {Go(s, d, k) : k \in 1 .. far - 1} /\ Inner(s, u) \subseteq Squares(8)
  BY InnerIs DEF Inner
<1> HIDE DEF d, D, far, Far, S, U, B
<1>8. ASSUME NEW k \in 1 .. far - 1
      PROVE  At(B, Go(S, D, k)) = 0 <=> At(b, Go(s, d, k)) = 0
  <2> DEFINE y == Go(s, d, k)
  <2>1. y \in Squares(8)
    BY <1>7
  <2>2. y[1] = s[1] + k * d[1] /\ y[2] = s[2] + k * d[2]
    BY DEF Go
  <2>3. 7 - s[1] + k * (-d[1]) = 7 - (s[1] + k * d[1])
    <3>1. k \in Int
      BY <1>4
    <3>2. CASE d[1] = 0
      BY <1>1, <3>1, <3>2
    <3>3. CASE d[1] = 1
      BY <1>1, <3>1, <3>3
    <3>4. CASE d[1] = -1
      BY <1>1, <3>1, <3>4
    <3> QED
      BY <1>5, <3>2, <3>3, <3>4
  <2>4. Go(S, D, k) = Across(y)
    BY <1>1, <1>5, <2>2, <2>3 DEF Go, Across
  <2> HIDE DEF y
  <2>5. At(B, Across(y)) = Code(At(b, y)) /\ At(b, y) \in Pieces
    BY <2>1, BoardInTrainingIs, ManIs DEF B
  <2>6. Code(At(b, y)) = 0 <=> At(b, y) = 0
    BY <2>5, CodeIs
  <2> QED
    BY <2>4, <2>5, <2>6 DEF y
<1> QED
  BY <1>4, <1>6, <1>7, <1>8 DEF B, S, U

(* The lines of the pieces other than pawns.                               *)
Marches(b, x, k) ==
  LET man == Man(b, x)
  IN \/ man = 2 /\ Leap(x, k)
     \/ man = 6 /\ Step(x, k)
     \/ man \in {3, 5} /\ Diagonal(x, k) /\ \A y \in Inner(x, k) : At(b, y) = 0
     \/ man \in {4, 5} /\ Straight(x, k) /\ \A y \in Inner(x, k) : At(b, y) = 0

(* A piece other than a pawn goes the same lines in the training code.     *)
LEMMA OfficersMarch ==
  ASSUME NEW b \in Men, NEW s \in Squares(8), NEW u \in Squares(8), NEW me
  PROVE  Trn!OfficerMoves(BoardInTraining("Chess", b), Across(s), Across(u), me) <=>
           Marches(b, s, u) /\ (At(b, u) = 0 \/ Sign(At(b, u)) # me)
<1> DEFINE B == BoardInTraining("Chess", b)
           S == Across(s)
           U == Across(u)
<1>1. /\ At(B, S) = Code(At(b, s)) /\ At(B, U) = Code(At(b, u))
      /\ At(b, s) \in Pieces /\ At(b, u) \in Pieces
  BY BoardInTrainingIs, ManIs
<1>2. /\ At(B, S) \in Trn!KnightCode <=> Man(b, s) = 2
      /\ At(B, S) \in Trn!BishopCode <=> Man(b, s) = 3
      /\ At(B, S) \in Trn!RookCode <=> Man(b, s) = 4
      /\ At(B, S) \in Trn!QueenCode <=> Man(b, s) = 5
      /\ At(B, S) \in Trn!KingCode <=> Man(b, s) = 6
  BY <1>1, CodeIs DEF Man
<1>3. Trn!Open(B, U, me) <=> (At(b, u) = 0 \/ Sign(At(b, u)) # me)
  BY <1>1, CodeIs, TrnGrid DEF Trn!Open
<1>4. /\ Straight(S, U) <=> Straight(s, u)
      /\ Diagonal(S, U) <=> Diagonal(s, u)
      /\ Leap(S, U) <=> Leap(s, u)
      /\ Step(S, U) <=> Step(s, u)
  BY AcrossLines
<1>5. Straight(s, u) \/ Diagonal(s, u) =>
        (Clear(B, S, U) <=> \A y \in Inner(s, u) : At(b, y) = 0)
  BY AcrossClear
<1> HIDE DEF B, S, U
<1>6. Trn!OfficerMoves(B, S, U, me) <=>
        /\ \/ At(B, S) \in Trn!KnightCode /\ Leap(S, U)
           \/ At(B, S) \in Trn!KingCode /\ Step(S, U)
           \/ (At(B, S) \in Trn!BishopCode \/ At(B, S) \in Trn!QueenCode)
                /\ Diagonal(S, U) /\ Clear(B, S, U)
           \/ (At(B, S) \in Trn!RookCode \/ At(B, S) \in Trn!QueenCode)
                /\ Straight(S, U) /\ Clear(B, S, U)
        /\ Trn!Open(B, U, me)
  BY TrnGrid DEF Trn!OfficerMoves
<1> QED
  BY <1>2, <1>3, <1>4, <1>5, <1>6 DEF Marches, B, S, U

(* A pawn's way forward and its captures.                                  *)
Pushes(b, s, u, white) ==
  \/ u = <<s[1] + Forward(white), s[2]>> /\ At(b, u) = 0
  \/ /\ s[1] = IF white THEN 1 ELSE 6
     /\ u = <<s[1] + 2 * Forward(white), s[2]>>
     /\ At(b, u) = 0 /\ At(b, <<s[1] + Forward(white), s[2]>>) = 0
Slants(s, u, white) == Rows(s, u) = Forward(white) /\ Size(Columns(s, u)) = 1

(* So does a pawn, which the training code lets capture any piece that is  *)
(* not its own.                                                            *)
LEMMA PawnsTrained ==
  ASSUME NEW b \in Men, NEW s \in Squares(8), NEW u \in Squares(8), NEW me,
         NEW white \in BOOLEAN, Own(b, s, white),
         NEW B, B = BoardInTraining("Chess", b)
  PROVE  /\ Trn!GetPieceColor(At(B, Across(s))) = Forward(white)
         /\ Trn!PawnPushes(B, Across(s), Across(u)) <=> Pushes(b, s, u, white)
         /\ Trn!PawnTakes(B, Across(s), Across(u), me) <=>
              Slants(s, u, white) /\ At(b, u) # 0 /\ Sign(At(b, u)) # me
         /\ Trn!Rows(Across(s), Across(u)) = Trn!Onward(Forward(white))
              <=> Rows(s, u) = Forward(white)
<1> DEFINE S == Across(s)
           U == Across(u)
           next == <<s[1] + Forward(white), s[2]>>
           Next1 == <<S[1] + Trn!Onward(Forward(white)), S[2]>>
           far == <<s[1] + 2 * Forward(white), s[2]>>
           Far1 == <<S[1] + 2 * Trn!Onward(Forward(white)), S[2]>>
<1>1. /\ s[1] \in 0 .. 7 /\ s[2] \in 0 .. 7 /\ u[1] \in 0 .. 7 /\ u[2] \in 0 .. 7
      /\ S = <<7 - s[1], s[2]>> /\ U = <<7 - u[1], u[2]>>
      /\ s = <<s[1], s[2]>> /\ u = <<u[1], u[2]>>
  BY DEF Squares, Across
<1>2. Forward(white) \in {1, -1} /\ Trn!Onward(Forward(white)) = -Forward(white)
  BY DEF Forward, Trn!Onward
<1>3. /\ At(B, S) = Code(At(b, s)) /\ At(B, U) = Code(At(b, u))
      /\ At(b, s) \in Pieces /\ At(b, u) \in Pieces
  BY BoardInTrainingIs, ManIs
<1>4. Sign(At(b, s)) = Forward(white)
  BY <1>3 DEF Own, Sign, Forward, Pieces
<1>5. Trn!GetPieceColor(At(B, S)) = Forward(white)
  BY <1>3, <1>4, CodeIs
<1>6. (U = Next1 <=> u = next) /\ (U = Far1 <=> u = far)
  <2>1. U = Next1 <=> 7 - u[1] = 7 - s[1] + (-Forward(white)) /\ u[2] = s[2]
    BY <1>1, <1>2
  <2>2. U = Far1 <=> 7 - u[1] = 7 - s[1] + 2 * (-Forward(white)) /\ u[2] = s[2]
    BY <1>1, <1>2
  <2>3. u = next <=> u[1] = s[1] + Forward(white) /\ u[2] = s[2]
    BY <1>1
  <2>4. u = far <=> u[1] = s[1] + 2 * Forward(white) /\ u[2] = s[2]
    BY <1>1
  <2> QED
    BY <1>1, <1>2, <2>1, <2>2, <2>3, <2>4
<1>7. ASSUME s[1] = IF white THEN 1 ELSE 6
      PROVE  At(B, Next1) = 0 <=> At(b, next) = 0
  <2>1. next \in Squares(8)
    BY <1>1, <1>7 DEF Squares, Forward
  <2>2. Next1 = Across(next)
    BY <1>1, <1>2 DEF Across
  <2> HIDE DEF Next1, next, S
  <2>3. At(B, Next1) = Code(At(b, next)) /\ At(b, next) \in Pieces
    BY <2>1, <2>2, BoardInTrainingIs, ManIs
  <2> QED
    BY <2>3, CodeIs
<1>8. At(B, U) = 0 <=> At(b, u) = 0
  BY <1>3, CodeIs
<1>9. (S[1] = IF Forward(white) = 1 THEN 6 ELSE 1) <=> (s[1] = IF white THEN 1 ELSE 6)
  BY <1>1 DEF Forward
<1>10. /\ Rows(S, U) = -Rows(s, u) /\ Columns(S, U) = Columns(s, u)
       /\ Rows(s, u) \in Int
  BY <1>1, AcrossLines DEF Rows
<1>11. Trn!PawnPushes(B, S, U) <=>
         \/ U = Next1 /\ At(B, U) = 0
         \/ /\ S[1] = IF Forward(white) = 1 THEN 6 ELSE 1
            /\ U = Far1 /\ At(B, Next1) = 0 /\ At(B, U) = 0
  BY <1>5, TrnGrid DEF Trn!PawnPushes
<1>12. Trn!PawnTakes(B, S, U, me) <=>
         /\ Rows(S, U) = Trn!Onward(Forward(white)) /\ Size(Columns(S, U)) = 1
         /\ At(B, U) # 0 /\ Trn!GetPieceColor(At(B, U)) # me
  BY <1>5, TrnGrid DEF Trn!PawnTakes
<1>13. Rows(S, U) = Trn!Onward(Forward(white)) <=> Rows(s, u) = Forward(white)
  BY <1>2, <1>10
<1>14. Trn!GetPieceColor(At(B, U)) = Sign(At(b, u))
  BY <1>3, CodeIs
<1> HIDE DEF S, U, Next1, Far1
<1>15. Trn!PawnPushes(B, S, U) <=> Pushes(b, s, u, white)
  <2>1. Pushes(b, s, u, white) <=>
          \/ u = next /\ At(b, u) = 0
          \/ /\ s[1] = IF white THEN 1 ELSE 6
             /\ u = far /\ At(b, u) = 0 /\ At(b, next) = 0
    BY DEF Pushes
  <2> HIDE DEF next, far
  <2> QED
    BY <1>6, <1>7, <1>8, <1>9, <1>11, <2>1
<1>16. Trn!PawnTakes(B, S, U, me) <=>
         Slants(s, u, white) /\ At(b, u) # 0 /\ Sign(At(b, u)) # me
  BY <1>8, <1>10, <1>12, <1>13, <1>14 DEF Slants
<1> QED
  BY <1>5, <1>13, <1>15, <1>16, TrnGrid DEF S, U

(* What counts as an attack in the training code.                          *)
LEMMA TrnAttackIs ==
  ASSUME NEW b \in Men, NEW x \in Squares(8), NEW u \in Squares(8), NEW me,
         NEW white \in BOOLEAN, Own(b, x, white)
  PROVE  Trn!PieceMovesForBoard(BoardInTraining("Chess", b), Across(x), Across(u), me) <=>
           IF Man(b, x) = 1
           THEN \/ Pushes(b, x, u, white)
                \/ Slants(x, u, white) /\ At(b, u) # 0 /\ Sign(At(b, u)) # me
           ELSE Marches(b, x, u) /\ (At(b, u) = 0 \/ Sign(At(b, u)) # me)
<1> DEFINE B == BoardInTraining("Chess", b)
<1>1. At(B, Across(x)) = Code(At(b, x)) /\ At(b, x) \in Pieces
  BY BoardInTrainingIs, ManIs
<1>2. At(B, Across(x)) \in Trn!PawnCode <=> Man(b, x) = 1
  BY <1>1, CodeIs DEF Man
<1>3. /\ Trn!PawnPushes(B, Across(x), Across(u)) <=> Pushes(b, x, u, white)
      /\ Trn!PawnTakes(B, Across(x), Across(u), me) <=>
              Slants(x, u, white) /\ At(b, u) # 0 /\ Sign(At(b, u)) # me
  BY PawnsTrained
<1>4. Trn!OfficerMoves(B, Across(x), Across(u), me) <=>
           Marches(b, x, u) /\ (At(b, u) = 0 \/ Sign(At(b, u)) # me)
  BY OfficersMarch
<1> HIDE DEF B
<1>5. Trn!PieceMovesForBoard(B, Across(x), Across(u), me) <=>
        IF At(B, Across(x)) \in Trn!PawnCode
        THEN Trn!PawnPushes(B, Across(x), Across(u))
               \/ Trn!PawnTakes(B, Across(x), Across(u), me)
        ELSE Trn!OfficerMoves(B, Across(x), Across(u), me)
  BY TrnGrid DEF Trn!PieceMovesForBoard
<1> QED
  BY <1>2, <1>3, <1>4, <1>5 DEF B

(* A piece belongs to a colour in both.                                    *)
LEMMA OwnCode ==
  ASSUME NEW b \in Men, NEW x \in Squares(8), NEW white \in BOOLEAN
  PROVE  /\ Trn!GetPieceColor(At(BoardInTraining("Chess", b), Across(x))) = Forward(white)
              <=> Own(b, x, white)
         /\ Trn!GetPieceColor(At(BoardInTraining("Chess", b), Across(x))) = -Forward(white)
              <=> Own(b, x, ~ white)
         /\ Sign(At(b, x)) = Forward(white) <=> Own(b, x, white)
         /\ Sign(At(b, x)) = -Forward(white) <=> Own(b, x, ~ white)
<1>1. /\ At(BoardInTraining("Chess", b), Across(x)) = Code(At(b, x))
      /\ At(b, x) \in Pieces
  BY BoardInTrainingIs, ManIs
<1>2. Trn!GetPieceColor(Code(At(b, x))) = Sign(At(b, x))
  BY <1>1, CodeIs
<1>3. /\ Sign(At(b, x)) = Forward(white) <=> Own(b, x, white)
      /\ Sign(At(b, x)) = -Forward(white) <=> Own(b, x, ~ white)
  BY <1>1 DEF Own, Sign, Forward, Pieces
<1> QED
  BY <1>1, <1>2, <1>3

(* After a move the training code sees the mover's king attacked when it   *)
(* is: its tests go by the player to move, who is now the attacker.        *)
LEMMA TrnCheckIs ==
  ASSUME NEW b \in Men, NEW t, t.board = BoardInTraining("Chess", b),
         NEW white \in BOOLEAN, t.player = -Forward(white)
  PROVE  Trn!IsInCheck(t, Forward(white)) <=> Check(b, white)
<1> DEFINE B == BoardInTraining("Chess", b)
           king == 6 * Forward(white)
<1>1. Trn!IsInCheck(t, Forward(white)) <=>
        \E k \in Squares(8) : \E x \in Squares(8) :
          /\ At(B, k) = Trn!KingOf(Forward(white))
          /\ Trn!GetPieceColor(At(B, x)) = -Forward(white)
          /\ Trn!PieceMovesForBoard(B, x, k, -Forward(white))
  <2>1. Trn!IsInCheck(t, Forward(white)) <=>
        \E k \in Squares(8) :
          /\ At(B, k) = Trn!KingOf(Forward(white))
          /\ \E x \in Squares(8) :
               /\ Trn!GetPieceColor(At(B, x)) = -Forward(white)
               /\ Trn!PieceMovesForBoard(B, x, k, -Forward(white))
    BY TrnGrid DEF Trn!IsInCheck
  <2> HIDE DEF B
  <2> QED
    BY <2>1
<1>2. ASSUME NEW k \in Squares(8)
      PROVE  At(B, Across(k)) = Trn!KingOf(Forward(white)) <=> At(b, k) = king
  <2>1. At(B, Across(k)) = Code(At(b, k)) /\ At(b, k) \in -6 .. 6
    BY BoardInTrainingIs, ManIs DEF Pieces
  <2>2. CASE white = TRUE
    <3>1. Trn!KingOf(Forward(white)) = 6 /\ king = 6
      BY <2>2, KingCode DEF Trn!KingOf, Forward
    <3> QED
      BY <2>1, <3>1 DEF Code
  <2>3. CASE white = FALSE
    <3>1. Trn!KingOf(Forward(white)) = 12 /\ king = -6
      BY <2>3, KingCode DEF Trn!KingOf, Forward
    <3> QED
      BY <2>1, <3>1 DEF Code
  <2> QED
    BY <2>2, <2>3
<1>3. ASSUME NEW k \in Squares(8), NEW x \in Squares(8), At(b, k) = king, Own(b, x, ~ white)
      PROVE  Trn!PieceMovesForBoard(B, Across(x), Across(k), -Forward(white)) <=> Hits(b, x, k)
  <2>1. /\ Own(b, k, white) /\ At(b, k) # 0
        /\ Sign(At(b, k)) # -Forward(white)
    <3>1. Own(b, k, white)
      BY <1>3, KingCode DEF Own
    <3>2. Sign(At(b, k)) = Forward(white)
      BY <3>1, OwnCode
    <3> QED
      BY <3>1, <3>2 DEF Forward, Own
  <2>2. ~ Pushes(b, x, k, ~ white)
    BY <2>1 DEF Pushes
  <2>3. Trn!PieceMovesForBoard(B, Across(x), Across(k), -Forward(white)) <=>
          IF Man(b, x) = 1 THEN Slants(x, k, ~ white) ELSE Marches(b, x, k)
    <3>1. (~ white) \in BOOLEAN
      OBVIOUS
    <3> QED
      BY <1>3, <2>1, <2>2, <3>1, TrnAttackIs
  <2>4. Forward(At(b, x) > 0) = Forward(~ white)
    BY <1>3 DEF Own, Forward
  <2> QED
    BY <2>3, <2>4 DEF Hits, Slants, Marches
<1>4. \A x \in Squares(8) :
        Trn!GetPieceColor(At(B, Across(x))) = -Forward(white) <=> Own(b, x, ~ white)
  BY OwnCode
<1>5. \A x \in Squares(8) : Across(x) \in Squares(8) /\ Across(Across(x)) = x
  BY AcrossIs
<1> HIDE DEF B, king
<1>6. ASSUME Check(b, white) PROVE Trn!IsInCheck(t, Forward(white))
  <2>1. PICK k \in Squares(8), x \in Squares(8) :
          At(b, k) = king /\ Own(b, x, ~ white) /\ Hits(b, x, k)
    BY <1>6 DEF Check, king
  <2>2. /\ At(B, Across(k)) = Trn!KingOf(Forward(white))
        /\ Trn!GetPieceColor(At(B, Across(x))) = -Forward(white)
        /\ Trn!PieceMovesForBoard(B, Across(x), Across(k), -Forward(white))
        /\ Across(k) \in Squares(8) /\ Across(x) \in Squares(8)
    BY <1>2, <1>3, <1>4, <1>5, <2>1
  <2> QED
    BY <1>1, <2>2
<1>7. ASSUME Trn!IsInCheck(t, Forward(white)) PROVE Check(b, white)
  <2>1. PICK K \in Squares(8), X \in Squares(8) :
          /\ At(B, K) = Trn!KingOf(Forward(white))
          /\ Trn!GetPieceColor(At(B, X)) = -Forward(white)
          /\ Trn!PieceMovesForBoard(B, X, K, -Forward(white))
    BY <1>1, <1>7
  <2>2. PICK k \in Squares(8) : K = Across(k)
    BY <1>5
  <2>3. PICK x \in Squares(8) : X = Across(x)
    BY <1>5
  <2>4. At(b, k) = king /\ Own(b, x, ~ white)
    BY <1>2, <1>4, <2>1, <2>2, <2>3
  <2>5. Hits(b, x, k)
    BY <1>3, <2>1, <2>2, <2>3, <2>4
  <2> QED
    BY <2>4, <2>5 DEF Check, king
<1> QED
  BY <1>6, <1>7

(* The game server's steps of a piece.                                     *)
LEMMA ServerSteps ==
  ASSUME NEW p, ChessPosition(p), NEW s \in Squares(8), NEW u \in Squares(8),
         NEW white \in BOOLEAN, Own(p.board, s, white)
  PROVE  Chs!Reaches(p, s, u) <=>
           IF Man(p.board, s) = 1
           THEN \/ Pushes(p.board, s, u, white)
                \/ Slants(s, u, white) /\ (Own(p.board, u, ~ white) \/ u \in p.ep)
           ELSE Marches(p.board, s, u)
                  /\ (At(p.board, u) = 0 \/ Own(p.board, u, ~ white))
<1> DEFINE b == p.board
<1>1. b \in Men /\ At(b, u) \in Pieces
  BY ManIs DEF ChessPosition
<1>2. Chs!IsWhite(At(b, s)) <=> white
  BY <1>1, ManIs
<1>3. Chs!IsEnemy(At(b, u), Chs!IsWhite(At(b, s))) <=> Own(b, u, ~ white)
  BY <1>1, <1>2 DEF Chs!IsEnemy, Own, Pieces
<1>4. CASE Man(b, s) = 1
  <2>1. Chs!Reaches(p, s, u) <=> Chs!PawnReaches(p, s, u, Chs!IsWhite(At(b, s)))
    BY <1>4, ChsGeometry, ChsGrid DEF Chs!Reaches, Man, Chs!Pawn
  <2>2. Chs!Forward(Chs!IsWhite(At(b, s))) = Forward(white)
    BY <1>2 DEF Chs!Forward, Forward
  <2>3. (IF Chs!IsWhite(At(b, s)) THEN 1 ELSE 6) = IF white THEN 1 ELSE 6
    BY <1>2
  <2>4. Chs!PawnReaches(p, s, u, Chs!IsWhite(At(b, s))) <=>
          \/ Pushes(b, s, u, white)
          \/ Slants(s, u, white) /\ (Own(b, u, ~ white) \/ u \in p.ep)
    BY <1>3, <2>2, <2>3, ChsGeometry, ChsGrid DEF Chs!PawnReaches, Pushes, Slants
  <2> QED
    BY <1>4, <2>1, <2>4
<1>5. CASE Man(b, s) # 1
  <2>1. Chs!Reaches(p, s, u) <=>
          /\ \/ Man(b, s) = 2 /\ Leap(s, u)
             \/ Man(b, s) = 6 /\ Step(s, u)
             \/ Man(b, s) \in {3, 5} /\ Diagonal(s, u) /\ Clear(b, s, u)
             \/ Man(b, s) \in {4, 5} /\ Straight(s, u) /\ Clear(b, s, u)
          /\ At(b, u) = 0 \/ Own(b, u, ~ white)
    BY <1>3, <1>5, ChsGrid, ChsGeometry
    DEF Chs!Reaches, Man, Chs!Pawn, Chs!Knight, Chs!Bishop, Chs!Rook,
        Chs!Queen, Chs!King
  <2>2. Straight(s, u) \/ Diagonal(s, u) =>
          (Clear(b, s, u) <=> \A y \in Inner(s, u) : At(b, y) = 0)
    BY InnerIs
  <2> QED
    BY <1>5, <2>1, <2>2 DEF Marches
<1> QED
  BY <1>4, <1>5

(* The training code's position of the same game, the same player to move. *)
Trained(p, t, white) ==
  /\ ChessPosition(p) /\ ChessInStep(p, t)
  /\ white \in BOOLEAN /\ (white <=> p.player = 0) /\ t.player = Forward(white)

TrnSteps(t, s, u) ==
  IF At(t.board, s) \in Trn!PawnCode THEN Trn!PawnMoves(t, s, u)
  ELSE Trn!OfficerMoves(t.board, s, u, t.player)

(* A piece of the player to move goes the same ways in both.               *)
LEMMA SameSteps ==
  ASSUME NEW p, NEW t, NEW white, Trained(p, t, white),
         NEW s \in Squares(8), NEW u \in Squares(8), Own(p.board, s, white)
  PROVE  TrnSteps(t, Across(s), Across(u)) <=> Chs!Reaches(p, s, u)
<1> DEFINE b == p.board
           B == t.board
<1>1. /\ ChessPosition(p) /\ b \in Men /\ B = BoardInTraining("Chess", b)
      /\ white \in BOOLEAN /\ t.player = Forward(white)
      /\ t.ep = {Across(e) : e \in p.ep} /\ p.ep \subseteq Squares(8)
  BY DEF Trained, ChessPosition, ChessInStep
<1> HIDE DEF b, B
<1>2. /\ At(B, Across(s)) \in Trn!PawnCode <=> Man(b, s) = 1
  <2>1. At(B, Across(s)) = Code(At(b, s)) /\ At(b, s) \in Pieces
    BY <1>1, BoardInTrainingIs, ManIs
  <2> QED
    BY <2>1, CodeIs DEF Man
<1>3. (At(b, u) # 0 /\ Sign(At(b, u)) # t.player) <=> Own(b, u, ~ white)
  <2>1. At(b, u) \in Pieces
    BY <1>1, ManIs
  <2> QED
    BY <1>1, <2>1 DEF Own, Sign, Forward, Pieces
<1>4. Across(u) \in t.ep <=> u \in p.ep
  BY <1>1, AcrossIs
<1>5. Own(b, s, white)
  BY DEF b
<1>6. Trn!PawnMoves(t, Across(s), Across(u)) <=>
        \/ Pushes(b, s, u, white)
        \/ Slants(s, u, white) /\ (Own(b, u, ~ white) \/ u \in p.ep)
  <2>1. Trn!PawnMoves(t, Across(s), Across(u)) <=>
          \/ Trn!PawnPushes(B, Across(s), Across(u))
          \/ Trn!PawnTakes(B, Across(s), Across(u), t.player)
          \/ /\ Across(u) \in t.ep
             /\ Trn!Rows(Across(s), Across(u))
                  = Trn!Onward(Trn!GetPieceColor(At(B, Across(s))))
             /\ Size(Columns(Across(s), Across(u))) = 1
    BY TrnGrid DEF Trn!PawnMoves, B
  <2>2. /\ Trn!GetPieceColor(At(B, Across(s))) = Forward(white)
        /\ Trn!PawnPushes(B, Across(s), Across(u)) <=> Pushes(b, s, u, white)
        /\ Trn!PawnTakes(B, Across(s), Across(u), t.player) <=>
              Slants(s, u, white) /\ At(b, u) # 0 /\ Sign(At(b, u)) # t.player
        /\ Trn!Rows(Across(s), Across(u)) = Trn!Onward(Forward(white))
              <=> Rows(s, u) = Forward(white)
    BY <1>1, <1>5, PawnsTrained
  <2>3. Columns(Across(s), Across(u)) = Columns(s, u)
    BY AcrossLines
  <2> QED
    BY <1>3, <1>4, <2>1, <2>2, <2>3 DEF Slants
<1>7. Trn!OfficerMoves(B, Across(s), Across(u), t.player) <=>
        Marches(b, s, u) /\ (At(b, u) = 0 \/ Own(b, u, ~ white))
  <2>1. Trn!OfficerMoves(B, Across(s), Across(u), t.player) <=>
          Marches(b, s, u) /\ (At(b, u) = 0 \/ Sign(At(b, u)) # t.player)
    BY <1>1, OfficersMarch
  <2> QED
    BY <1>3, <2>1
<1>8. Chs!Reaches(p, s, u) <=>
           IF Man(b, s) = 1
           THEN \/ Pushes(b, s, u, white)
                \/ Slants(s, u, white) /\ (Own(b, u, ~ white) \/ u \in p.ep)
           ELSE Marches(b, s, u) /\ (At(b, u) = 0 \/ Own(b, u, ~ white))
  BY <1>1, <1>5, ServerSteps DEF b
<1> QED
  BY <1>2, <1>6, <1>7, <1>8 DEF TrnSteps, B

(* Neither a castling nor a capture in passing.                            *)
Plain(p, s, u) ==
  /\ ~ (Man(p.board, s) = 6 /\ Size(Columns(s, u)) = 2)
  /\ ~ (Man(p.board, s) = 1 /\ u \in p.ep)

(* Two boards with the same attackers, kings and empty cells.              *)
LEMMA SameCheck ==
  ASSUME NEW b, NEW c, NEW white \in BOOLEAN,
         \A x \in Squares(8) :
           /\ At(b, x) = 0 => At(c, x) = 0
           /\ Own(b, x, ~ white) => At(c, x) = At(b, x)
           /\ At(b, x) = 6 * Forward(white) => At(c, x) = At(b, x),
         Check(b, white)
  PROVE  Check(c, white)
<1>1. PICK k \in Squares(8), x \in Squares(8) :
        At(b, k) = 6 * Forward(white) /\ Own(b, x, ~ white) /\ Hits(b, x, k)
  BY DEF Check
<1>2. At(c, x) = At(b, x) /\ At(c, k) = At(b, k)
  BY <1>1
<1>3. Hits(c, x, k)
  BY <1>1, <1>2, HitsOn
<1>4. Own(c, x, ~ white)
  BY <1>1, <1>2 DEF Own
<1> QED
  BY <1>1, <1>2, <1>3, <1>4 DEF Check

(* The training code tries a move out on the board after it.               *)
LEMMA TrnTestIs ==
  ASSUME NEW p, NEW t, NEW white, Trained(p, t, white),
         NEW m, ChessStep(p, m), m[3] \in {0, 5}
  PROVE  Trn!IsValidMove(t, Across(m[1]), Across(m[2])) <=>
           ~ Check(Chs!Moved(p, m), white)
<1> DEFINE R == Chs!Moved(p, m)
           n == Trn!TrainMakeMove(t, <<Across(m[1]), Across(m[2])>>)
<1>1. /\ ChessPosition(p) /\ white \in BOOLEAN /\ t.player = Forward(white)
      /\ t.board = BoardInTraining("Chess", p.board)
      /\ t.ep = {Across(e) : e \in p.ep}
  BY DEF Trained, ChessInStep
<1>2. R \in Men
  BY <1>1, MovedBoard
<1>3. Trn!Moved(t, Across(m[1]), Across(m[2])) = BoardInTraining("Chess", R)
  BY <1>1, SameBoard
<1>4. n.board = BoardInTraining("Chess", R) /\ n.player = -Forward(white)
  BY <1>1, <1>3 DEF Trn!TrainMakeMove
<1>5. Trn!IsValidMove(t, Across(m[1]), Across(m[2])) <=> ~ Trn!IsInCheck(n, Forward(white))
  BY <1>1 DEF Trn!IsValidMove
<1> HIDE DEF n, R
<1>6. Trn!IsInCheck(n, Forward(white)) <=> Check(R, white)
  BY <1>1, <1>2, <1>4, TrnCheckIs
<1> QED
  BY <1>5, <1>6 DEF R

(* Both try a plain move out with the same result.                         *)
LEMMA SameTest ==
  ASSUME NEW p, NEW t, NEW white, Trained(p, t, white),
         NEW s \in Squares(8), NEW u \in Squares(8), Own(p.board, s, white),
         Chs!Reaches(p, s, u), Plain(p, s, u)
  PROVE  Trn!IsValidMove(t, Across(s), Across(u)) <=>
           ~ Chs!WouldBeInCheckAfterMove(p, s, u, p.player = 0)
<1> DEFINE b == p.board
           q == IF Man(b, s) = 1 /\ u[1] \in {0, 7} THEN 5 ELSE 0
           m == <<s, u, q>>
           R == Chs!Moved(p, m)
           T == Tried(p, s, u)
<1>1. /\ ChessPosition(p) /\ b \in Men /\ ChessInStep(p, t)
      /\ white \in BOOLEAN /\ (white <=> p.player = 0) /\ t.player = Forward(white)
      /\ (p.player = 0) = white
  BY DEF Trained, ChessPosition
<1>2. /\ s # u
      /\ Straight(s, u) \/ Diagonal(s, u) \/ Leap(s, u)
      /\ Man(b, s) = 1 => PawnSteps(s, u, white)
  BY <1>1, ReachesIs
<1>3. m[1] = s /\ m[2] = u /\ m[3] = q /\ m = <<m[1], m[2], m[3]>> /\ q \in {0, 5}
      /\ q \in IF Man(b, s) = 1 /\ u[1] \in {0, 7} THEN 2 .. 5 ELSE {0}
  OBVIOUS
<1> HIDE DEF m, q
<1>4. ~ Castling(p, m)
  BY <1>3 DEF Plain, Castling
<1>5. ChessStep(p, m)
  BY <1>1, <1>2, <1>3, <1>4 DEF ChessStep, b
<1>6. Passed(p, m) = {}
  BY <1>3 DEF Passed, Plain
<1>7. /\ R \in Men
      /\ \A x \in Squares(8) :
           At(R, x) = IF x = u THEN Placed(p, m) ELSE IF x = s THEN 0 ELSE At(b, x)
      /\ Man(b, s) # 1 => Placed(p, m) = At(b, s)
      /\ Man(b, s) = 1 => Size(Placed(p, m)) \in 1 .. 5
      /\ Placed(p, m) # 0 /\ (Placed(p, m) > 0 <=> white)
  BY <1>1, <1>3, <1>4, <1>5, <1>6, MovedBoard DEF b
<1>8. /\ Chs!WouldBeInCheckAfterMove(p, s, u, p.player = 0) <=> Check(T, white)
      /\ \A x \in Squares(8) :
           At(T, x) = IF x = s THEN 0 ELSE IF x = u THEN At(b, s) ELSE At(b, x)
  BY <1>1, <1>3, <1>5, TriedIs DEF b
<1>9. Trn!IsValidMove(t, Across(s), Across(u)) <=> ~ Check(R, white)
  BY <1>3, <1>5, TrnTestIs
<1>10. At(b, s) # 0 /\ (At(b, s) > 0 <=> white) /\ Size(At(b, s)) = Man(b, s)
  BY DEF Own, Man
<1>11. 6 * Forward(white) # 0 /\ Size(6 * Forward(white)) = 6
  BY <1>1, KingCode
<1> HIDE DEF b, R, T
<1>12. Check(R, white) => Check(T, white)
  <2>1. ASSUME NEW x \in Squares(8)
        PROVE  /\ At(R, x) = 0 => At(T, x) = 0
               /\ Own(R, x, ~ white) => At(T, x) = At(R, x)
               /\ At(R, x) = 6 * Forward(white) => At(T, x) = At(R, x)
    <3>1. CASE x = u
      <4>1. At(R, x) = Placed(p, m) /\ At(T, x) = At(b, s)
        BY <1>2, <1>7, <1>8, <3>1
      <4>2. Man(b, s) = 1 => At(R, x) # 6 * Forward(white)
        BY <1>7, <1>11, <4>1
      <4>3. ~ Own(R, x, ~ white) /\ At(R, x) # 0
        BY <1>7, <4>1 DEF Own
      <4> QED
        BY <1>7, <4>1, <4>2, <4>3
    <3>2. CASE x # u
      BY <1>7, <1>8, <3>2
    <3> QED
      BY <3>1, <3>2
  <2> QED
    BY <1>1, <2>1, SameCheck
<1>13. Check(T, white) => Check(R, white)
  <2>1. ASSUME NEW x \in Squares(8)
        PROVE  /\ At(T, x) = 0 => At(R, x) = 0
               /\ Own(T, x, ~ white) => At(R, x) = At(T, x)
               /\ At(T, x) = 6 * Forward(white) => At(R, x) = At(T, x)
    <3>1. CASE x = u
      <4>1. At(R, x) = Placed(p, m) /\ At(T, x) = At(b, s)
        BY <1>2, <1>7, <1>8, <3>1
      <4>2. Man(b, s) = 1 => At(T, x) # 6 * Forward(white)
        BY <1>10, <1>11, <4>1
      <4>3. ~ Own(T, x, ~ white) /\ At(T, x) # 0
        BY <1>10, <4>1 DEF Own
      <4> QED
        BY <1>7, <4>1, <4>2, <4>3
    <3>2. CASE x # u
      BY <1>7, <1>8, <3>2
    <3> QED
      BY <3>1, <3>2
  <2> QED
    BY <1>1, <2>1, SameCheck
<1> QED
  BY <1>8, <1>9, <1>12, <1>13

(* The training code's valid moves, taken apart.                           *)
TrnCastlesTo(t, s, u, colour) ==
  \/ /\ u = <<s[1], s[2] + 2>> /\ 7 \in t.rights[colour]
     /\ Trn!CanCastleKingside(t, colour)
  \/ /\ u = <<s[1], s[2] - 2>> /\ 0 \in t.rights[colour]
     /\ Trn!CanCastleQueenside(t, colour)

(* A move of the training code starts from an own piece, goes one of its   *)
(* ways or castles, and leaves no check.                                   *)
LEMMA TrainedMoves ==
  ASSUME NEW p, NEW t, NEW white, Trained(p, t, white), NEW M
  PROVE  M \in Trn!TrainValidMoves(t) <=>
           \E s \in Squares(8) : \E U :
             /\ M = <<Across(s), U>> /\ Own(p.board, s, white)
             /\ \/ U \in Squares(8) /\ TrnSteps(t, Across(s), U)
                \/ Man(p.board, s) = 6 /\ TrnCastlesTo(t, Across(s), U, Forward(white))
             /\ Trn!IsValidMove(t, Across(s), U)
<1> DEFINE b == p.board
           B == t.board
           own == {S \in Squares(8) : Trn!GetPieceColor(At(B, S)) = t.player}
           valid(S) == {x \in Trn!PieceMoves(t, S) : Trn!IsValidMove(t, S, x)}
           from(S) == {<<S, u>> : u \in valid(S)}
<1>1. /\ b \in Men /\ B = BoardInTraining("Chess", b)
      /\ white \in BOOLEAN /\ t.player = Forward(white)
  BY DEF Trained, ChessPosition, ChessInStep
<1>2. Trn!TrainValidMoves(t) = UNION {from(S) : S \in own}
  BY TrnGrid DEF Trn!TrainValidMoves
<1>3. \A S : M \in from(S) <=> \E U \in valid(S) : M = <<S, U>>
  OBVIOUS
<1>4. \A S : \A U : U \in valid(S) <=> U \in Trn!PieceMoves(t, S) /\ Trn!IsValidMove(t, S, U)
  OBVIOUS
<1> HIDE DEF from, valid
<1>5. M \in Trn!TrainValidMoves(t) <=> \E S \in own : M \in from(S)
  BY <1>2
<1>6. \A s \in Squares(8) : Across(s) \in own <=> Own(b, s, white)
  <2> TAKE s \in Squares(8)
  <2>1. Across(s) \in Squares(8)
    BY AcrossIs
  <2> QED
    BY <1>1, <2>1, OwnCode
<1>7. \A S \in own : \E s \in Squares(8) : S = Across(s)
  <2> TAKE S \in own
  <2>1. S \in Squares(8)
    OBVIOUS
  <2>2. Across(S) \in Squares(8) /\ S = Across(Across(S))
    BY <2>1, AcrossIs
  <2> QED
    BY <2>2
<1> HIDE DEF own
<1>8. ASSUME NEW s \in Squares(8), Own(b, s, white), NEW U
      PROVE  U \in Trn!PieceMoves(t, Across(s)) <=>
               \/ U \in Squares(8) /\ TrnSteps(t, Across(s), U)
               \/ Man(b, s) = 6 /\ TrnCastlesTo(t, Across(s), U, Forward(white))
  <2> DEFINE S == Across(s)
             steps == {u \in Squares(8) : TrnSteps(t, S, u)}
  <2>1. /\ At(B, S) \in Trn!KingCode <=> Man(b, s) = 6
    <3>1. At(B, S) = Code(At(b, s)) /\ At(b, s) \in Pieces
      BY <1>1, BoardInTrainingIs, ManIs
    <3> QED
      BY <3>1, CodeIs DEF Man
  <2>2. Trn!GetPieceColor(At(B, S)) = Forward(white)
    BY <1>1, <1>8, OwnCode
  <2>3. Trn!PieceMoves(t, S) =
          steps \cup IF At(B, S) \in Trn!KingCode THEN Trn!CastlingMoves(t, S) ELSE {}
    BY TrnGrid DEF Trn!PieceMoves, TrnSteps
  <2>4. U \in Trn!CastlingMoves(t, S) <=> TrnCastlesTo(t, S, U, Forward(white))
    <3>1. Trn!CastlingMoves(t, S) =
            {<<S[1], S[2] + 2>> : x \in {y \in {7} :
               y \in t.rights[Forward(white)] /\ Trn!CanCastleKingside(t, Forward(white))}}
            \cup {<<S[1], S[2] - 2>> : x \in {y \in {0} :
               y \in t.rights[Forward(white)] /\ Trn!CanCastleQueenside(t, Forward(white))}}
      BY <2>2, TrnGrid DEF Trn!CastlingMoves, Trn!Kingside, Trn!Queenside
    <3> QED
      BY <3>1 DEF TrnCastlesTo
  <2> HIDE DEF S
  <2> QED
    BY <2>1, <2>3, <2>4 DEF S
<1> HIDE DEF b
<1>9. ASSUME M \in Trn!TrainValidMoves(t)
      PROVE  \E s \in Squares(8) : \E U :
               /\ M = <<Across(s), U>> /\ Own(b, s, white)
               /\ \/ U \in Squares(8) /\ TrnSteps(t, Across(s), U)
                  \/ Man(b, s) = 6 /\ TrnCastlesTo(t, Across(s), U, Forward(white))
               /\ Trn!IsValidMove(t, Across(s), U)
  <2>1. PICK S \in own : M \in from(S)
    BY <1>5, <1>9
  <2>2. PICK s \in Squares(8) : S = Across(s)
    BY <1>7
  <2>3. PICK U \in valid(S) : M = <<S, U>>
    BY <1>3, <2>1
  <2>4. Own(b, s, white)
    BY <1>6, <2>2
  <2> QED
    BY <1>4, <1>8, <2>2, <2>3, <2>4
<1>10. ASSUME NEW s \in Squares(8), NEW U, M = <<Across(s), U>>, Own(b, s, white),
              \/ U \in Squares(8) /\ TrnSteps(t, Across(s), U)
              \/ Man(b, s) = 6 /\ TrnCastlesTo(t, Across(s), U, Forward(white)),
              Trn!IsValidMove(t, Across(s), U)
       PROVE  M \in Trn!TrainValidMoves(t)
  <2>1. U \in valid(Across(s))
    BY <1>4, <1>8, <1>10
  <2>2. Across(s) \in own /\ M \in from(Across(s))
    BY <1>3, <1>6, <1>10, <2>1
  <2> QED
    BY <1>5, <2>2
<1> QED
  BY <1>9, <1>10 DEF b

(* The plain moves are the same.                                           *)
LEMMA PlainMoves ==
  ASSUME NEW p, NEW t, NEW white, Trained(p, t, white)
  PROVE  /\ \A m \in Chs!ValidMoves(p) :
              Plain(p, m[1], m[2]) =>
                <<Across(m[1]), Across(m[2])>> \in Trn!TrainValidMoves(t)
         /\ \A M \in Trn!TrainValidMoves(t) :
              /\ M = <<M[1], M[2]>>
              /\ Plain(p, Across(M[1]), Across(M[2])) =>
                   \E m \in Chs!ValidMoves(p) :
                     /\ m[1] = Across(M[1]) /\ m[2] = Across(M[2])
                     /\ M = <<Across(m[1]), Across(m[2])>>
<1>1. /\ ChessPosition(p) /\ p.board \in Men /\ p.player \in {0, 1}
      /\ white \in BOOLEAN /\ (p.player = 0) = white
  BY DEF Trained, ChessPosition
<1>2. ASSUME NEW m \in Chs!ValidMoves(p), Plain(p, m[1], m[2])
      PROVE  <<Across(m[1]), Across(m[2])>> \in Trn!TrainValidMoves(t)
  <2> DEFINE s == m[1]
             u == m[2]
  <2>1. ChessMove(p, m)
    BY <1>1, ValidIsChessMove
  <2>2. /\ s \in Squares(8) /\ u \in Squares(8) /\ Own(p.board, s, p.player = 0)
        /\ Chs!Reaches(p, s, u)
        /\ ~ Chs!WouldBeInCheckAfterMove(p, s, u, p.player = 0)
    BY <1>2, <2>1 DEF ChessMove, ChessStep, Plain, Castling
  <2>3. Own(p.board, s, white)
    BY <1>1, <2>2
  <2> HIDE DEF s, u
  <2>4. Across(u) \in Squares(8) /\ TrnSteps(t, Across(s), Across(u))
    BY <2>2, <2>3, SameSteps, AcrossIs
  <2>5. Trn!IsValidMove(t, Across(s), Across(u))
    BY <1>2, <2>2, <2>3, SameTest DEF s, u
  <2> QED
    BY <2>2, <2>3, <2>4, <2>5, TrainedMoves DEF s, u
<1>3. ASSUME NEW M \in Trn!TrainValidMoves(t)
      PROVE  /\ M = <<M[1], M[2]>>
             /\ Plain(p, Across(M[1]), Across(M[2])) =>
                  \E m \in Chs!ValidMoves(p) :
                    /\ m[1] = Across(M[1]) /\ m[2] = Across(M[2])
                    /\ M = <<Across(m[1]), Across(m[2])>>
  <2>1. PICK s, U :
          /\ s \in Squares(8) /\ M = <<Across(s), U>> /\ Own(p.board, s, white)
          /\ \/ U \in Squares(8) /\ TrnSteps(t, Across(s), U)
             \/ Man(p.board, s) = 6 /\ TrnCastlesTo(t, Across(s), U, Forward(white))
          /\ Trn!IsValidMove(t, Across(s), U)
    BY TrainedMoves
  <2>2. M = <<M[1], M[2]>> /\ M[1] = Across(s) /\ M[2] = U /\ Across(M[1]) = s
    BY <2>1, AcrossIs
  <2> SUFFICES ASSUME Plain(p, s, Across(U))
               PROVE  \E m \in Chs!ValidMoves(p) :
                        m[1] = s /\ m[2] = Across(U) /\ Across(m[2]) = U
    BY <2>2
  <2>3. U \in Squares(8) /\ TrnSteps(t, Across(s), U)
    <3> SUFFICES ASSUME Man(p.board, s) = 6, TrnCastlesTo(t, Across(s), U, Forward(white))
                 PROVE  FALSE
      BY <2>1
    <3>1. s[2] \in Int /\ Across(s)[2] = s[2]
      BY <2>1, AcrossIs DEF Squares
    <3>2. U[2] = s[2] + 2 \/ U[2] = s[2] - 2
      BY <3>1 DEF TrnCastlesTo
    <3>3. Columns(s, Across(U)) \in {2, -2}
      BY <3>1, <3>2 DEF Columns, Across
    <3>4. Size(Columns(s, Across(U))) = 2
      BY <3>3 DEF Size
    <3> QED
      BY <3>4 DEF Plain
  <2>4. PICK u \in Squares(8) : U = Across(u) /\ Across(U) = u
    BY <2>3, AcrossIs
  <2>5. Chs!Reaches(p, s, u) /\ Own(p.board, s, white) /\ Plain(p, s, u)
    BY <2>1, <2>3, <2>4, SameSteps
  <2>6. ~ Chs!WouldBeInCheckAfterMove(p, s, u, p.player = 0)
    BY <2>1, <2>4, <2>5, SameTest
  <2>7. u \in Chs!PieceMoves(p, s)
    BY <2>1, <2>5, ChsGrid DEF Chs!PieceMoves
  <2>8. PICK q : q \in Chs!Promotions(p, s, u)
    BY DEF Chs!Promotions
  <2>9. <<s, u, q>> \in Chs!ValidMoves(p)
    BY <1>1, <2>1, <2>5, <2>6, <2>7, <2>8, ChessMoveIs
  <2> DEFINE m == <<s, u, q>>
  <2>10. m[1] = s /\ m[2] = u
    OBVIOUS
  <2> HIDE DEF m
  <2> QED
    BY <2>4, <2>9, <2>10 DEF m
<1> QED
  BY <1>2, <1>3

(* An empty square that the game server takes for attacked.                *)
LEMMA AttackedIs ==
  ASSUME NEW p, ChessPosition(p), NEW u \in Squares(8), At(p.board, u) = 0,
         NEW white \in BOOLEAN
  PROVE  Chs!IsSquareAttacked(p, u, white) <=>
           \E x \in Squares(8) :
             /\ Own(p.board, x, white)
             /\ IF Man(p.board, x) = 1 THEN Slants(x, u, white)
                ELSE Marches(p.board, x, u)
<1> DEFINE b == p.board
<1>1. Chs!IsSquareAttacked(p, u, white) <=>
        \E x \in Squares(8) :
          /\ Own(b, x, white)
          /\ IF Man(b, x) = 1 THEN Chs!PawnAttacksSquare(x, white, u)
             ELSE Chs!Reaches(p, x, u)
  <2>1. \A x : (At(b, x) # 0 /\ Chs!IsWhite(At(b, x)) = white) <=> Own(b, x, white)
    BY DEF Own, Chs!IsWhite
  <2> QED
    BY <2>1, ChsGrid, ChsGeometry DEF Chs!IsSquareAttacked, Man, Chs!Pawn
<1>2. \A x : Chs!PawnAttacksSquare(x, white, u) <=> Slants(x, u, white)
  <2>1. Chs!Forward(white) = Forward(white)
    BY DEF Chs!Forward, Forward
  <2> QED
    BY <2>1, ChsGeometry DEF Chs!PawnAttacksSquare, Slants
<1>3. ASSUME NEW x \in Squares(8), Own(b, x, white), Man(b, x) # 1
      PROVE  Chs!Reaches(p, x, u) <=> Marches(b, x, u)
  BY <1>3, ServerSteps
<1> HIDE DEF b
<1> QED
  BY <1>1, <1>2, <1>3 DEF b

(* A square under attack in the training code before a move, when its      *)
(* tests go by the player who is attacked: never one of his own.           *)
LEMMA UnderAttackIs ==
  ASSUME NEW p, NEW t, NEW white, Trained(p, t, white), NEW u \in Squares(8)
  PROVE  /\ Trn!IsSquareUnderAttack(t, Across(u), Forward(white)) <=>
              \E x \in Squares(8) :
                /\ Own(p.board, x, ~ white)
                /\ Trn!PieceMovesForBoard(t.board, Across(x), Across(u), Forward(white))
         /\ At(p.board, u) = 0 =>
              \A x \in Squares(8) : Own(p.board, x, ~ white) =>
                (Trn!PieceMovesForBoard(t.board, Across(x), Across(u), Forward(white))
                   <=> IF Man(p.board, x) = 1 THEN Pushes(p.board, x, u, ~ white)
                       ELSE Marches(p.board, x, u))
         /\ Own(p.board, u, white) =>
              \A x \in Squares(8) : Own(p.board, x, ~ white) =>
                ~ Trn!PieceMovesForBoard(t.board, Across(x), Across(u), Forward(white))
<1> DEFINE b == p.board
           B == t.board
<1>1. /\ b \in Men /\ B = BoardInTraining("Chess", b)
      /\ white \in BOOLEAN /\ t.player = Forward(white) /\ (~ white) \in BOOLEAN
  BY DEF Trained, ChessPosition, ChessInStep
<1>2. Trn!IsSquareUnderAttack(t, Across(u), Forward(white)) <=>
        \E X \in Squares(8) :
          /\ Trn!GetPieceColor(At(B, X)) = -Forward(white)
          /\ Trn!PieceMovesForBoard(B, X, Across(u), Forward(white))
  BY <1>1, TrnGrid DEF Trn!IsSquareUnderAttack
<1> HIDE DEF b, B
<1>3. \A x \in Squares(8) :
        Trn!GetPieceColor(At(B, Across(x))) = -Forward(white) <=> Own(b, x, ~ white)
  BY <1>1, OwnCode
<1>4. \A x \in Squares(8) : Across(x) \in Squares(8) /\ Across(Across(x)) = x
  BY AcrossIs
<1>5. Trn!IsSquareUnderAttack(t, Across(u), Forward(white)) <=>
        \E x \in Squares(8) :
          /\ Own(b, x, ~ white)
          /\ Trn!PieceMovesForBoard(B, Across(x), Across(u), Forward(white))
  BY <1>2, <1>3, <1>4
<1>6. ASSUME NEW x \in Squares(8), Own(b, x, ~ white)
      PROVE  Trn!PieceMovesForBoard(B, Across(x), Across(u), Forward(white)) <=>
               IF Man(b, x) = 1
               THEN \/ Pushes(b, x, u, ~ white)
                    \/ Slants(x, u, ~ white) /\ At(b, u) # 0
                         /\ Sign(At(b, u)) # Forward(white)
               ELSE Marches(b, x, u) /\ (At(b, u) = 0 \/ Sign(At(b, u)) # Forward(white))
  BY <1>1, <1>6, TrnAttackIs
<1>7. Own(b, u, white) => At(b, u) # 0 /\ Sign(At(b, u)) = Forward(white)
  <2>1. Sign(At(b, u)) = Forward(white) <=> Own(b, u, white)
    BY <1>1, OwnCode
  <2> QED
    BY <2>1 DEF Own
<1>8. ~ (At(b, u) = 0) => ~ Pushes(b, u, u, white) /\ \A x : ~ Pushes(b, x, u, ~ white)
  BY DEF Pushes
<1> QED
  BY <1>5, <1>6, <1>7, <1>8 DEF b, B

(* Codes of king and rook.                                                 *)
LEMMA RoyalCodes ==
  ASSUME NEW v \in Pieces, NEW white \in BOOLEAN
  PROVE  /\ Code(v) = Trn!KingOf(Forward(white)) <=> v = 6 * Forward(white)
         /\ Code(v) = Trn!KingOf(Forward(white)) - 2 <=> v = 4 * Forward(white)
<1>1. v \in -6 .. 6
  BY DEF Pieces
<1>2. CASE white = TRUE
  <2>1. /\ Trn!KingOf(Forward(white)) = 6
        /\ 6 * Forward(white) = 6 /\ 4 * Forward(white) = 4
    BY <1>2 DEF Trn!KingOf, Forward
  <2> QED
    BY <1>1, <2>1 DEF Code
<1>3. CASE white = FALSE
  <2>1. \A k \in 1 .. 6 : k * (-1) = -k
    OBVIOUS
  <2>2. /\ Trn!KingOf(Forward(white)) = 12
        /\ 6 * Forward(white) = -6 /\ 4 * Forward(white) = -4
    BY <1>3, <2>1 DEF Trn!KingOf, Forward
  <2> QED
    BY <1>1, <2>2 DEF Code
<1> QED
  BY <1>2, <1>3

(* The player to move is never in check for the training code.             *)
LEMMA OwnCheckUnseen ==
  ASSUME NEW p, NEW t, NEW white, Trained(p, t, white)
  PROVE  ~ Trn!IsInCheck(t, Forward(white))
<1> SUFFICES ASSUME Trn!IsInCheck(t, Forward(white)) PROVE FALSE
  OBVIOUS
<1> DEFINE b == p.board
           B == t.board
<1>1. /\ b \in Men /\ B = BoardInTraining("Chess", b)
      /\ white \in BOOLEAN /\ t.player = Forward(white)
  BY DEF Trained, ChessPosition, ChessInStep
<1>2. PICK K \in Squares(8), X \in Squares(8) :
        /\ At(B, K) = Trn!KingOf(Forward(white))
        /\ Trn!GetPieceColor(At(B, X)) = -Forward(white)
        /\ Trn!PieceMovesForBoard(B, X, K, Forward(white))
  BY <1>1, TrnGrid DEF Trn!IsInCheck
<1> HIDE DEF b, B
<1>3. PICK k \in Squares(8) : K = Across(k)
  BY AcrossIs
<1>4. PICK x \in Squares(8) : X = Across(x)
  BY AcrossIs
<1>5. Own(b, x, ~ white)
  BY <1>1, <1>2, <1>4, OwnCode
<1>6. At(b, k) = 6 * Forward(white)
  <2>1. At(B, K) = Code(At(b, k)) /\ At(b, k) \in Pieces
    BY <1>1, <1>3, BoardInTrainingIs, ManIs
  <2> QED
    BY <1>1, <1>2, <2>1, RoyalCodes
<1>7. Own(b, k, white)
  BY <1>1, <1>6, KingCode DEF Own
<1>8. ~ Trn!PieceMovesForBoard(B, Across(x), Across(k), Forward(white))
  BY <1>5, <1>7, UnderAttackIs DEF b, B
<1> QED
  BY <1>2, <1>3, <1>4, <1>8

(* King and rook at home with empty squares between; a safe path.          *)
Ready(b, r, white, corner, between) ==
  /\ At(b, <<r, 4>>) = 6 * Forward(white)
  /\ At(b, <<r, corner>>) = 4 * Forward(white)
  /\ \A c \in between : At(b, <<r, c>>) = 0
Calm(t, r, white, path) ==
  \A c \in path : ~ Trn!IsSquareUnderAttack(t, Across(<<r, c>>), Forward(white))

(* What the training code asks for castling, on the game server's squares. *)
LEMMA CanCastleIs ==
  ASSUME NEW p, NEW t, NEW white, Trained(p, t, white), NEW r, r = Row(white)
  PROVE  /\ Trn!CanCastleKingside(t, Forward(white)) <=>
              Ready(p.board, r, white, 7, 5 .. 6) /\ Calm(t, r, white, 4 .. 6)
         /\ Trn!CanCastleQueenside(t, Forward(white)) <=>
              Ready(p.board, r, white, 0, 1 .. 3) /\ Calm(t, r, white, 2 .. 4)
<1> DEFINE b == p.board
           B == t.board
           far == IF Forward(white) = 1 THEN 7 ELSE 0
           K == Trn!KingOf(Forward(white))
           attacked(c) == Trn!IsSquareUnderAttack(t, <<far, c>>, Forward(white))
<1>1. /\ b \in Men /\ B = BoardInTraining("Chess", b)
      /\ white \in BOOLEAN
  BY DEF Trained, ChessPosition, ChessInStep
<1>2. far = 7 - r /\ r \in 0 .. 7 /\ \A c : Across(<<r, c>>) = <<far, c>>
  BY DEF Row, Forward, Across
<1>3. ~ Trn!IsInCheck(t, Forward(white))
  BY OwnCheckUnseen
<1>4. /\ Trn!CanCastleKingside(t, Forward(white)) <=>
           /\ B[far][4] = K /\ B[far][7] = K - 2
           /\ \A c \in 5 .. 6 : B[far][c] = 0
           /\ \A c \in 4 .. 6 : ~ attacked(c)
      /\ Trn!CanCastleQueenside(t, Forward(white)) <=>
           /\ B[far][4] = K /\ B[far][0] = K - 2
           /\ \A c \in 1 .. 3 : B[far][c] = 0
           /\ \A c \in 2 .. 4 : ~ attacked(c)
  BY <1>3 DEF Trn!CanCastleKingside, Trn!CanCastleQueenside
<1> HIDE DEF b, B, far, attacked
<1>5. \A c \in 0 .. 7 : <<r, c>> \in Squares(8)
  BY <1>2 DEF Squares
<1>6. \A c \in 0 .. 7 : B[far][c] = Code(At(b, <<r, c>>)) /\ At(b, <<r, c>>) \in Pieces
  <2> TAKE c \in 0 .. 7
  <2>1. At(B, <<far, c>>) = Code(At(b, <<r, c>>)) /\ At(b, <<r, c>>) \in Pieces
    BY <1>1, <1>2, <1>5, BoardInTrainingIs, ManIs
  <2> QED
    BY <2>1 DEF At
<1>7. \A c \in 0 .. 7 : /\ B[far][c] = 0 <=> At(b, <<r, c>>) = 0
                        /\ B[far][c] = K <=> At(b, <<r, c>>) = 6 * Forward(white)
                        /\ B[far][c] = K - 2 <=> At(b, <<r, c>>) = 4 * Forward(white)
  BY <1>1, <1>6, CodeIs, RoyalCodes
<1> HIDE DEF K
<1>8. \A c : attacked(c) <=> Trn!IsSquareUnderAttack(t, Across(<<r, c>>), Forward(white))
  BY <1>2 DEF attacked
<1>9. 0 \in 0 .. 7 /\ 4 \in 0 .. 7 /\ 7 \in 0 .. 7
      /\ 5 .. 6 \subseteq 0 .. 7 /\ 1 .. 3 \subseteq 0 .. 7
  OBVIOUS
<1> QED
  BY <1>4, <1>7, <1>8, <1>9 DEF b, Ready, Calm

(* An empty square of the home row that the game server finds safe is safe *)
(* for the training code as well: only a pawn's step onto it could differ, *)
(* and that pawn would attack the square beside.                           *)
LEMMA SafeHome ==
  ASSUME NEW p, NEW t, NEW white, Trained(p, t, white), NEW r, r = Row(white),
         NEW c \in 1 .. 6, NEW d \in {c - 1, c + 1}, At(p.board, <<r, c>>) = 0,
         ~ Chs!IsSquareAttacked(p, <<r, c>>, ~ white),
         \/ At(p.board, <<r, d>>) = 6 * Forward(white) /\ ~ Check(p.board, white)
         \/ At(p.board, <<r, d>>) = 0 /\ ~ Chs!IsSquareAttacked(p, <<r, d>>, ~ white)
  PROVE  ~ Trn!IsSquareUnderAttack(t, Across(<<r, c>>), Forward(white))
<1> DEFINE b == p.board
           u == <<r, c>>
           v == <<r, d>>
<1> SUFFICES ASSUME Trn!IsSquareUnderAttack(t, Across(u), Forward(white)) PROVE FALSE
  OBVIOUS
<1>1. /\ ChessPosition(p) /\ b \in Men /\ white \in BOOLEAN /\ (~ white) \in BOOLEAN
      /\ r = IF white THEN 0 ELSE 7
  BY DEF Trained, ChessPosition, Row
<1>2. u \in Squares(8) /\ v \in Squares(8)
  BY <1>1 DEF Squares
<1>3. PICK x \in Squares(8) :
        /\ Own(b, x, ~ white)
        /\ Trn!PieceMovesForBoard(t.board, Across(x), Across(u), Forward(white))
  BY <1>2, UnderAttackIs
<1>4. IF Man(b, x) = 1 THEN Pushes(b, x, u, ~ white) ELSE Marches(b, x, u)
  BY <1>2, <1>3, UnderAttackIs
<1>5. ~ (IF Man(b, x) = 1 THEN Slants(x, u, ~ white) ELSE Marches(b, x, u))
  BY <1>1, <1>2, <1>3, AttackedIs
<1>6. Man(b, x) = 1 /\ Pushes(b, x, u, ~ white)
  BY <1>4, <1>5
<1>7. Slants(x, v, ~ white)
  <2>1. /\ x[1] \in 0 .. 7 /\ x[2] \in 0 .. 7 /\ x = <<x[1], x[2]>>
    BY DEF Squares
  <2>2. Forward(~ white) = IF white THEN -1 ELSE 1
    BY <1>1 DEF Forward
  <2>3. u[1] = r /\ u[2] = c /\ v[1] = r /\ v[2] = d
    OBVIOUS
  <2>4. r = x[1] + Forward(~ white) /\ x[2] = c
    <3>1. CASE white = TRUE
      BY <1>1, <1>6, <2>1, <2>2, <2>3, <3>1 DEF Pushes
    <3>2. CASE white = FALSE
      BY <1>1, <1>6, <2>1, <2>2, <2>3, <3>2 DEF Pushes
    <3> QED
      BY <1>1, <3>1, <3>2
  <2>5. Rows(x, v) = Forward(~ white)
    BY <1>1, <2>1, <2>2, <2>3, <2>4 DEF Rows
  <2>6. Columns(x, v) \in {1, -1}
    BY <2>1, <2>3, <2>4 DEF Columns
  <2> QED
    BY <2>5, <2>6 DEF Slants, Size
<1> HIDE DEF b, u, v
<1>8. CASE At(b, v) = 6 * Forward(white) /\ ~ Check(b, white)
  <2>1. Forward(At(b, x) > 0) = Forward(~ white)
    BY <1>3 DEF Own, Forward
  <2>2. Hits(b, x, v)
    BY <1>6, <1>7, <2>1 DEF Hits, Slants
  <2> QED
    BY <1>2, <1>3, <1>8, <2>2 DEF Check
<1>9. CASE At(b, v) = 0 /\ ~ Chs!IsSquareAttacked(p, v, ~ white)
  BY <1>1, <1>2, <1>3, <1>6, <1>7, <1>9, AttackedIs DEF b
<1> QED
  BY <1>8, <1>9 DEF b, v

(* What castling asks for on the game server, beside the flags.            *)
Roomy(p, r, white) ==
  \A c \in 5 .. 6 : At(p.board, <<r, c>>) = 0
                      /\ ~ Chs!IsSquareAttacked(p, <<r, c>>, ~ white)
RoomyFar(p, r, white) ==
  /\ \A c \in 1 .. 3 : At(p.board, <<r, c>>) = 0
  /\ \A c \in 2 .. 3 : ~ Chs!IsSquareAttacked(p, <<r, c>>, ~ white)

(* What the game server asks for castling.                                 *)
LEMMA CastlesToIs ==
  ASSUME NEW p, NEW white \in BOOLEAN, NEW r, r = Row(white), NEW u
  PROVE  u \in Chs!CastlingMoves(p, white) <=>
           /\ ~ p.kingMoved[white] /\ ~ Chs!IsInCheck(p, white)
           /\ \/ u = <<r, 6>> /\ 7 \notin p.rookMoved[white] /\ Roomy(p, r, white)
              \/ u = <<r, 2>> /\ 0 \notin p.rookMoved[white] /\ RoomyFar(p, r, white)
<1> DEFINE Safe(c) == ~ Chs!IsSquareAttacked(p, <<r, c>>, ~ white)
           Empty(c) == p.board[r][c] = 0
<1>1. Chs!CastlingMoves(p, white) =
        IF p.kingMoved[white] \/ Chs!IsInCheck(p, white) THEN {}
        ELSE {x \in {<<r, 2>>, <<r, 6>>} :
             IF x[2] = 6
             THEN /\ 7 \notin p.rookMoved[white]
                  /\ \A c \in {5, 6} : Empty(c) /\ Safe(c)
             ELSE /\ 0 \notin p.rookMoved[white]
                  /\ \A c \in {1, 2, 3} : Empty(c)
                  /\ \A c \in {2, 3} : Safe(c)}
  BY DEF Chs!CastlingMoves, Row
<1>2. \A c : Empty(c) <=> At(p.board, <<r, c>>) = 0
  BY DEF At
<1> HIDE DEF Safe, Empty
<1>3. Roomy(p, r, white) <=> \A c \in {5, 6} : Empty(c) /\ Safe(c)
  <2>1. 5 .. 6 = {5, 6}
    OBVIOUS
  <2> QED
    BY <1>2, <2>1 DEF Roomy, Safe
<1>4. RoomyFar(p, r, white) <=>
        (\A c \in {1, 2, 3} : Empty(c)) /\ \A c \in {2, 3} : Safe(c)
  <2>1. 1 .. 3 = {1, 2, 3} /\ 2 .. 3 = {2, 3}
    OBVIOUS
  <2> QED
    BY <1>2, <2>1 DEF RoomyFar, Safe
<1>5. <<r, 6>>[2] = 6 /\ <<r, 2>>[2] = 2
  OBVIOUS
<1> DEFINE near == 7 \notin p.rookMoved[white] /\ \A c \in {5, 6} : Empty(c) /\ Safe(c)
           far == /\ 0 \notin p.rookMoved[white]
                  /\ \A c \in {1, 2, 3} : Empty(c)
                  /\ \A c \in {2, 3} : Safe(c)
           free == ~ p.kingMoved[white] /\ ~ Chs!IsInCheck(p, white)
<1>6. u \in Chs!CastlingMoves(p, white) <=>
        /\ free
        /\ u \in {<<r, 2>>, <<r, 6>>}
        /\ IF u[2] = 6 THEN near ELSE far
  BY <1>1
<1>7. /\ near <=> 7 \notin p.rookMoved[white] /\ Roomy(p, r, white)
      /\ far <=> 0 \notin p.rookMoved[white] /\ RoomyFar(p, r, white)
  BY <1>3, <1>4
<1> HIDE DEF near, far, free
<1>8. u \in Chs!CastlingMoves(p, white) <=>
        free /\ ((u = <<r, 6>> /\ near) \/ (u = <<r, 2>> /\ far))
  <2>1. u = <<r, 6>> => u[2] = 6
    BY <1>5
  <2>2. u = <<r, 2>> => u[2] # 6
    BY <1>5
  <2> QED
    BY <1>6, <2>1, <2>2
<1>9. free <=> ~ p.kingMoved[white] /\ ~ Chs!IsInCheck(p, white)
  BY DEF free
<1> QED
  BY <1>7, <1>8, <1>9

(* Where the game server castles with a rook, the training code does.      *)
LEMMA FreeToCastle ==
  ASSUME NEW p, NEW t, NEW white, Trained(p, t, white), NEW r, r = Row(white),
         At(p.board, <<r, 4>>) = 6 * Forward(white), ~ Chs!IsInCheck(p, white)
  PROVE  /\ Roomy(p, r, white) /\ At(p.board, <<r, 7>>) = 4 * Forward(white) =>
              Trn!CanCastleKingside(t, Forward(white))
         /\ RoomyFar(p, r, white) /\ At(p.board, <<r, 0>>) = 4 * Forward(white) =>
              Trn!CanCastleQueenside(t, Forward(white))
<1> DEFINE safe(c) == ~ Trn!IsSquareUnderAttack(t, Across(<<r, c>>), Forward(white))
<1>1. /\ p.board \in Men /\ white \in BOOLEAN /\ r \in 0 .. 7
  BY DEF Trained, ChessPosition, Row
<1>2. ~ Check(p.board, white)
  BY <1>1, CheckIs
<1>3. safe(4)
  <2>1. <<r, 4>> \in Squares(8)
    BY <1>1 DEF Squares
  <2>2. Own(p.board, <<r, 4>>, white)
    BY <1>1, KingCode DEF Own
  <2> QED
    BY <2>1, <2>2, UnderAttackIs
<1>4. ASSUME Roomy(p, r, white) PROVE safe(5) /\ safe(6)
  <2>1. \A c \in {5, 6} : At(p.board, <<r, c>>) = 0
                            /\ ~ Chs!IsSquareAttacked(p, <<r, c>>, ~ white)
    BY <1>4 DEF Roomy
  <2>2. 5 \in 1 .. 6 /\ 6 \in 1 .. 6 /\ 4 \in {5 - 1, 5 + 1} /\ 5 \in {6 - 1, 6 + 1}
    OBVIOUS
  <2>3. safe(5)
    BY <1>2, <2>1, <2>2, SafeHome
  <2>4. safe(6)
    BY <2>1, <2>2, SafeHome
  <2> QED
    BY <2>3, <2>4
<1>5. ASSUME RoomyFar(p, r, white) PROVE safe(2) /\ safe(3)
  <2>1. \A c \in {2, 3} : At(p.board, <<r, c>>) = 0
                            /\ ~ Chs!IsSquareAttacked(p, <<r, c>>, ~ white)
    BY <1>5 DEF RoomyFar
  <2>2. 2 \in 1 .. 6 /\ 3 \in 1 .. 6 /\ 3 \in {2 - 1, 2 + 1} /\ 4 \in {3 - 1, 3 + 1}
    OBVIOUS
  <2>3. safe(3)
    BY <1>2, <2>1, <2>2, SafeHome
  <2>4. safe(2)
    BY <2>1, <2>2, SafeHome
  <2> QED
    BY <2>3, <2>4
<1>6. Roomy(p, r, white) => \A c \in 5 .. 6 : At(p.board, <<r, c>>) = 0
  BY DEF Roomy
<1>7. RoomyFar(p, r, white) => \A c \in 1 .. 3 : At(p.board, <<r, c>>) = 0
  BY DEF RoomyFar
<1>8. (\A c \in 4 .. 6 : c \in {4, 5, 6}) /\ \A c \in 2 .. 4 : c \in {2, 3, 4}
  OBVIOUS
<1>9. /\ safe(4) /\ safe(5) /\ safe(6) => \A c \in 4 .. 6 : safe(c)
      /\ safe(2) /\ safe(3) /\ safe(4) => \A c \in 2 .. 4 : safe(c)
  <2> HIDE DEF safe
  <2> QED
    BY <1>8
<1>10. /\ Roomy(p, r, white) => \A c \in 4 .. 6 : safe(c)
       /\ RoomyFar(p, r, white) => \A c \in 2 .. 4 : safe(c)
  BY <1>3, <1>4, <1>5, <1>9
<1> HIDE DEF safe
<1> QED
  BY <1>6, <1>7, <1>10, CanCastleIs DEF safe, Ready, Calm

(* Every castling with a rook is among the training code's moves.          *)
LEMMA CastlesTrained ==
  ASSUME NEW p, NEW t, NEW white, Trained(p, t, white),
         NEW m \in Chs!ValidMoves(p), Castling(p, m),
         At(p.board, Corner(m)) = 4 * Forward(white)
  PROVE  <<Across(m[1]), Across(m[2])>> \in Trn!TrainValidMoves(t)
<1> DEFINE s == m[1]
           u == m[2]
           b == p.board
           r == Row(white)
           F == Forward(white)
           R == Chs!Moved(p, m)
<1>1. /\ ChessPosition(p) /\ b \in Men /\ ChessInStep(p, t) /\ white \in BOOLEAN
      /\ (p.player = 0) = white /\ (white <=> (p.player = 0))
  BY DEF Trained, ChessPosition
<1>2. ChessMove(p, m)
  BY <1>1, ValidIsChessMove
<1>3. /\ ChessStep(p, m) /\ s = <<r, 4>> /\ s \in Squares(8) /\ u \in Squares(8)
      /\ u \in Chs!CastlingMoves(p, white) /\ Own(b, s, white)
      /\ Man(b, s) = 6 /\ m[3] = 0
  <2>1. Row(p.player = 0) = Row(white)
    BY <1>1
  <2>2. Chs!CastlingMoves(p, p.player = 0) = Chs!CastlingMoves(p, white)
    BY <1>1
  <2>3. Own(b, s, p.player = 0) <=> Own(b, s, white)
    BY <1>1
  <2> QED
    BY <1>2, <2>1, <2>2, <2>3 DEF ChessMove, ChessStep, Castling
<1>4. At(b, s) = 6 * F
  BY <1>1, <1>3, ManIs
<1>5. /\ ~ p.kingMoved[white] /\ ~ Chs!IsInCheck(p, white)
      /\ \/ u = <<r, 6>> /\ 7 \notin p.rookMoved[white] /\ Roomy(p, r, white)
         \/ u = <<r, 2>> /\ 0 \notin p.rookMoved[white] /\ RoomyFar(p, r, white)
  BY <1>1, <1>3, CastlesToIs
<1>6. t.rights[F] = {0, 7} \ p.rookMoved[white]
  BY <1>1, <1>5 DEF ChessInStep
<1>7. /\ u = <<r, 6>> => Corner(m) = <<r, 7>>
      /\ u = <<r, 2>> => Corner(m) = <<r, 0>>
  BY <1>3 DEF Corner
<1>8. r \in 0 .. 7 /\ Across(s) = <<7 - r, 4>>
  BY <1>3 DEF Row, Across
<1>9. /\ u = <<r, 6>> => Across(u) = <<7 - r, 6>>
      /\ u = <<r, 2>> => Across(u) = <<7 - r, 2>>
  BY DEF Across
<1>10. TrnCastlesTo(t, Across(s), Across(u), F)
  <2>1. CASE u = <<r, 6>> /\ 7 \notin p.rookMoved[white] /\ Roomy(p, r, white)
    <3>1. Trn!CanCastleKingside(t, F)
      BY <1>3, <1>4, <1>5, <1>7, <2>1, FreeToCastle
    <3>2. 7 \in t.rights[F]
      BY <1>6, <2>1
    <3>3. Across(u) = <<Across(s)[1], Across(s)[2] + 2>>
      BY <1>8, <1>9, <2>1
    <3> QED
      BY <3>1, <3>2, <3>3 DEF TrnCastlesTo
  <2>2. CASE u = <<r, 2>> /\ 0 \notin p.rookMoved[white] /\ RoomyFar(p, r, white)
    <3>1. Trn!CanCastleQueenside(t, F)
      BY <1>3, <1>4, <1>5, <1>7, <2>2, FreeToCastle
    <3>2. 0 \in t.rights[F]
      BY <1>6, <2>2
    <3>3. Across(u) = <<Across(s)[1], Across(s)[2] - 2>>
      BY <1>8, <1>9, <2>2
    <3> QED
      BY <3>1, <3>2, <3>3 DEF TrnCastlesTo
  <2> QED
    BY <1>5, <2>1, <2>2
<1>11. ~ Check(R, white)
  <2> SUFFICES ASSUME Check(R, white) PROVE FALSE
    OBVIOUS
  <2>1. /\ u = <<r, 2>>
        /\ At(b, <<r, 0>>) = -(6 * F)
    BY <1>1, <1>2, CastlesSafely
  <2>2. At(b, <<r, 0>>) = 4 * F
    BY <1>7, <2>1
  <2>3. F \in {1, -1}
    BY DEF Forward
  <2> HIDE DEF F
  <2> QED
    BY <2>1, <2>2, <2>3
<1>12. Trn!IsValidMove(t, Across(s), Across(u))
  BY <1>3, <1>11, TrnTestIs
<1> HIDE DEF s, u, F
<1> QED
  BY <1>3, <1>10, <1>12, TrainedMoves DEF s, u, F

(* A square of the same row that lies within a line: the line is the row,  *)
(* and runs on from it.                                                    *)
LEMMA WithinRow ==
  ASSUME NEW x \in Squares(8), NEW u \in Squares(8), NEW s \in Inner(x, u), s[1] = u[1],
         Straight(x, u) \/ Diagonal(x, u)
  PROVE  /\ Straight(x, u) /\ ~ Diagonal(x, u) /\ Straight(x, s)
         /\ Inner(x, s) \subseteq Inner(x, u) \ {s}
<1> DEFINE rows == Rows(x, u)
           columns == Columns(x, u)
           d == <<Sign(rows), Sign(columns)>>
           far == IF rows = 0 THEN Size(columns) ELSE Size(rows)
<1>1. /\ x[1] \in Int /\ x[2] \in Int /\ u[1] \in Int /\ u[2] \in Int
      /\ x = <<x[1], x[2]>> /\ u = <<u[1], u[2]>>
      /\ rows = u[1] - x[1] /\ columns = u[2] - x[2]
  BY DEF Squares, Rows, Columns
<1>2. Inner(x, u) = {Go(x, d, k) : k \in 1 .. far - 1}
  BY DEF Inner
<1>3. PICK k \in 1 .. far - 1 : s = Go(x, d, k)
  BY <1>2
<1>4. s[1] = x[1] + k * Sign(rows) /\ s[2] = x[2] + k * Sign(columns)
  BY <1>3 DEF Go
<1>5. rows \in Int /\ columns \in Int /\ far \in Nat /\ k \in Int /\ 0 < k /\ k < far
  <2>1. rows \in Int /\ columns \in Int
    BY <1>1
  <2>2. far \in Nat
    BY <2>1 DEF Size
  <2> QED
    BY <2>1, <2>2
<1> HIDE DEF rows, columns, far, d
<1>6. rows = 0
  <2>1. u[1] = x[1] + k * Sign(rows)
    BY <1>4
  <2>2. CASE rows > 0
    <3>1. Sign(rows) = 1 /\ k * 1 = k /\ far = rows
      BY <1>5, <2>2 DEF Sign, Size, far
    <3>2. rows = k
      BY <1>1, <1>5, <2>1, <3>1
    <3> QED
      BY <1>5, <3>1, <3>2
  <2>3. CASE rows < 0
    <3>1. Sign(rows) = -1 /\ k * (-1) = -k /\ far = -rows
      BY <1>5, <2>3 DEF Sign, Size, far
    <3>2. u[1] = x[1] - k
      BY <1>1, <1>5, <2>1, <3>1
    <3>3. rows = -k
      BY <1>1, <1>5, <3>2
    <3> QED
      BY <1>5, <3>1, <3>3
  <2> QED
    BY <1>5, <2>2, <2>3
<1>7. columns # 0 /\ far = Size(columns)
  BY <1>5, <1>6 DEF far, Size
<1>8. Straight(x, u) /\ ~ Diagonal(x, u)
  <2>1. Size(columns) # 0 /\ Size(0) = 0
    BY <1>5, <1>7 DEF Size
  <2> QED
    BY <1>6, <1>7, <2>1 DEF Straight, Diagonal, rows, columns
<1>9. Rows(x, s) = 0 /\ Columns(x, s) = k * Sign(columns)
  <2>1. Sign(rows) = 0 /\ k * 0 = 0
    BY <1>5, <1>6 DEF Sign
  <2>2. Sign(columns) \in Int /\ k * Sign(columns) \in Int
    BY <1>5 DEF Sign
  <2>3. s[1] = x[1]
    BY <1>1, <1>4, <2>1
  <2> QED
    BY <1>1, <1>4, <2>2, <2>3 DEF Rows, Columns
<1>10. Size(Columns(x, s)) = k /\ Sign(Columns(x, s)) = Sign(columns)
  <2>1. CASE columns > 0
    <3>1. Sign(columns) = 1 /\ k * 1 = k
      BY <1>5, <2>1 DEF Sign
    <3> QED
      BY <1>5, <1>9, <3>1 DEF Size, Sign
  <2>2. CASE columns < 0
    <3>1. Sign(columns) = -1 /\ k * (-1) = -k
      BY <1>5, <2>2 DEF Sign
    <3> QED
      BY <1>5, <1>9, <3>1 DEF Size, Sign
  <2> QED
    BY <1>5, <1>7, <2>1, <2>2
<1>11. Straight(x, s)
  <2>1. Columns(x, s) # 0
    BY <1>5, <1>10 DEF Size
  <2> QED
    BY <1>9, <2>1 DEF Straight
<1>12. Inner(x, s) = {Go(x, d, j) : j \in 1 .. k - 1}
  <2>1. <<Sign(Rows(x, s)), Sign(Columns(x, s))>> = d
    BY <1>6, <1>9, <1>10 DEF d
  <2> QED
    BY <1>9, <1>10, <2>1 DEF Inner
<1>13. ASSUME NEW j \in 1 .. k - 1
       PROVE  Go(x, d, j) \in Inner(x, u) /\ Go(x, d, j) # s
  <2>1. j \in 1 .. far - 1 /\ j \in Int /\ j # k
    BY <1>5
  <2>2. Go(x, d, j)[2] = x[2] + j * Sign(columns)
    BY DEF Go, d
  <2>3. Sign(columns) \in {1, -1}
    BY <1>5, <1>7 DEF Sign
  <2>4. CASE Sign(columns) = 1
    BY <1>1, <1>4, <1>5, <1>2, <2>1, <2>2, <2>4
  <2>5. CASE Sign(columns) = -1
    BY <1>1, <1>4, <1>5, <1>2, <2>1, <2>2, <2>5
  <2> QED
    BY <2>3, <2>4, <2>5
<1> QED
  BY <1>8, <1>11, <1>12, <1>13

(* A king steps aside on a safe row from no check to a safe square.        *)
LEMMA StepsAside ==
  ASSUME NEW b \in Men, NEW T, NEW white \in BOOLEAN,
         NEW s \in Squares(8), NEW u \in Squares(8), s[1] = u[1], At(b, u) = 0,
         \A y \in Squares(8) : At(b, y) = 6 * Forward(white) <=> y = s,
         \A y \in Squares(8) :
           At(T, y) = IF y = s THEN 0 ELSE IF y = u THEN At(b, s) ELSE At(b, y),
         ~ Check(b, white),
         \A x \in Squares(8) : Own(b, x, ~ white) =>
           ~ (IF Man(b, x) = 1 THEN Slants(x, u, ~ white) ELSE Marches(b, x, u))
  PROVE  ~ Check(T, white)
<1> SUFFICES ASSUME Check(T, white) PROVE FALSE
  OBVIOUS
<1> DEFINE king == 6 * Forward(white)
<1>1. PICK k \in Squares(8), x \in Squares(8) :
        At(T, k) = king /\ Own(T, x, ~ white) /\ Hits(T, x, k)
  BY DEF Check
<1>2. king # 0 /\ (king > 0 <=> white)
  BY KingCode
<1>3. At(b, s) = king
  OBVIOUS
<1> HIDE DEF king
<1>4. k = u
  BY <1>1, <1>2 DEF king
<1>5. x # u /\ x # s /\ At(T, x) = At(b, x)
  BY <1>1, <1>2, <1>3 DEF Own
<1>6. Own(b, x, ~ white) /\ Man(T, x) = Man(b, x)
  BY <1>1, <1>5 DEF Own, Man
<1>7. \A y \in Squares(8) : At(T, y) = 0 => y = s \/ At(b, y) = 0
  BY <1>2, <1>3
<1>8. ~ (IF Man(b, x) = 1 THEN Slants(x, u, ~ white) ELSE Marches(b, x, u))
  BY <1>6
<1>9. Man(b, x) # 1 /\ ~ Marches(b, x, u)
  <2>1. Forward(At(T, x) > 0) = Forward(~ white)
    BY <1>1 DEF Own, Forward
  <2>2. Man(b, x) = 1 => Slants(x, u, ~ white)
    BY <1>1, <1>4, <1>6, <2>1 DEF Hits, Slants
  <2> QED
    BY <1>8, <2>2
<1>10. /\ Man(b, x) \in {3, 4, 5}
       /\ \A y \in Inner(x, u) : At(T, y) = 0
       /\ Man(b, x) = 3 => Diagonal(x, u)
       /\ Man(b, x) = 4 => Straight(x, u)
       /\ Straight(x, u) \/ Diagonal(x, u)
  BY <1>1, <1>4, <1>6, <1>9 DEF Hits, Marches
<1>11. Inner(x, u) \subseteq Squares(8)
  BY <1>10, InnerIs
<1>12. CASE s \notin Inner(x, u)
  <2>1. \A y \in Inner(x, u) : At(b, y) = 0
    BY <1>7, <1>10, <1>11, <1>12
  <2> QED
    BY <1>9, <1>10, <2>1 DEF Marches
<1>13. CASE s \in Inner(x, u)
  <2>1. /\ ~ Diagonal(x, u) /\ Straight(x, s)
        /\ Inner(x, s) \subseteq Inner(x, u) \ {s}
    BY <1>10, <1>13, WithinRow
  <2>2. Man(b, x) \in {4, 5}
    BY <1>10, <2>1
  <2>3. \A y \in Inner(x, s) : At(b, y) = 0
    BY <1>7, <1>10, <1>11, <2>1
  <2>4. Hits(b, x, s)
    BY <2>1, <2>2, <2>3 DEF Hits
  <2> QED
    BY <1>3, <1>6, <2>4 DEF Check, king
<1> QED
  BY <1>12, <1>13

(* The training code's castling starts from home, and the game server      *)
(* castles as well, unless it is the check or a square in between.         *)
LEMMA TrainedCastles ==
  ASSUME NEW p, NEW t, NEW white, Trained(p, t, white),
         NEW M \in Trn!TrainValidMoves(t),
         NEW n, n = <<Across(M[1]), Across(M[2]), 0>>, Castling(p, n),
         NEW r, r = Row(white)
  PROVE  /\ n[1][1] = r
         /\ \/ n \in Chs!ValidMoves(p)
            \/ Chs!IsInCheck(p, white)
            \/ \E c \in 2 .. 6 : Chs!IsSquareAttacked(p, <<r, c>>, ~ white)
<1> DEFINE b == p.board
           F == Forward(white)
           u == n[2]
           T == Tried(p, n[1], n[2])
<1>1. /\ ChessPosition(p) /\ b \in Men /\ p.player \in {0, 1} /\ KingHome(p)
      /\ ChessInStep(p, t) /\ white \in BOOLEAN /\ (~ white) \in BOOLEAN
      /\ (p.player = 0) = white /\ (white <=> (p.player = 0))
  BY DEF Trained, ChessPosition
<1>2. PICK s, U :
        /\ s \in Squares(8) /\ M = <<Across(s), U>> /\ Own(b, s, white)
        /\ \/ U \in Squares(8) /\ TrnSteps(t, Across(s), U)
           \/ Man(b, s) = 6 /\ TrnCastlesTo(t, Across(s), U, F)
  BY TrainedMoves
<1>3. n[1] = s /\ u = Across(U) /\ n[3] = 0 /\ n = <<s, u, 0>>
      /\ Man(b, s) = 6 /\ Size(Columns(s, u)) = 2
  BY <1>2, AcrossIs DEF Castling
<1> HIDE DEF u, T
<1>4. TrnCastlesTo(t, Across(s), U, F)
  <2> SUFFICES ASSUME U \in Squares(8), TrnSteps(t, Across(s), U) PROVE FALSE
    BY <1>2
  <2>1. u \in Squares(8) /\ U = Across(u)
    BY <1>3, AcrossIs
  <2>2. Chs!Reaches(p, s, u)
    BY <1>2, <2>1, SameSteps
  <2> QED
    BY <1>1, <1>2, <1>3, <2>1, <2>2, ReachesIs
<1>5. ~ p.kingMoved[white] /\ t.rights[F] = {0, 7} \ p.rookMoved[white]
  BY <1>1, <1>4 DEF ChessInStep, TrnCastlesTo
<1>6. At(b, s) = 6 * F
  BY <1>1, <1>2, <1>3, ManIs
<1>7. \A y \in Squares(8) : At(b, y) = 6 * F <=> y = s
  <2>1. \A y \in Squares(8) : At(b, y) = 6 * F => y = <<r, 4>>
    BY <1>1, <1>5 DEF KingHome
  <2> QED
    BY <1>2, <1>6, <2>1
<1>8. s = <<r, 4>>
  BY <1>1, <1>2, <1>5, <1>6 DEF KingHome
<1>9. r \in {0, 7} /\ Across(s)[1] = 7 - r /\ Across(s)[2] = 4
  BY <1>8 DEF Row, Across
<1>10. \/ /\ u = <<r, 6>> /\ 7 \notin p.rookMoved[white]
          /\ Trn!CanCastleKingside(t, F)
       \/ /\ u = <<r, 2>> /\ 0 \notin p.rookMoved[white]
          /\ Trn!CanCastleQueenside(t, F)
  <2>1. CASE /\ U = <<Across(s)[1], Across(s)[2] + 2>> /\ 7 \in t.rights[F]
             /\ Trn!CanCastleKingside(t, F)
    <3>1. U[1] = 7 - r /\ U[2] = 6
      BY <1>9, <2>1
    <3>2. u = <<r, 6>>
      BY <1>3, <1>9, <3>1 DEF Across
    <3> QED
      BY <1>5, <2>1, <3>2
  <2>2. CASE /\ U = <<Across(s)[1], Across(s)[2] - 2>> /\ 0 \in t.rights[F]
             /\ Trn!CanCastleQueenside(t, F)
    <3>1. U[1] = 7 - r /\ U[2] = 2
      BY <1>9, <2>2
    <3>2. u = <<r, 2>>
      BY <1>3, <1>9, <3>1 DEF Across
    <3> QED
      BY <1>5, <2>2, <3>2
  <2> QED
    BY <1>4, <2>1, <2>2 DEF TrnCastlesTo
<1>13. /\ Trn!CanCastleKingside(t, F) => \A c \in 5 .. 6 : At(b, <<r, c>>) = 0
       /\ Trn!CanCastleQueenside(t, F) => \A c \in 1 .. 3 : At(b, <<r, c>>) = 0
  <2>1. /\ Trn!CanCastleKingside(t, F) => Ready(b, r, white, 7, 5 .. 6)
        /\ Trn!CanCastleQueenside(t, F) => Ready(b, r, white, 0, 1 .. 3)
    BY CanCastleIs
  <2> QED
    BY <2>1 DEF Ready
<1>11. n[1][1] = r
  BY <1>3, <1>8
<1>12. ASSUME ~ Chs!IsInCheck(p, white),
              \A c \in 2 .. 6 : ~ Chs!IsSquareAttacked(p, <<r, c>>, ~ white)
       PROVE  n \in Chs!ValidMoves(p)
  <2>1. u \in Chs!CastlingMoves(p, white)
    <3>1. CASE /\ u = <<r, 6>> /\ 7 \notin p.rookMoved[white]
               /\ Trn!CanCastleKingside(t, F)
      <4>1. \A c \in 5 .. 6 : At(b, <<r, c>>) = 0
        BY <1>13, <3>1
      <4>2. Roomy(p, r, white)
        BY <1>12, <4>1 DEF Roomy
      <4> QED
        BY <1>1, <1>5, <1>12, <3>1, <4>2, CastlesToIs
    <3>2. CASE /\ u = <<r, 2>> /\ 0 \notin p.rookMoved[white]
               /\ Trn!CanCastleQueenside(t, F)
      <4>1. \A c \in 1 .. 3 : At(b, <<r, c>>) = 0
        BY <1>13, <3>2
      <4>2. RoomyFar(p, r, white)
        BY <1>12, <4>1 DEF RoomyFar
      <4> QED
        BY <1>1, <1>5, <1>12, <3>2, <4>2, CastlesToIs
    <3> QED
      BY <1>10, <3>1, <3>2
  <2>2. /\ u \in {<<r, 2>>, <<r, 6>>} /\ u \in Squares(8) /\ u # s /\ u[1] = s[1]
        /\ Straight(s, u) /\ At(b, u) = 0 /\ u[2] \in 2 .. 6 /\ u = <<r, u[2]>>
    <3>1. CASE u = <<r, 6>> /\ Trn!CanCastleKingside(t, F)
      <4>1. At(b, <<r, 6>>) = 0
        BY <1>13, <3>1
      <4> QED
        BY <1>8, <1>9, <3>1, <4>1 DEF Squares, Straight, Rows, Columns
    <3>2. CASE u = <<r, 2>> /\ Trn!CanCastleQueenside(t, F)
      <4>1. At(b, <<r, 2>>) = 0
        BY <1>13, <3>2
      <4> QED
        BY <1>8, <1>9, <3>2, <4>1 DEF Squares, Straight, Rows, Columns
    <3> QED
      BY <1>10, <3>1, <3>2
  <2>3. ChessStep(p, n)
    <3>1. Row(p.player = 0) = r
      BY <1>1
    <3>2. Chs!CastlingMoves(p, p.player = 0) = Chs!CastlingMoves(p, white)
      BY <1>1
    <3>3. Own(b, s, p.player = 0)
      BY <1>1, <1>2
    <3> QED
      BY <1>2, <1>3, <1>8, <2>1, <2>2, <3>1, <3>2, <3>3 DEF ChessStep, u
  <2>4. /\ Chs!WouldBeInCheckAfterMove(p, s, u, p.player = 0) <=> Check(T, white)
        /\ \A y \in Squares(8) :
             At(T, y) = IF y = s THEN 0 ELSE IF y = u THEN At(b, s) ELSE At(b, y)
    BY <1>1, <1>3, <2>3, TriedIs DEF T, u
  <2>5. ~ Check(b, white)
    BY <1>1, <1>12, CheckIs
  <2>6. ~ Chs!IsSquareAttacked(p, u, ~ white)
    BY <1>12, <2>2
  <2>7. \A x \in Squares(8) : Own(b, x, ~ white) =>
          ~ (IF Man(b, x) = 1 THEN Slants(x, u, ~ white) ELSE Marches(b, x, u))
    BY <1>1, <2>2, <2>6, AttackedIs
  <2>8. ~ Check(T, white)
    BY <1>1, <1>2, <1>7, <2>2, <2>4, <2>5, <2>7, StepsAside
  <2>9. u \in Chs!PieceMoves(p, s)
    <3>1. Chs!IsWhite(At(b, s)) = white
      <4>1. Chs!IsWhite(At(b, s)) <=> white
        BY <1>1, <1>2, ManIs
      <4> QED
        BY <1>1, <4>1 DEF Chs!IsWhite
    <3>2. Chs!CastlingMoves(p, Chs!IsWhite(At(b, s))) = Chs!CastlingMoves(p, white)
      BY <3>1
    <3> QED
      BY <1>3, <2>1, <3>2, ChsGrid, ChsGeometry DEF Chs!PieceMoves, Man, Chs!King
  <2>10. 0 \in Chs!Promotions(p, s, u)
    BY <1>3, ChsGrid, ChsGeometry DEF Chs!Promotions, Man, Chs!Pawn
  <2>11. Own(b, s, p.player = 0)
    BY <1>1, <1>2
  <2> QED
    BY <1>1, <1>2, <1>3, <2>4, <2>8, <2>9, <2>10, <2>11, ChessMoveIs
<1> QED
  BY <1>11, <1>12

(* In a chess game the two agree on plain moves, and on castling but for   *)
(* the rook on one side and the safe squares on the other.                 *)
SamePlain ==
  /\ \A m \in Chs!ValidMoves(server) : Plain(server, m[1], m[2]) =>
       <<Across(m[1]), Across(m[2])>> \in Trn!TrainValidMoves(train)
  /\ \A M \in Trn!TrainValidMoves(train) :
       Plain(server, Across(M[1]), Across(M[2])) =>
         \E m \in Chs!ValidMoves(server) :
           Plain(server, m[1], m[2]) /\ M = <<Across(m[1]), Across(m[2])>>

(* The three parts of SameMoves for chess.                                 *)
LEMMA SameChessMoves ==
  ASSUME Inv, together, ~ over, game = "Chess", NEW white, white = (server.player = 0)
  PROVE  /\ SamePlain
         /\ \A m \in Chs!ValidMoves(server) :
              Castling(server, m) /\ RookOnCorner(m) =>
                <<Across(m[1]), Across(m[2])>> \in Trn!TrainValidMoves(train)
         /\ \A M \in Trn!TrainValidMoves(train) :
              LET n == <<Across(M[1]), Across(M[2]), 0>>
              IN Castling(server, n) =>
                   \/ n \in Chs!ValidMoves(server)
                   \/ Chs!IsInCheck(server, white)
                   \/ \E c \in 2 .. 6 :
                        Chs!IsSquareAttacked(server, <<n[1][1], c>>, ~ white)
<1>1. Trained(server, train, white)
  <2>1. /\ ChessPosition(server) /\ ChessInStep(server, train)
        /\ train.player = Seat(server.player)
    BY DEF Inv, ChsInv
  <2> QED
    BY <2>1 DEF Trained, Seat, Forward
<1>2. SamePlain
  BY <1>1, PlainMoves DEF SamePlain
<1>3. ASSUME NEW m \in Chs!ValidMoves(server), Castling(server, m), RookOnCorner(m)
      PROVE  <<Across(m[1]), Across(m[2])>> \in Trn!TrainValidMoves(train)
  <2>1. OwnRook(server.player = 0) = 4 * Forward(white)
    <3>1. CASE white = TRUE
      <4>1. 4 * 1 = 4
        OBVIOUS
      <4> QED
        BY <3>1, <4>1, ChsGeometry DEF OwnRook, Forward, Chs!Rook
    <3>2. CASE white = FALSE
      <4>1. 4 * (-1) = -4
        OBVIOUS
      <4> QED
        BY <3>2, <4>1, ChsGeometry DEF OwnRook, Forward, Chs!Rook
    <3> QED
      BY <3>1, <3>2
  <2>2. At(server.board, Corner(m)) = 4 * Forward(white)
    BY <1>3, <2>1 DEF RookOnCorner, Corner
  <2> QED
    BY <1>1, <1>3, <2>2, CastlesTrained
<1>4. ASSUME NEW M \in Trn!TrainValidMoves(train),
             NEW n, n = <<Across(M[1]), Across(M[2]), 0>>, Castling(server, n)
      PROVE  \/ n \in Chs!ValidMoves(server)
             \/ Chs!IsInCheck(server, white)
             \/ \E c \in 2 .. 6 :
                  Chs!IsSquareAttacked(server, <<n[1][1], c>>, ~ white)
  <2> DEFINE r == Row(white)
  <2>1. r = Row(white)
    OBVIOUS
  <2> HIDE DEF r
  <2>2. /\ n[1][1] = r
        /\ \/ n \in Chs!ValidMoves(server)
           \/ Chs!IsInCheck(server, white)
           \/ \E c \in 2 .. 6 : Chs!IsSquareAttacked(server, <<r, c>>, ~ white)
    BY <1>1, <1>4, <2>1, TrainedCastles
  <2> QED
    BY <2>2
<1> QED
  BY <1>2, <1>3, <1>4

(* The two offer the same moves, wherever the play has led them together:  *)
(* get_valid_moves and the training code's generator go through the same   *)
(* lines on boards turned over, and differ on castling and on captures in  *)
(* passing only as said.                                                   *)
THEOREM MovesAgree == Spec => []SameMoves
<1>1. Inv => SameMoves
  <2> SUFFICES ASSUME Inv, together, ~ over PROVE SameMoves
    BY DEF SameMoves
  <2> DEFINE offered == ValidMoves(game, server)
             known == {m \in offered : Castles(m) \/ TakesInPassing(m)}
             trained == TrainValidMoves(game, train)
             Known(m) == game = "Chess" /\ LET n == <<Across(m[1]), Across(m[2])>>
                                           IN Castles(n) \/ TakesInPassing(n)
             white == server.player = 0
             Agree == {InTraining(game, m) : m \in offered \ known}
                       = {m \in trained : ~ Known(m)}
             RookThere == \A m \in known : Castles(m) /\ RookOnCorner(m) =>
                            InTraining(game, m) \in trained
             Trains == \A m \in trained :
                         LET n == <<Across(m[1]), Across(m[2]), 0>>
                         IN Known(m) /\ Castles(n) =>
                              \/ n \in offered
                              \/ Chs!IsInCheck(server, white)
                              \/ \E c \in 2 .. 6 :
                                   Chs!IsSquareAttacked(server, <<n[1][1], c>>, ~ white)
  <2>1. SameMoves <=> Agree /\ RookThere /\ Trains
    BY DEF SameMoves
  <2>2. CASE game # "Chess"
    <3>1. trained = offered
      BY <2>2, SameStoneMoves
    <3>2. known = {} /\ \A m : ~ Known(m)
      BY <2>2 DEF Castles, TakesInPassing
    <3>3. \A m : InTraining(game, m) = m
      BY <2>2 DEF InTraining
    <3> HIDE DEF offered, trained, known, Known
    <3> QED
      BY <2>1, <3>1, <3>2, <3>3
  <2>3. CASE game = "Chess"
    <3>1. offered = Chs!ValidMoves(server) /\ trained = Trn!TrainValidMoves(train)
      BY <2>3, ChessOps, ChessTrainingOps
    <3>2. \A m : Castles(m) <=> Castling(server, m)
      BY <2>3, ChsGeometry DEF Castles, Castling, Man, Chs!King
    <3>3. \A m : Castles(m) \/ TakesInPassing(m) <=> ~ Plain(server, m[1], m[2])
      BY <2>3, <3>2 DEF TakesInPassing, Plain, Castling, Man, Chs!Pawn
    <3>4. \A m : Known(m) <=> ~ Plain(server, Across(m[1]), Across(m[2]))
      <4> TAKE m
      <4> DEFINE n == <<Across(m[1]), Across(m[2])>>
      <4>1. n[1] = Across(m[1]) /\ n[2] = Across(m[2])
        OBVIOUS
      <4>2. Known(m) <=> Castles(n) \/ TakesInPassing(n)
        BY <2>3
      <4> HIDE DEF n, Known
      <4>3. Castles(n) \/ TakesInPassing(n) <=> ~ Plain(server, n[1], n[2])
        BY <3>3
      <4> QED
        BY <4>1, <4>2, <4>3
    <3>5. \A m : InTraining(game, m) = <<Across(m[1]), Across(m[2])>>
      BY <2>3 DEF InTraining
    <3>6. \A m : m \in known <=> m \in offered /\ ~ Plain(server, m[1], m[2])
      BY <3>3
    <3> HIDE DEF offered, trained, known, Known
    <3>7. Agree
      <4>1. SamePlain
        BY <2>3, SameChessMoves
      <4>2. ASSUME NEW m \in offered \ known
            PROVE  InTraining(game, m) \in {M \in trained : ~ Known(M)}
        <5>1. Plain(server, m[1], m[2])
          BY <3>6
        <5>2. <<Across(m[1]), Across(m[2])>> \in trained
          BY <3>1, <4>1, <5>1 DEF SamePlain
        <5>3. Across(Across(m[1])) = m[1] /\ Across(Across(m[2])) = m[2]
          <6>1. m[1] \in Squares(8) /\ m[2] \in Squares(8)
            BY <2>3, <3>1, ValidIsChessMove DEF Inv, ChsInv, ChessMove, ChessStep
          <6> QED
            BY <6>1, AcrossIs
        <5> DEFINE M == <<Across(m[1]), Across(m[2])>>
        <5>4. Across(M[1]) = m[1] /\ Across(M[2]) = m[2]
          BY <5>3
        <5> HIDE DEF M
        <5>5. ~ Known(M)
          BY <3>4, <5>1, <5>4
        <5> QED
          BY <3>5, <5>2, <5>5 DEF M
      <4>3. ASSUME NEW M \in trained, ~ Known(M)
            PROVE  \E m \in offered \ known : M = InTraining(game, m)
        <5>1. Plain(server, Across(M[1]), Across(M[2]))
          BY <3>4, <4>3
        <5>2. PICK m \in offered : Plain(server, m[1], m[2])
                                     /\ M = <<Across(m[1]), Across(m[2])>>
          BY <3>1, <4>1, <5>1 DEF SamePlain
        <5> QED
          BY <3>5, <3>6, <5>2
      <4> QED
        BY <4>2, <4>3
    <3>8. RookThere
      <4> SUFFICES ASSUME NEW m \in known, Castles(m), RookOnCorner(m)
                   PROVE  InTraining(game, m) \in trained
        OBVIOUS
      <4>1. m \in Chs!ValidMoves(server) /\ Castling(server, m)
        BY <3>1, <3>2, <3>6
      <4>2. <<Across(m[1]), Across(m[2])>> \in Trn!TrainValidMoves(train)
        BY <2>3, <4>1, SameChessMoves
      <4> QED
        BY <3>1, <3>5, <4>2
    <3>9. Trains
      <4> SUFFICES ASSUME NEW M \in trained,
                          NEW n, n = <<Across(M[1]), Across(M[2]), 0>>, Castles(n)
                   PROVE  \/ n \in offered
                          \/ Chs!IsInCheck(server, white)
                          \/ \E c \in 2 .. 6 :
                               Chs!IsSquareAttacked(server, <<n[1][1], c>>, ~ white)
        OBVIOUS
      <4>1. M \in Trn!TrainValidMoves(train) /\ Castling(server, n)
        BY <3>1, <3>2
      <4> QED
        BY <2>3, <3>1, <4>1, SameChessMoves
    <3> QED
      BY <2>1, <3>7, <3>8, <3>9
  <2> QED
    BY <2>2, <2>3
<1> QED
  BY <1>1, Invariance, PTL
=============================================================================
