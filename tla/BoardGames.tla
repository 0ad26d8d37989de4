----------------------------- MODULE BoardGames -----------------------------
(***************************************************************************)
(* One game as the game server plays it (BoardGame.play) and, in step with *)
(* it, as the training code sees it (model/*/game_state.py): the networks  *)
(* learn the second set of rules and then play by the first.               *)
(*                                                                         *)
(* A game starts from an opening, a legal sequence of moves, and goes on   *)
(* for some plies.  Each move is one that select_best_move_from_           *)
(* probabilities can return: the policy may prefer any index.              *)
(***************************************************************************)
EXTENDS Grid, FiniteSets, Sequences

CONSTANTS
  Openings,  \* [game, moves, plies]: first moves, and the bound on the rest
  OmokSize   \* rows of the Omok board, 15 in production


Ttt == INSTANCE TicTacToe
Omk == INSTANCE Omok WITH BoardSize <- OmokSize
Oth == INSTANCE Othello
Chs == INSTANCE Chess
Trn == INSTANCE ChessTraining

Games == {"TicTacToe", "Omok", "Othello", "Chess"}

ASSUME BoardGamesAssumption ==
  /\ OmokSize \in Nat /\ OmokSize >= 5
  /\ \A o \in Openings : o.game \in Games

VARIABLES
  game,      \* the game that is played
  server,    \* the game server's object
  train,     \* the training code's state of the same game
  together,  \* the training code has followed every move so far
  over,      \* game_over of the last play
  winner,    \* winner of the last play
  opening,   \* bound: moves of the opening still to be played
  left       \* bound: plies still to be played after it

vars == <<game, server, train, together, over, winner, opening, left>>

-----------------------------------------------------------------------------
(* The subclasses of BoardGame.                                            *)
Initial(g) ==
  CASE g = "TicTacToe" -> Ttt!Initial [] g = "Omok" -> Omk!Initial
    [] g = "Othello" -> Oth!Initial [] g = "Chess" -> Chs!Initial

ValidMoves(g, p) ==
  CASE g = "TicTacToe" -> Ttt!ValidMoves(p) [] g = "Omok" -> Omk!ValidMoves(p)
    [] g = "Othello" -> Oth!ValidMoves(p) [] g = "Chess" -> Chs!ValidMoves(p)

Accepts(g, p, m) ==
  CASE g = "TicTacToe" -> Ttt!Accepts(p, m) [] g = "Omok" -> Omk!Accepts(p, m)
    [] g = "Othello" -> Oth!Accepts(p, m) [] g = "Chess" -> Chs!Accepts(p, m)

MakeMove(g, p, m) ==
  CASE g = "TicTacToe" -> Ttt!MakeMove(p, m) [] g = "Omok" -> Omk!MakeMove(p, m)
    [] g = "Othello" -> Oth!MakeMove(p, m) [] g = "Chess" -> Chs!MakeMove(p, m)

IsGameOver(g, p) ==
  CASE g = "TicTacToe" -> Ttt!IsGameOver(p) [] g = "Omok" -> Omk!IsGameOver(p)
    [] g = "Othello" -> Oth!IsGameOver(p) [] g = "Chess" -> Chs!IsGameOver(p)

GetWinner(g, p) ==
  CASE g = "TicTacToe" -> Ttt!GetWinner(p) [] g = "Omok" -> Omk!GetWinner(p)
    [] g = "Othello" -> Oth!GetWinner(p) [] g = "Chess" -> Chs!GetWinner(p)

NextTurn(p) == [p EXCEPT !.player = (@ + 1) % 2]

(* Chess.csv names a move by its two squares, for every queen's and        *)
(* knight's step.  It writes a promotion as a7a8=N, whose fifth character  *)
(* is not one of q, r, b, n, so _convert_move_format reads it as a7a8.     *)
(* The other files name every cell (and Othello's a pass).                 *)
IsPolicyMove(g, m) ==
  g = "Chess" =>
    /\ m[3] = 0
    /\ Straight(m[1], m[2]) \/ Diagonal(m[1], m[2]) \/ Leap(m[1], m[2])

(* BoardGame's version: an index that names a valid move if there is one,  *)
(* else the first valid move, if there is one.  When no valid chess move   *)
(* can be named they are promotions, and a knight's comes first.           *)
SelectBase(g, p) ==
  LET valid == ValidMoves(g, p)
      named == {m \in valid : IsPolicyMove(g, m)}
  IN IF named # {} THEN named ELSE {m \in valid : m[3] = 2}

(* Omok's version reads an index as a cell and does not look for a winner. *)
SelectOmok(p) == {s \in Squares(OmokSize) : At(p.board, s) = 0}

(* Othello's version passes without a valid move and never otherwise.      *)
SelectOthello(p) ==
  LET valid == Oth!ValidMoves(p)
  IN IF valid = {} THEN {Oth!Pass} ELSE valid

Select(g, p) ==
  CASE g = "Omok" -> SelectOmok(p) [] g = "Othello" -> SelectOthello(p)
    [] OTHER -> SelectBase(g, p)

-----------------------------------------------------------------------------
(* The training code's states.                                             *)
TrainInitial(g) ==
  CASE g = "TicTacToe" -> Ttt!TrainInitial [] g = "Omok" -> Omk!TrainInitial
    [] g = "Othello" -> Oth!TrainInitial [] g = "Chess" -> Trn!TrainInitial

TrainValidMoves(g, t) ==
  CASE g = "TicTacToe" -> Ttt!TrainValidMoves(t)
    [] g = "Omok" -> Omk!TrainValidMoves(t)
    [] g = "Othello" -> Oth!TrainValidMoves(t)
    [] g = "Chess" -> Trn!TrainValidMoves(t)

TrainIsGameOver(g, t) ==
  CASE g = "TicTacToe" -> Ttt!TrainIsGameOver(t)
    [] g = "Omok" -> Omk!TrainIsGameOver(t)
    [] g = "Othello" -> Oth!TrainIsGameOver(t)
    [] g = "Chess" -> Trn!TrainIsGameOver(t)

TrainGetWinner(g, t) ==
  CASE g = "TicTacToe" -> Ttt!TrainGetWinner(t)
    [] g = "Omok" -> Omk!TrainGetWinner(t)
    [] g = "Othello" -> Oth!TrainGetWinner(t)
    [] g = "Chess" -> Trn!TrainGetWinner(t)

(* A chess square in the training code's rows, a move without its          *)
(* promotion, a board in its codes.                                        *)
Across(s) == <<7 - s[1], s[2]>>
InTraining(g, m) == IF g = "Chess" THEN <<Across(m[1]), Across(m[2])>> ELSE m
BoardInTraining(g, b) ==
  IF g # "Chess" THEN b
  ELSE [r \in 0 .. 7 |-> [c \in 0 .. 7 |->
          IF b[7 - r][c] < 0 THEN 6 - b[7 - r][c] ELSE b[7 - r][c]]]

TrainFollows(g, t, m) ==
  CASE g = "Othello" /\ m = Oth!Pass -> Oth!TrainValidMoves(t) = {}
    [] g = "Chess" -> /\ m[3] \in {0, Chs!Queen}
                      /\ InTraining(g, m) \in Trn!TrainValidMoves(t)
    [] OTHER -> m \in TrainValidMoves(g, t)

TrainMakeMove(g, t, m) ==
  CASE g = "TicTacToe" -> Ttt!TrainMakeMove(t, m)
    [] g = "Omok" -> Omk!TrainMakeMove(t, m)
    [] g = "Othello" -> IF m = Oth!Pass THEN Oth!TrainPass(t)
                        ELSE Oth!TrainMakeMove(t, m)
    [] g = "Chess" -> Trn!TrainMakeMove(t, InTraining(g, m))

-----------------------------------------------------------------------------
Init ==
  \E o \in Openings :
    /\ game = o.game
    /\ server = Initial(o.game)
    /\ train = TrainInitial(o.game)
    /\ together = TRUE
    /\ over = FALSE /\ winner = {}
    /\ opening = o.moves /\ left = o.plies

(* BoardGame.play: the move, the test for the end while the mover is still *)
(* current_player, and the turn only when the game goes on.                *)
Play(m) ==
  LET success == Accepts(game, server, m)
      made == IF success THEN MakeMove(game, server, m) ELSE server
      ended == IsGameOver(game, made)
  IN /\ server' = IF success /\ ~ ended THEN NextTurn(made) ELSE made
     /\ over' = ended
     /\ winner' = IF ended THEN GetWinner(game, made) ELSE {}

Follow(m) ==
  LET follows == together /\ TrainFollows(game, train, m)
  IN /\ together' = follows
     /\ train' = IF follows THEN TrainMakeMove(game, train, m) ELSE train

Turn ==
  /\ ~ over
  /\ \E m \in Select(game, server) :
       /\ IF opening # <<>>
          THEN m = Head(opening) /\ opening' = Tail(opening) /\ left' = left
          ELSE left > 0 /\ left' = left - 1 /\ opening' = <<>>
       /\ Play(m) /\ Follow(m)
  /\ UNCHANGED game

Next == Turn

Spec == Init /\ [][Next]_vars

-----------------------------------------------------------------------------
(* Type correctness, with what each game keeps beside its board: one       *)
(* winner at most, and for chess at most one square to take in passing.    *)
TypeOK ==
  /\ game \in Games
  /\ server.player \in {0, 1} /\ train.player \in {1, -1}
  /\ winner \in {{}, {0}, {1}}
  /\ \A r \in DOMAIN server.board : \A c \in DOMAIN server.board[r] :
       server.board[r][c] \in IF game = "Chess" THEN -6 .. 6 ELSE -1 .. 1
  /\ game = "Chess" =>
       /\ server.ep = {} \/ \E s \in Squares(8) : server.ep = {s}
       /\ server.clock \in 0 .. 50
       /\ \A w \in BOOLEAN : server.rookMoved[w] \subseteq {0, 7}

Seat(player) == IF player = 0 THEN 1 ELSE -1

(* While the training code accepts the moves that are played, its board,   *)
(* its player and, for chess, its castling rights and en-passant square    *)
(* are the game server's: BoardGame.play and make_move of the game states  *)
(* change the same cells on every kind of move.                            *)
InStep ==
  together =>
    /\ train.board = BoardInTraining(game, server.board)
    /\ train.player = IF over THEN -Seat(server.player) ELSE Seat(server.player)
    /\ game = "Chess" =>
         /\ train.ep = {Across(s) : s \in server.ep}
         /\ \A w \in BOOLEAN :
              train.rights[IF w THEN 1 ELSE -1] =
                IF server.kingMoved[w] THEN {} ELSE {0, 7} \ server.rookMoved[w]

(* Chess moves on which the two implementations may differ.                *)
Castles(m) ==
  /\ game = "Chess" /\ Size(At(server.board, m[1])) = Chs!King
  /\ Size(Columns(m[1], m[2])) = 2
TakesInPassing(m) ==
  /\ game = "Chess" /\ Size(At(server.board, m[1])) = Chs!Pawn
  /\ m[2] \in server.ep
OwnRook(white) == IF white THEN Chs!Rook ELSE -Chs!Rook
RookOnCorner(m) ==
  At(server.board, <<m[1][1], IF m[2][2] = 6 THEN 7 ELSE 0>>)
    = OwnRook(server.player = 0)

(* get_valid_moves of the game server offers exactly the moves the         *)
(* training code generates, but for captures in passing; the game server   *)
(* also castles without a rook on the corner, the training code also out   *)
(* of check and across squares that pawns attack.                          *)
SameMoves ==
  (together /\ ~ over) =>
    LET offered == ValidMoves(game, server)
        known == {m \in offered : Castles(m) \/ TakesInPassing(m)}
        trained == TrainValidMoves(game, train)
        Known(m) == game = "Chess" /\ LET n == <<Across(m[1]), Across(m[2])>>
                                      IN Castles(n) \/ TakesInPassing(n)
        white == server.player = 0
    IN /\ {InTraining(game, m) : m \in offered \ known}
            = {m \in trained : ~ Known(m)}
       /\ \A m \in known :
            Castles(m) /\ RookOnCorner(m) => InTraining(game, m) \in trained
       /\ \A m \in trained :
            LET n == <<Across(m[1]), Across(m[2]), 0>>
            IN Known(m) /\ Castles(n) =>
                 \/ n \in offered
                 \/ Chs!IsInCheck(server, white)
                 \/ \E c \in 2 .. 6 :
                      Chs!IsSquareAttacked(server, <<n[1][1], c>>, ~ white)

(* The two agree on when a game is over and on who won it: what the server *)
(* remembers of the last stone, or finds by its tests, is what the         *)
(* training code finds on the board.  Chess is another matter: the server  *)
(* tests for mate before the turn has passed, and the training code takes  *)
(* every mate for a draw.                                                  *)
SameVerdict ==
  together /\ game # "Chess" =>
    LET verdict == TrainGetWinner(game, train)
    IN /\ over = TrainIsGameOver(game, train)
       /\ over => winner = {w \in {0, 1} : verdict = {Seat(w)}}

(* A game that play does not end can be continued: the next selection      *)
(* finds a move.  Not so in chess: mate and stalemate are tested for the   *)
(* player who has just moved.                                              *)
EndNoticed ==
  ~ over => \/ Select(game, server) # {}
            \/ game = "Chess" /\ ValidMoves(game, server) = {}

(* A game that play does end is over: nobody has won with moves to spare.  *)
(* Chess may also end because the mover has blocked himself.               *)
EndIsReal ==
  over =>
    LET next == NextTurn(server)
    IN \/ game \in {"TicTacToe", "Omok"} /\ (winner # {} \/ Full(server.board))
       \/ game = "Othello" /\ ValidMoves(game, server) = {}
                           /\ ValidMoves(game, next) = {}
       \/ game = "Chess" /\ \/ server.clock >= 50
                            \/ Chs!IsInsufficientMaterial(server)
                            \/ ValidMoves(game, server) = {}

(* Every move the rules allow can be asked for by some index of the        *)
(* policy, except a chess promotion, and every move that is selected is    *)
(* accepted by make_move, which repeats the tests in its own way.          *)
Selectable ==
  ~ over =>
    /\ \A m \in ValidMoves(game, server) :
         IsPolicyMove(game, m) \/ (game = "Chess" /\ m[3] # 0)
    /\ \A m \in Select(game, server) : Accepts(game, server, m)

(* A chess move does not leave the mover's king attacked, except a capture *)
(* in passing, whose test leaves the captured pawn on the board, and a     *)
(* castling that takes the other king, on the corner, for its rook.        *)
KingSafe ==
  [][game = "Chess" =>
       LET white == server.player = 0
           row == IF white THEN 0 ELSE 7
           enemy == IF white THEN -Chs!King ELSE Chs!King
       IN \/ ~ Chs!IsInCheck(server', white)
          \/ \E e \in server.ep : At(server'.board, e) = Seat(server.player)
          \/ At(server.board, <<row, 0>>) = enemy
               /\ At(server'.board, <<row, 3>>) = enemy]_vars
=============================================================================
