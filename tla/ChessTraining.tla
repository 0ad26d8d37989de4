---------------------------- MODULE ChessTraining ----------------------------
(***************************************************************************)
(* Chess in the training code (model/Chess/game_state.py).  Row 0 is       *)
(* Black's home row; 1 to 6 are White's pieces, 7 to 12 Black's, players   *)
(* are 1 and -1.  A move is <<from, to>>: a pawn always becomes a queen.   *)
(***************************************************************************)
EXTENDS Grid, Sequences, FiniteSets

PawnCode == {1, 7}
KnightCode == {2, 8}
BishopCode == {3, 9}
RookCode == {4, 10}
QueenCode == {5, 11}
KingCode == {6, 12}

HomeRow == <<4, 2, 3, 5, 6, 3, 2, 4>>

Kingside == 7    \* a castling right is the file of its rook
Queenside == 0

TrainInitial ==
  [board |-> [r \in 0 .. 7 |-> [c \in 0 .. 7 |->
                CASE r = 0 -> HomeRow[c + 1] + 6 [] r = 1 -> 7
                  [] r = 6 -> 1 [] r = 7 -> HomeRow[c + 1] [] OTHER -> 0]],
   player |-> 1,
   rights |-> [w \in {1, -1} |-> {Kingside, Queenside}],
   ep |-> {},
   history |-> <<>>]

GetPieceColor(piece) == IF piece = 0 THEN 0 ELSE IF piece <= 6 THEN 1 ELSE -1
Onward(colour) == IF colour = 1 THEN -1 ELSE 1
KingOf(colour) == IF colour = 1 THEN 6 ELSE 12

(* Every list leaves out the cells of current_player, whosoever's piece it *)
(* is that moves.                                                          *)
Open(b, t, me) == At(b, t) = 0 \/ GetPieceColor(At(b, t)) # me

PawnPushes(b, s, t) ==
  LET colour == GetPieceColor(At(b, s))
      next == <<s[1] + Onward(colour), s[2]>>
  IN \/ t = next /\ At(b, t) = 0
     \/ /\ s[1] = IF colour = 1 THEN 6 ELSE 1
        /\ t = <<s[1] + 2 * Onward(colour), s[2]>>
        /\ At(b, next) = 0 /\ At(b, t) = 0

PawnTakes(b, s, t, me) ==
  /\ Rows(s, t) = Onward(GetPieceColor(At(b, s))) /\ Size(Columns(s, t)) = 1
  /\ At(b, t) # 0 /\ GetPieceColor(At(b, t)) # me

(* _get_pawn_moves also takes in passing.                                  *)
PawnMoves(t, s, u) ==
  \/ PawnPushes(t.board, s, u)
  \/ PawnTakes(t.board, s, u, t.player)
  \/ /\ u \in t.ep
     /\ Rows(s, u) = Onward(GetPieceColor(At(t.board, s)))
     /\ Size(Columns(s, u)) = 1

OfficerMoves(b, s, t, me) ==
  LET piece == At(b, s)
  IN /\ \/ piece \in KnightCode /\ Leap(s, t)
        \/ piece \in KingCode /\ Step(s, t)
        \/ piece \in BishopCode \cup QueenCode /\ Diagonal(s, t) /\ Clear(b, s, t)
        \/ piece \in RookCode \cup QueenCode /\ Straight(s, t) /\ Clear(b, s, t)
     /\ Open(b, t, me)

(* _get_piece_moves_for_board: what counts as an attack; a pawn's pushes   *)
(* do, a pawn's diagonals only where there is something to take.           *)
PieceMovesForBoard(b, s, t, me) ==
  IF At(b, s) \in PawnCode
  THEN PawnPushes(b, s, t) \/ PawnTakes(b, s, t, me)
  ELSE OfficerMoves(b, s, t, me)

(* The attacks of player's opponent.                                       *)
IsSquareUnderAttack(t, u, player) ==
  \E s \in Squares(8) :
    /\ GetPieceColor(At(t.board, s)) = -player
    /\ PieceMovesForBoard(t.board, s, u, t.player)

IsInCheck(t, player) ==
  \E k \in Squares(8) :
    /\ At(t.board, k) = KingOf(player)
    /\ \E s \in Squares(8) :
         /\ GetPieceColor(At(t.board, s)) = -player
         /\ PieceMovesForBoard(t.board, s, k, t.player)

CanCastleKingside(t, colour) ==
  LET row == IF colour = 1 THEN 7 ELSE 0
  IN /\ t.board[row][4] = KingOf(colour)
     /\ t.board[row][7] = KingOf(colour) - 2
     /\ \A c \in 5 .. 6 : t.board[row][c] = 0
     /\ ~ IsInCheck(t, colour)
     /\ \A c \in 4 .. 6 : ~ IsSquareUnderAttack(t, <<row, c>>, colour)

CanCastleQueenside(t, colour) ==
  LET row == IF colour = 1 THEN 7 ELSE 0
  IN /\ t.board[row][4] = KingOf(colour)
     /\ t.board[row][0] = KingOf(colour) - 2
     /\ \A c \in 1 .. 3 : t.board[row][c] = 0
     /\ ~ IsInCheck(t, colour)
     /\ \A c \in 2 .. 4 : ~ IsSquareUnderAttack(t, <<row, c>>, colour)

CastlingMoves(t, s) ==
  LET colour == GetPieceColor(At(t.board, s))
  IN {<<s[1], s[2] + 2>> : x \in {y \in {Kingside} :
        y \in t.rights[colour] /\ CanCastleKingside(t, colour)}}
       \cup {<<s[1], s[2] - 2>> : x \in {y \in {Queenside} :
        y \in t.rights[colour] /\ CanCastleQueenside(t, colour)}}

PieceMoves(t, s) ==
  LET piece == At(t.board, s)
  IN {u \in Squares(8) : IF piece \in PawnCode THEN PawnMoves(t, s, u)
                         ELSE OfficerMoves(t.board, s, u, t.player)}
       \cup IF piece \in KingCode THEN CastlingMoves(t, s) ELSE {}

-----------------------------------------------------------------------------
Moved(t, s, u) ==
  LET piece == At(t.board, s)
      castles == piece \in KingCode /\ Size(Columns(s, u)) = 2
      corner == <<s[1], IF u[2] > s[2] THEN 7 ELSE 0>>
      beside == <<s[1], IF u[2] > s[2] THEN 5 ELSE 3>>
      passed == {<<s[1], u[2]>> : e \in
                   {x \in t.ep : piece \in PawnCode /\ x = u}}
      placed == CASE piece = 1 /\ u[1] = 0 -> 5
                  [] piece = 7 /\ u[1] = 7 -> 11
                  [] OTHER -> piece
  IN [r \in 0 .. 7 |-> [c \in 0 .. 7 |->
        CASE <<r, c>> \in passed -> 0
          [] <<r, c>> = s -> 0
          [] <<r, c>> = u -> placed
          [] castles /\ <<r, c>> = corner -> 0
          [] castles /\ <<r, c>> = beside -> At(t.board, corner)
          [] OTHER -> t.board[r][c]]]

(* The new state has the other player to move; it is also what a move is   *)
(* tried out on.                                                           *)
TrainMakeMove(t, m) ==
  LET s == m[1]
      u == m[2]
      piece == At(t.board, s)
      colour == GetPieceColor(piece)
      lost == CASE piece \in KingCode -> {Kingside, Queenside}
                [] piece \in RookCode -> {s[2]}
                [] OTHER -> {}
  IN [board |-> Moved(t, s, u),
      player |-> -t.player,
      rights |-> [t.rights EXCEPT ![colour] = @ \ lost],
      ep |-> IF piece \in PawnCode /\ Size(Rows(s, u)) = 2
             THEN {<<(s[1] + u[1]) \div 2, s[2]>>} ELSE {},
      history |-> Append(t.history, m)]

IsValidMove(t, s, u) ==
  ~ IsInCheck(TrainMakeMove(t, <<s, u>>), t.player)

TrainValidMoves(t) ==
  UNION {{<<s, u>> : u \in {x \in PieceMoves(t, s) : IsValidMove(t, s, x)}} :
           s \in {q \in Squares(8) : GetPieceColor(At(t.board, q)) = t.player}}

(* "Three-fold repetition": at most two different moves among the last six.*)
Repeats(h) == Len(h) >= 6 /\ Cardinality({h[i] : i \in Len(h) - 5 .. Len(h)}) <= 2

TrainIsGameOver(t) ==
  TrainValidMoves(t) = {} \/ Len(t.history) >= 100 \/ Repeats(t.history)

TrainGetWinner(t) ==
  IF ~ TrainIsGameOver(t) THEN {}
  ELSE IF TrainValidMoves(t) = {} /\ IsInCheck(t, t.player)
       THEN {-t.player} ELSE {0}
=============================================================================
