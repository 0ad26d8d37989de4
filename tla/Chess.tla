-------------------------------- MODULE Chess --------------------------------
(***************************************************************************)
(* Chess on the game server (Game/BoardGame/Chess.py).  Row 0 is White's   *)
(* home row; 1 to 6 are White's pawn, knight, bishop, rook, queen and      *)
(* king, -1 to -6 Black's.  A move is <<from, to, promotion>>, with        *)
(* promotion 0 for none.  fullmove_number is only reported and left out.   *)
(***************************************************************************)
EXTENDS Grid, FiniteSets

Pawn == 1
Knight == 2
Bishop == 3
Rook == 4
Queen == 5
King == 6

Home == <<4, 2, 3, 5, 6, 3, 2, 4>>

Initial ==
  [board |-> [r \in 0 .. 7 |-> [c \in 0 .. 7 |->
                CASE r = 0 -> Home[c + 1] [] r = 1 -> Pawn
                  [] r = 6 -> -Pawn [] r = 7 -> -Home[c + 1] [] OTHER -> 0]],
   player |-> 0,
   kingMoved |-> [w \in BOOLEAN |-> FALSE],
   rookMoved |-> [w \in BOOLEAN |-> {}],   \* files of the rooks that moved
   ep |-> {},                              \* en_passant_target
   clock |-> 0]                            \* halfmove_clock

IsWhite(piece) == piece > 0
IsEnemy(piece, white) == IF white THEN piece < 0 ELSE piece > 0
Forward(white) == IF white THEN 1 ELSE -1

-----------------------------------------------------------------------------
PawnReaches(p, s, t, white) ==
  \/ t = <<s[1] + Forward(white), s[2]>> /\ At(p.board, t) = 0
  \/ /\ s[1] = IF white THEN 1 ELSE 6
     /\ t = <<s[1] + 2 * Forward(white), s[2]>>
     /\ At(p.board, t) = 0
     /\ At(p.board, <<s[1] + Forward(white), s[2]>>) = 0
  \/ /\ Rows(s, t) = Forward(white) /\ Size(Columns(s, t)) = 1
     /\ IsEnemy(At(p.board, t), white) \/ t \in p.ep

(* _get_piece_moves_without_castling, as a relation between two squares.   *)
Reaches(p, s, t) ==
  LET piece == At(p.board, s)
      kind == Size(piece)
      white == IsWhite(piece)
  IN IF kind = Pawn THEN PawnReaches(p, s, t, white)
     ELSE /\ \/ kind = Knight /\ Leap(s, t)
             \/ kind = King /\ Step(s, t)
             \/ kind \in {Bishop, Queen} /\ Diagonal(s, t) /\ Clear(p.board, s, t)
             \/ kind \in {Rook, Queen} /\ Straight(s, t) /\ Clear(p.board, s, t)
          /\ At(p.board, t) = 0 \/ IsEnemy(At(p.board, t), white)

PawnAttacksSquare(s, white, t) ==
  Rows(s, t) = Forward(white) /\ Size(Columns(s, t)) = 1

IsSquareAttacked(p, t, byWhite) ==
  \E s \in Squares(8) :
    /\ At(p.board, s) # 0
    /\ IsWhite(At(p.board, s)) = byWhite
    /\ IF Size(At(p.board, s)) = Pawn
       THEN PawnAttacksSquare(s, byWhite, t)
       ELSE Reaches(p, s, t)

IsInCheck(p, white) ==
  \E k \in Squares(8) :
    /\ At(p.board, k) = IF white THEN King ELSE -King
    /\ IsSquareAttacked(p, k, ~white)

(* The flags record moves: a rook that was captured on its corner still    *)
(* counts as not moved, whatever stands there now.                         *)
CastlingMoves(p, white) ==
  LET row == IF white THEN 0 ELSE 7
      Safe(c) == ~ IsSquareAttacked(p, <<row, c>>, ~white)
      Empty(c) == p.board[row][c] = 0
  IN IF p.kingMoved[white] \/ IsInCheck(p, white) THEN {}
     ELSE {t \in {<<row, 2>>, <<row, 6>>} :
             IF t[2] = 6
             THEN /\ 7 \notin p.rookMoved[white]
                  /\ \A c \in {5, 6} : Empty(c) /\ Safe(c)
             ELSE /\ 0 \notin p.rookMoved[white]
                  /\ \A c \in {1, 2, 3} : Empty(c)
                  /\ \A c \in {2, 3} : Safe(c)}

PieceMoves(p, s) ==
  {t \in Squares(8) : Reaches(p, s, t)}
    \cup IF Size(At(p.board, s)) = King
         THEN CastlingMoves(p, IsWhite(At(p.board, s))) ELSE {}

(* Mutants: the test looks at the other king; the piece also stays behind. *)
Bug_OtherKing(p, s, t, white) ==
  LET b == Put(Put(p.board, t, At(p.board, s)), s, 0)
  IN IsInCheck([p EXCEPT !.board = b], ~ white)
Bug_StaysBehind(p, s, t, white) ==
  IsInCheck([p EXCEPT !.board = Put(@, t, At(@, s))], white)

(* The test moves one piece: it takes no pawn off in passing and moves no  *)
(* rook.                                                                   *)
WouldBeInCheckAfterMove(p, s, t, white) ==
  LET b == Put(Put(p.board, t, At(p.board, s)), s, 0)
  IN IsInCheck([p EXCEPT !.board = b], white)

Promotions(p, s, t) ==
  IF Size(At(p.board, s)) = Pawn /\ t[1] \in {0, 7} THEN 2 .. 5 ELSE {0}

ValidMoves(p) ==
  LET white == p.player = 0
      own == {s \in Squares(8) : At(p.board, s) # 0
                                   /\ IsWhite(At(p.board, s)) = white}
  IN UNION {UNION {{<<s, t, q>> : q \in Promotions(p, s, t)} :
                     t \in {u \in PieceMoves(p, s) :
                              ~ WouldBeInCheckAfterMove(p, s, u, white)}} :
              s \in own}

Accepts(p, m) == m \in ValidMoves(p)

-----------------------------------------------------------------------------
(* The board after a move: pawn taken in passing, rook of a castling, the  *)
(* piece itself, promotion.                                                *)
Moved(p, m) ==
  LET s == m[1]
      t == m[2]
      piece == At(p.board, s)
      white == p.player = 0
      passed == {<<t[1] - Forward(white), t[2]>> : e \in
                   {x \in p.ep : Size(piece) = Pawn /\ x = t}}
      castles == Size(piece) = King /\ Size(Columns(s, t)) = 2
      corner == <<s[1], IF t[2] = 6 THEN 7 ELSE 0>>
      beside == <<s[1], IF t[2] = 6 THEN 5 ELSE 3>>
      placed == IF m[3] # 0 /\ Size(piece) = Pawn /\ t[1] \in {0, 7}
                THEN m[3] * Forward(white) ELSE piece
  IN [r \in 0 .. 7 |-> [c \in 0 .. 7 |->
        CASE <<r, c>> = t -> placed
          [] <<r, c>> = s -> 0
          [] <<r, c>> \in passed -> 0
          [] castles /\ <<r, c>> = corner -> 0
          [] castles /\ <<r, c>> = beside -> At(p.board, corner)
          [] OTHER -> p.board[r][c]]]

Captures(p, m) ==
  \/ At(p.board, m[2]) # 0
  \/ Size(At(p.board, m[1])) = Pawn /\ m[2] \in p.ep

(* _update_game_state.                                                     *)
MakeMove(p, m) ==
  LET piece == At(p.board, m[1])
      white == IsWhite(piece)
      from == m[1]
      to == m[2]
  IN [p EXCEPT
        !.board = Moved(p, m),
        !.kingMoved[white] = @ \/ Size(piece) = King,
        !.rookMoved[white] =
           IF Size(piece) = Rook THEN @ \cup ({from[2]} \cap {0, 7}) ELSE @,
        !.ep = IF Size(piece) = Pawn /\ Size(Rows(from, to)) = 2
               THEN {<<(from[1] + to[1]) \div 2, from[2]>>} ELSE {},
        !.clock = IF Size(piece) = Pawn \/ Captures(p, m) THEN 0 ELSE @ + 1]

-----------------------------------------------------------------------------
IsCheckmate(p) == IsInCheck(p, p.player = 0) /\ ValidMoves(p) = {}
IsStalemate(p) == ~ IsInCheck(p, p.player = 0) /\ ValidMoves(p) = {}

IsInsufficientMaterial(p) ==
  LET standing == {s \in Squares(8) : At(p.board, s) # 0}
      others == {s \in standing : Size(At(p.board, s)) # King}
  IN /\ Cardinality(standing \ others) = 2
     /\ \/ others = {}
        \/ Cardinality(others) = 1
             /\ \A s \in others : Size(At(p.board, s)) \in {Knight, Bishop}
        \/ /\ Cardinality(others) = 2
           /\ \A s \in others : Size(At(p.board, s)) = Bishop
           /\ Cardinality({(s[1] + s[2]) % 2 : s \in others}) = 1

IsGameOver(p) ==
  \/ IsCheckmate(p) \/ IsStalemate(p)
  \/ IsInsufficientMaterial(p)
  \/ p.clock >= 50

GetWinner(p) == IF IsGameOver(p) /\ IsCheckmate(p) THEN {1 - p.player} ELSE {}
=============================================================================
