------------------------------- MODULE Serving -------------------------------
(***************************************************************************)
(* What a network is asked: the board state the game server sends, the     *)
(* array the AI server makes of it, the encoding of the JIT wrapper        *)
(* (model/*/convert_to_jit*.py), and next to it the encoding of the        *)
(* training code.                                                          *)
(***************************************************************************)
EXTENDS BoardGames

Side == CASE game = "TicTacToe" -> 3 [] game = "Omok" -> OmokSize [] OTHER -> 8

FlatBoard(b) ==
  [i \in 1 .. Side * Side |-> b[(i - 1) \div Side][(i - 1) % Side]]
Flag(x) == IF x THEN 1 ELSE 0

(* proceed_turn: Omok's board state already starts with the player.        *)
BoardState(p) ==
  CASE game = "Omok" -> <<Seat(p.player)>> \o FlatBoard(p.board)
    [] game = "Chess" ->
         FlatBoard(p.board)
           \o [i \in 1 .. 4 |->
                 LET white == i <= 2
                     file == IF i % 2 = 1 THEN 7 ELSE 0
                 IN Flag(~ p.kingMoved[white] /\ file \notin p.rookMoved[white])]
           \o <<IF p.ep = {} THEN -1
                ELSE LET s == CHOOSE s \in p.ep : TRUE IN s[1] * 8 + s[2]>>
    [] OTHER -> FlatBoard(p.board)

(* InferenceRequest carries current_turn, the seat; preprocess_input puts  *)
(* it before the board state.                                              *)
InputArray(p) == <<p.player>> \o BoardState(p)

-----------------------------------------------------------------------------
(* The wrappers of TicTacToe, Omok and Othello: planes of own stones, of   *)
(* the opponent's, and of the first player's turn.                         *)
Planes(cell, turn) ==
  [own |-> {s \in Squares(Side) : cell[s] = turn},
   other |-> {s \in Squares(Side) : cell[s] = -turn},
   first |-> turn = 1]

ForwardStones(a) ==
  Planes([s \in Squares(Side) |-> a[2 + s[1] * Side + s[2]]], a[1])

(* The chess wrapper: pieces, turn, rights, and the square in passing.     *)
ForwardChess(a) ==
  [pieces |-> [s \in Squares(8) |->
                 LET v == a[2 + s[1] * 8 + s[2]] IN IF v < 0 THEN 6 - v ELSE v],
   white |-> a[1] = 1,
   rights |-> [i \in 1 .. 4 |-> a[65 + i] = 1],
   ep |-> {s \in Squares(8) : s[1] * 8 + s[2] = a[70]}]

EncodedStones(t) == Planes([s \in Squares(Side) |-> At(t.board, s)], t.player)

EncodedChess(t) ==
  [pieces |-> [s \in Squares(8) |-> At(t.board, s)],
   white |-> t.player = 1,
   rights |-> <<7 \in t.rights[1], 0 \in t.rights[1],
                7 \in t.rights[-1], 0 \in t.rights[-1]>>,
   ep |-> t.ep]

(* The input of the game to be continued is the one training would give.   *)
InputAsTrained ==
  together /\ ~ over =>
    IF game = "Chess"
    THEN ForwardChess(InputArray(server)) = EncodedChess(train)
    ELSE ForwardStones(InputArray(server)) = EncodedStones(train)
=============================================================================
