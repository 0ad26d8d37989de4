---------------------------- MODULE MCBoardGames ----------------------------
(***************************************************************************)
(* Openings for model checking.  A cell is written as its number, row by   *)
(* row; a chess move as its two cells.                                     *)
(***************************************************************************)
EXTENDS Serving

Cells(n, numbers) ==
  [i \in DOMAIN numbers |-> <<numbers[i] \div n, numbers[i] % n>>]
Pairs(numbers) ==
  [i \in DOMAIN numbers |->
     <<<<numbers[i][1] \div 8, numbers[i][1] % 8>>,
       <<numbers[i][2] \div 8, numbers[i][2] % 8>>, 0>>]

Opening(g, moves, plies) == [game |-> g, moves |-> moves, plies |-> plies]

(* A whole game of tic-tac-toe.                                            *)
WholeTicTacToe == Opening("TicTacToe", <<>>, 9)

(* Omok on 6 x 6: the first two moves, and the last seven of a game that   *)
(* either side can win, also with six in a row, or draw.                   *)
OmokStart == Opening("Omok", <<>>, 2)
OmokEnd == Opening("Omok",
  Cells(6, <<14, 24, 26, 8, 13, 27, 1, 3, 6, 11, 35, 23, 10, 20, 33, 0, 28, 30,
             29, 22, 34, 18, 7, 16, 4, 21, 12, 2, 19>>), 7)

(* Othello: the first moves, and the last five cells of a game with        *)
(* passes, ends before the board is full, and every result.                *)
OthelloStart == Opening("Othello", <<>>, 4)
OthelloEnd == Opening("Othello",
  Cells(8, <<19, 18, 26, 34, 17, 10, 33, 11, 37, 43, 50, 32, 25, 42, 41, 38, 29,
             48, 47, 49, 1, 30, 3, 24, 9, 52, 57, 59, 31, 2, 51, 12, 5, 39, 53,
             58, 40, 22, 16, 44, 15, 14, 23, 61, 4, 6, 60, 45, 21, 8, 13, 56, 7,
             20, 54>>), 10)

\* Two plies where the first has few alternatives.
Chess(moves) ==
  Opening("Chess", Pairs(moves), IF Len(moves) \in {10, 19} THEN 2 ELSE 1)

ChessOpenings == {
  Chess(<<>>),
  \* a castling towards a corner where a bishop has taken the rook
  Chess(<<<<14, 22>>, <<49, 41>>, <<5, 23>>, <<58, 49>>, <<23, 30>>, <<49, 7>>,
          <<6, 23>>, <<48, 40>>>>),
  \* a castling past a pawn, one out of check, and one on the queen's side
  Chess(<<<<6, 21>>, <<55, 39>>, <<12, 20>>, <<39, 31>>, <<5, 26>>, <<31, 23>>,
          <<8, 16>>, <<23, 14>>>>),
  Chess(<<<<14, 22>>, <<52, 44>>, <<5, 14>>, <<48, 40>>, <<6, 21>>, <<40, 32>>,
          <<11, 19>>, <<61, 25>>>>),
  Chess(<<<<11, 27>>, <<51, 35>>, <<1, 18>>, <<57, 42>>, <<2, 29>>, <<58, 37>>,
          <<3, 11>>, <<59, 51>>>>),
  \* one towards a corner where the other king has taken the rook
  Chess(<<<<9, 25>>, <<52, 36>>, <<2, 9>>, <<61, 25>>, <<9, 36>>, <<53, 45>>,
          <<1, 18>>, <<45, 36>>, <<18, 35>>, <<50, 42>>, <<35, 25>>, <<48, 32>>,
          <<12, 20>>, <<32, 25>>, <<3, 30>>, <<62, 45>>, <<30, 37>>, <<51, 43>>,
          <<15, 23>>, <<58, 37>>, <<6, 21>>, <<60, 51>>, <<21, 6>>, <<51, 50>>,
          <<6, 21>>, <<50, 41>>, <<21, 6>>, <<41, 32>>, <<6, 21>>, <<32, 24>>,
          <<21, 6>>, <<24, 16>>, <<6, 21>>, <<16, 9>>, <<21, 6>>, <<9, 0>>>>),
  \* captures in passing: free, of a pawn that shields the king, of one
  \* that gives check
  Chess(<<<<12, 28>>, <<48, 40>>, <<28, 36>>, <<51, 35>>>>),
  Chess(<<<<11, 27>>, <<55, 39>>, <<4, 11>>, <<39, 31>>, <<11, 18>>, <<63, 39>>,
          <<27, 35>>, <<53, 45>>, <<18, 25>>, <<54, 46>>, <<25, 33>>,
          <<50, 34>>>>),
  Chess(<<<<13, 29>>, <<48, 40>>, <<29, 37>>, <<40, 32>>, <<4, 13>>, <<32, 24>>,
          <<13, 20>>, <<24, 16>>, <<20, 27>>, <<52, 36>>>>),
  \* a pinned knight
  Chess(<<<<1, 18>>, <<52, 44>>, <<11, 19>>, <<61, 25>>>>),
  \* a promotion, a mate, a mover who blocks himself, the fiftieth half-move
  Chess(<<<<15, 31>>, <<54, 38>>, <<31, 38>>, <<55, 47>>, <<38, 47>>, <<61, 54>>,
          <<47, 54>>, <<48, 40>>>>),
  Chess(<<<<13, 21>>, <<52, 36>>, <<14, 30>>>>),
  Chess(<<<<12, 20>>, <<48, 32>>, <<3, 39>>, <<56, 40>>, <<39, 32>>, <<55, 39>>,
          <<15, 31>>, <<40, 47>>, <<32, 50>>, <<53, 45>>, <<50, 51>>, <<60, 53>>,
          <<51, 49>>, <<59, 19>>, <<49, 57>>, <<19, 46>>, <<57, 58>>, <<46, 55>>,
          <<58, 44>>>>),
  Chess([i \in 1 .. 49 |->
           <<<<6, 21>>, <<62, 45>>, <<21, 6>>, <<45, 62>>>>[1 + ((i - 1) % 4)]])}

MCOpenings ==
  {WholeTicTacToe, OmokStart, OmokEnd, OthelloStart, OthelloEnd}
    \cup ChessOpenings
=============================================================================
