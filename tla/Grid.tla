-------------------------------- MODULE Grid --------------------------------
(***************************************************************************)
(* Square boards.  A board is a function from rows to functions from       *)
(* columns to the integer that stands on the cell; 0 is an empty cell.     *)
(***************************************************************************)
EXTENDS Integers

Squares(n) == (0 .. n - 1) \X (0 .. n - 1)
Blank(n) == [r \in 0 .. n - 1 |-> [c \in 0 .. n - 1 |-> 0]]

At(b, s) == b[s[1]][s[2]]
Put(b, s, v) == [b EXCEPT ![s[1]][s[2]] = v]
Full(b) == \A r \in DOMAIN b : \A c \in DOMAIN b[r] : b[r][c] # 0

(* The cell k steps from s in the direction d.                             *)
Go(s, d, k) == <<s[1] + k * d[1], s[2] + k * d[2]>>
On(b, s) == s[1] \in DOMAIN b /\ s[2] \in DOMAIN b

Around == ((-1 .. 1) \X (-1 .. 1)) \ {<<0, 0>>}
Lines == {<<0, 1>>, <<1, 0>>, <<1, 1>>, <<1, -1>>}

Size(x) == IF x < 0 THEN -x ELSE x
Sign(x) == IF x < 0 THEN -1 ELSE IF x = 0 THEN 0 ELSE 1

-----------------------------------------------------------------------------
(* Two squares as a piece sees them.                                       *)
Rows(s, t) == t[1] - s[1]
Columns(s, t) == t[2] - s[2]
Straight(s, t) == (Rows(s, t) = 0) # (Columns(s, t) = 0)
Diagonal(s, t) == Size(Rows(s, t)) = Size(Columns(s, t)) /\ s # t
Leap(s, t) == Rows(s, t) * Rows(s, t) + Columns(s, t) * Columns(s, t) = 5
Step(s, t) == s # t /\ Size(Rows(s, t)) <= 1 /\ Size(Columns(s, t)) <= 1

(* Only empty cells between two squares of one line.                       *)
Clear(b, s, t) ==
  LET d == <<Sign(Rows(s, t)), Sign(Columns(s, t))>>
      far == IF Rows(s, t) = 0 THEN Size(Columns(s, t)) ELSE Size(Rows(s, t))
  IN \A k \in 1 .. far - 1 : At(b, Go(s, d, k)) = 0
=============================================================================
