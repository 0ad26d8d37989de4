--------------------------- MODULE MCGameManager ---------------------------
(* Small instances of GameManager for TLC.                                 *)
EXTENDS GameManager, TLC

CONSTANTS g1, g2, m1, m2, s1, s2

AllUrls == {Seat}
SomeUrls == {Seat, {}}

Interchangeable == Permutations(Models) \cup Permutations(Servers)
=============================================================================
