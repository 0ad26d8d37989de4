---------------------------- MODULE MCStatistics ----------------------------
(* A small instance of Statistics for TLC: two models play each other twice. *)
EXTENDS Statistics

MCGames == {"g1", "g2"}
MCPlays == [g \in MCGames |-> <<"a", "b">>]
=============================================================================
