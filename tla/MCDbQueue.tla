----------------------------- MODULE MCDbQueue -----------------------------
(* A small instance of DbQueue for TLC.                                    *)
EXTENDS DbQueue

InfoWinnerStats ==
  {[kind |-> k, game |-> "g"] : k \in {"info", "winner", "stats"}}
=============================================================================
