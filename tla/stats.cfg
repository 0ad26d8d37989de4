SPECIFICATION FairSpec
CONSTANTS
  Games <- MCGames
  Plays <- MCPlays
  Ais = {"a", "b"}
  MaxFaults = 3
INVARIANTS TypeOK CountedOnce
PROPERTIES Settles
CHECK_DEADLOCK FALSE
