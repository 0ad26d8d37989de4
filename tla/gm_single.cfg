SPECIFICATION FairSpec
CONSTANTS
  g1 = g1  g2 = g2  m1 = m1  m2 = m2  s1 = s1  s2 = s2
  Games = {g1, g2}
  Models = {m1, m2}
  Servers = {s1}
  UrlSets <- AllUrls
  Verdicts = {"open", "late", "over"}
  MaxTurns = 2
  MaxFailures = 0
INVARIANTS TypeOK AppliedOnce SeatsKeepTheirModels FinishedForGood
PROPERTIES GameEnds PlaysMatches
CHECK_DEADLOCK FALSE
