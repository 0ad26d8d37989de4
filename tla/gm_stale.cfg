SPECIFICATION Spec
CONSTANTS
  g1 = g1  g2 = g2  m1 = m1  m2 = m2  s1 = s1  s2 = s2
  Games = {g1}
  Models = {m1, m2}
  Servers = {s1, s2}
  UrlSets <- AllUrls
  Verdicts = {"open", "over"}
  MaxTurns = 3
  MaxFailures = 0
INVARIANTS AppliedOnce
CHECK_DEADLOCK FALSE
