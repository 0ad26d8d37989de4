SPECIFICATION Spec
CONSTANTS
  g1 = g1  g2 = g2  m1 = m1  m2 = m2  s1 = s1  s2 = s2
  Games = {g1}
  Models = {m1, m2}
  Servers = {s1, s2}
  UrlSets <- SomeUrls
  Verdicts = {"open", "late", "over"}
  MaxTurns = 2
  MaxFailures = 1
INVARIANTS NotStranded
PROPERTIES AnnouncedBeforeDrop
SYMMETRY Interchangeable
CHECK_DEADLOCK FALSE
