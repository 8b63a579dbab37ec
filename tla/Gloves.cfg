SPECIFICATION FairSpec
CONSTANTS
  Handles = {h1, h2}
  Looks = {k1, k2}
  Wears = {w1, w2}
  None = None
  FirstConf <- OneTeam
  Late = 3
  Bound <- Few
INVARIANTS TypeOK ShownIsConfigured OwnIsRemembered
PROPERTIES LosesNoneOfItsOwn GlovesAreShown
CHECK_DEADLOCK FALSE
