SPECIFICATION FairSpec
CONSTANTS
  Keys <- TheMenuKey
  MaxCalls = 1
INVARIANTS
  TypeOK
  ReleaseReachesTheGame
  OpenMenuLooksAtPlayer
PROPERTIES
  InputFollowsTheMenu
  OpenMenuIsDrawn
  MatchIsAccepted
CHECK_DEADLOCK FALSE
