SPECIFICATION FairSpec
CONSTANTS
  Launches = 2
  Depth <- Chains
  Requests = 1
  Rounds = 8
  None = None
INVARIANTS NothingForgotten OneLaunch ReadyIsCurrent FrozenBeforeKill
PROPERTIES QuitAnswered StartSettles
CHECK_DEADLOCK FALSE
