CONSTANTS
  MaxTurns = 3
  MaxItems = 1
  AccumMax = 1
  BundleMax = 3
  StreamOverAgenda = TRUE
  Scenes <- MCScenes
  QueueMax = 2
  CacheCap = 1
  Clients = {1, 2}
SPECIFICATION FairSpec
INVARIANTS TypeOK EveryTurnOneHome DrainsKeepOrder NoDoubleFire
PROPERTIES NothingStrands LedgerSpec
CHECK_DEADLOCK FALSE
