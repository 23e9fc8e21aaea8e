CONSTANTS
  Topics = 2
  TurnMax = 2
  CloseGiveUp = 2
  PauseAt = 3
  RetryMax = 1
  DetourMax = 1
  Texts <- MCTexts
  Scenes <- MCScenes
SPECIFICATION FairSpec
INVARIANTS TypeOK DraftsAreFresh OneLiveGeneration SlotHasWorker ConnectorFits OnlyStragglerIsHeard
PROPERTIES StrandedOnlyByStop SessionEnds ReturnResolves
CHECK_DEADLOCK FALSE
