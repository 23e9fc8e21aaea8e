CONSTANTS
  N = 5
  QueueMax = 3
SPECIFICATION FairSpec
INVARIANTS TypeOK ResumeLosesNothing NoFileForgotten
PROPERTIES AlwaysReturns SliceSpec
CHECK_DEADLOCK FALSE
