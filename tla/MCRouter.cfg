CONSTANTS
  MaxJobs = 3
  Sizes = {2}
  Streaming = FALSE
  MaxChunks = 0
  Kinds = {"owner", "agenda"}
  Submitters = {t1}
  MaxPresses = 1
  MaxStops = 1
  InterruptEnabled = TRUE
SPECIFICATION Spec
INVARIANTS TypeOK BoundaryBalanced OneHome HoldSilences InterruptedOnlyByBareCut
  PairAccounted OutermostOnly
PROPERTIES TerminalIsFinal EventsSpec
CONSTRAINT Scene
CHECK_DEADLOCK FALSE
