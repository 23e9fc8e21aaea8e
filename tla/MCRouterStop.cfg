CONSTANTS
  MaxJobs = 1
  Sizes = {2}
  Streaming = FALSE
  MaxChunks = 0
  Kinds = {"agenda"}
  Submitters = {t1}
  MaxPresses = 0
  MaxStops = 1
  InterruptEnabled = TRUE
SPECIFICATION Spec
INVARIANT StopSilencesAgenda
CHECK_DEADLOCK FALSE
