CONSTANTS
  MaxJobs = 2
  Sizes = {2}
  Streaming = FALSE
  MaxChunks = 0
  Kinds = {"owner"}
  Submitters = {t1}
  MaxPresses = 1
  MaxStops = 0
  InterruptEnabled = TRUE
SPECIFICATION Spec
PROPERTY SweepSparesOwnJob
CHECK_DEADLOCK FALSE
