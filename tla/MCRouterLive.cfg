CONSTANTS
  MaxJobs = 2
  Sizes = {}
  Streaming = TRUE
  MaxChunks = 1
  Kinds = {"owner", "agenda", "notice"}
  Submitters = {t1}
  MaxPresses = 1
  MaxStops = 0
  InterruptEnabled = TRUE
SPECIFICATION FairSpec
PROPERTIES JobsTerminate PairsClose
CHECK_DEADLOCK FALSE
