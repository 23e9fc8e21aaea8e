CONSTANTS
  MaxPresses = 2
  MaxWords = 0
  MinWords = 2
SPECIFICATION Spec
INVARIANT OneLiveSession
CHECK_DEADLOCK FALSE
