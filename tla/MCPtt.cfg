CONSTANTS
  MaxPresses = 2
  MaxWords = 2
  MinWords = 2
SPECIFICATION FairSpec
INVARIANTS TypeOK LiveMicIsHeld AtMostOneTurn DictationAccounted
PROPERTIES HoldEnds SlotIsFreed
CHECK_DEADLOCK FALSE
