CONSTANTS
  N = 3
  QueueMax = 3
SPECIFICATION Spec
INVARIANT LedgerIsExact
CHECK_DEADLOCK FALSE
