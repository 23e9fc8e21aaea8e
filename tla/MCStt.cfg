CONSTANTS
  MaxKids = 2
  Ports = {1}
  ManualPorts = {1}
  Starters = {c1}
  Testers = {c2}
SPECIFICATION Spec
INVARIANTS TypeOK OneChild ExitIsOfChild
CHECK_DEADLOCK FALSE
