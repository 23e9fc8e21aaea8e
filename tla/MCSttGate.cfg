CONSTANTS
  MaxKids = 1
  Ports = {1, 2}
  ManualPorts = {1}
  Starters = {c1}
  Testers = {}
SPECIFICATION RetrySpec
PROPERTY GateOpens
CHECK_DEADLOCK FALSE
