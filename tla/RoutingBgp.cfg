CONSTANTS
  Host = {1, 2}
  Switch = {4, 5, 6, 7}
  Wire <- MCWire
  Qp <- MCQp
  PktId = {1}
  Fails = 0
SPECIFICATION SpecBgp
INVARIANTS StaticUntilConverged
CHECK_DEADLOCK FALSE
