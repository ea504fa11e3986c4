CONSTANTS
  Host = {1, 2}
  Switch = {4, 5, 6, 7}
  Wire <- MCWire
  Qp <- MCQp
  PktId = {1, 2}
  Fails = 3
SPECIFICATION FairSpec
INVARIANTS
  RoutesAreShortest
  LiveQpServed
  AbortOnlyWhenCut
PROPERTIES
  NoPacketCirculates
CHECK_DEADLOCK FALSE
