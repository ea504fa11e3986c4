\* One lossless priority, two ports with different thresholds.
CONSTANTS
  Port = {1, 2}
  Queue = {3}
  PktId = {a, b, c, d, e, f}
  Size = {1, 2}
  buffer_size = 11
  reserve = 2
  resume_offset = 1
  headroom <- MCHeadroom
  pfc_a_shift <- MCShift
SPECIFICATION Spec
SYMMETRY MCSymmetry
INVARIANTS
  TypeOK
  IngressIsBuffered
  EgressIsBuffered
  SharedIsExact
  HeadroomRespected
  HeadroomOnlyWhenPaused
  PausedHoldsPackets
  FitsBuffer
