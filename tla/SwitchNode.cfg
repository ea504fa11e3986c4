\* Two input devices, two lossless priorities, one output device; its link may
\* fail, and then nothing more arrives.
CONSTANTS
  in1 = in1
  in2 = in2
  out = out
  Port = {in1, in2, out}
  Queue = {1, 2}
  PktId = {1, 2}
  Size = {2}
  qCnt = 3
  buffer_size = 10
  reserve = 1
  resume_offset = 1
  headroom <- MCHeadroom
  pfc_a_shift <- MCShift
  Flow <- MCIncast
  Fragile = {out}
  HighPrioBytes = 2
  PfcBound = 0
SPECIFICATION Spec
SYMMETRY MCSymmetry
INVARIANTS
  TypeOK
  NoLostWakeup
  BytesMatchQueues
  PfcAlternates
PROPERTIES
  BufferSpec
  RoundRobin
CHECK_DEADLOCK FALSE
