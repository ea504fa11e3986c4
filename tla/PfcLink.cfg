\* Two flows in opposite directions; a PCIe pause at each host; ACKs with and
\* without the highest priority.
CONSTANTS
  h1 = h1
  h2 = h2
  Port = {h1, h2}
  Queue = {1}
  PktId = {1, 2, 3, 4, 5, 6, 7, 8}
  Size = {1, 2}
  qCnt = 2
  buffer_size = 11
  reserve = 1
  resume_offset = 1
  headroom <- MCHeadroom
  pfc_a_shift <- MCShift
  Flow <- MCDuplex
  Fragile = {}
  HighPrioBytes = 8
  PfcBound = 8
  AckSize = 1
  DataSize = 2
  FlowPackets <- MCPackets
  AckInterval = 2
  TotalPauseTimes = 1
  AckQueues = {0, 1}
SPECIFICATION LinkSpec
SYMMETRY MCSymmetry
INVARIANTS
  
  ResumeFindsPause
