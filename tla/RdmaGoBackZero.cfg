\* Go-back-zero, chunks of 4 bytes, over a fabric that loses and reorders.
CONSTANTS
  m_size = 8
  m_mtu = 2
  m_chunk = 4
  m_ack_interval = 1
  m_backto0 = TRUE
  Windows = {0}
  SeqSpace = 64
  Word = 1024
  Reorder = TRUE
  Losable <- MCAll
  MaxLoss = 2
  MaxAckLoss = 1
  TimerExpires = TRUE
  InFlight = 5
SPECIFICATION Spec
INVARIANTS
  TypeOK
  AckedIsHeld
PROPERTIES
  TransferSpec
  
CHECK_DEADLOCK FALSE
