\* Go-back-N: one lost packet that is not the last one; order kept; NACK timer
\* long enough.
CONSTANTS
  m_size = 7
  m_mtu = 1
  m_chunk = 4
  m_ack_interval = 1
  m_backto0 = FALSE
  Windows = {3}
  SeqSpace = 64
  Word = 1024
  Reorder = FALSE
  Losable <- MCNotLast
  MaxLoss = 1
  MaxAckLoss = 0
  TimerExpires = FALSE
  InFlight = 6
SPECIFICATION FairSpec
PROPERTY Completes
CHECK_DEADLOCK FALSE
