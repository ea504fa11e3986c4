\* Two queue pairs of four packets, two rates, two disturbances of the network.
CONSTANTS
  m_size = 4
  m_mtu = 1
  m_chunk = 1
  m_ack_interval = 1
  m_backto0 = FALSE
  Windows = {3}
  SeqSpace = 64
  Word = 1024
  QP = {1, 2}
  pg <- MCpg
  ack_q_idx = 3
  TxTime = 1
  SendTimes = {1, 2}
  RepeatNack = TRUE
  Events = 2
SPECIFICATION FairSpec
INVARIANTS
  TypeOK
  LiveInGroup
  
  IndexIsOfChosen
PROPERTY EveryQpCompletes
CHECK_DEADLOCK FALSE
