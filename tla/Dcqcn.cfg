\* Rates up to 40, two rounds of fast recovery, three CNPs.
CONSTANTS
  MinRate = 4
  LineRate = 40
  FirstRate = 30
  m_rai = 1
  m_rhai = 3
  m_rpgThreshold = 2
  m_ecnClampTgtRate = FALSE
  MaxCnp = 3
SPECIFICATION FairSpecCc
INVARIANTS
  TypeOKCc
  RatesOrdered
  
PROPERTY Recovers
CHECK_DEADLOCK FALSE
