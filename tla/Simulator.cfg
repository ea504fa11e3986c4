CONSTANTS
  Delay = {0, 1}
  Thread = {t}
  Posts = 2
  UidBound = 7
SPECIFICATION FairSpec
INVARIANTS
  ExpiredIsExact
  UnscheduledIsExact
  FlagIsExact
  PostOrder
PROPERTIES
  KeysIncrease
  HandedOverRuns
CHECK_DEADLOCK FALSE
