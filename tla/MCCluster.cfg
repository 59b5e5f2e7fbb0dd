CONSTANTS
  Workers = {1, 2}
  Tids = {1, 2, 3}
  None = None
  CAPACITY = 2
  REALLOC_MAGIC = 2
  MAP_CAPACITY = 2
  NUM_TASKS = 2
  COUNTS = 2
SPECIFICATION ClusterSpec
CHECK_DEADLOCK FALSE
INVARIANTS
  TypeOK
  YeildFindsItself
  EachScheduledOnce
  RoundRobin
  DeathExplained
PROPERTY ClusterEnds
