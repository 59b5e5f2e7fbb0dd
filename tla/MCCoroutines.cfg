CONSTANTS
  Workers = {1, 2, 3}
  Tids = {1, 2, 3}
  MAP_CAPACITY = 1
  NUM_TASKS = 2
  COUNTS = 1
SPECIFICATION SchedulersSpec
CHECK_DEADLOCK FALSE
INVARIANTS
  CompletedRanAll
