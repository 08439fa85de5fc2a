CONSTANTS
  t1 = t1
  t2 = t2
  j1 = j1
  j2 = j2
  Tools = {t1, t2}
  Jobs = {j1, j2}
  Slots = {1, 2, 3}
  Handles = {0, 1}
  MaxRetries = 1
  Scenarios <- Everything
SPECIFICATION FairSpec
INVARIANTS ShownInOrder HeardOnce
PROPERTIES EverythingShown StdinReachesItsEnd
CHECK_DEADLOCK FALSE
