SPECIFICATION FairSpec
CONSTANTS
  c1 = c1  c2 = c2 
  Calls = {c1, c2}
  DynTags = 2
  HdrLen = 2
  WireCap = 4
  max_msg_size = 1
  Notes = 1
  Scenarios <- Everything
INVARIANTS CompletedOnce StreamInStep
PROPERTIES EveryCallReturns
CHECK_DEADLOCK FALSE
