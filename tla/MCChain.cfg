SPECIFICATION FairSpec
CONSTANTS
  h1 = h1  h2 = h2  h3 = h3  h4 = h4  e1 = e1  e2 = e2
  Handlers = {h1, h2, h3, h4}
  Events = {e1, e2}
  Scenarios <- Everything
INVARIANTS ChainInOrder NobodySkipped CachedForTheNext
PROPERTIES EveryEventEnds
CHECK_DEADLOCK FALSE
