\* The library-wide thread, with an engine or stepped by the host, and a
\* thread of a component.
CONSTANTS
  u1 = u1
  u2 = u2
  Users = {u1, u2}
  MAIN = MAIN
  ENGINE = ENGINE
  NOBODY = NOBODY
  Scenarios <- Everything
  MaxCalls = 2
  MaxOps = 6
SPECIFICATION FairSpec
INVARIANTS NobodyWaitsForItself FlushedBeforeStop
PROPERTIES AcceptedCallsReturn
CHECK_DEADLOCK FALSE
