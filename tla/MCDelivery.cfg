SPECIFICATION FairSpec
CONSTANTS
  c1 = c1  c2 = c2  k1 = k1  e1 = e1  e2 = e2  e3 = e3
  Clients = {c1, c2}
  Codes = {k1}
  Events = {e1, e2, e3}
  max_events = 2
  MaxRegs = 2
  MaxTime = 1
  Scenarios <- Everything
INVARIANTS NobodyMissesAnEvent AnswerComesFirst
PROPERTIES EverybodyAnswered
CHECK_DEADLOCK FALSE
