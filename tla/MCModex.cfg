SPECIFICATION FairSpec
CONSTANTS
  l1 = l1  l2 = l2  r1 = r1  g1 = g1  g2 = g2  g3 = g3  a1 = a1
  Local = {l1, l2}
  Remote = {r1}
  Gets = {g1, g2}
  Asks = {a1}
  Scenarios <- Everything
  MaxTrk = 3
INVARIANTS AnsweredOnce NobodyForgotten HostAskAnswerable
PROPERTIES EveryGetAnswered
CHECK_DEADLOCK FALSE
