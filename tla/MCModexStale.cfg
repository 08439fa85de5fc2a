SPECIFICATION Spec
CONSTANTS
  l1 = l1  l2 = l2  r1 = r1  g1 = g1  g2 = g2  g3 = g3  a1 = a1
  Local = {l1, l2}
  Remote = {r1}
  Gets = {g1, g2}
  Asks = {a1}
  Scenarios <- Stale
  MaxTrk = 3
INVARIANT NobodyForgotten
CHECK_DEADLOCK FALSE
