SPECIFICATION FairSpec
CONSTANTS
  c1 = c1  c2 = c2  h1 = h1  h2 = h2  h3 = h3  h4 = h4  e1 = e1  s1 = s1  s2 = s2
  Clients = {c1, c2}
  Handlers = {h1, h2, h3, h4}
  Codes = {e1, s1, s2}
  SysCodes = {s1, s2}
  Scenarios <- Everything
INVARIANTS StillListed StillForwarded
PROPERTIES ForwardingStops
CHECK_DEADLOCK FALSE
