SPECIFICATION Spec
CONSTANTS
  a = a  b = b  p0 = p0  p1 = p1  p2 = p2  q0 = q0
  c1 = c1  c2 = c2  c3 = c3  c4 = c4
  WILDCARD = WILDCARD
  NSpaces = {a}
  Ranks = {0, 1, 2}
  Local <- TwoLocal
  NProcs <- TwoSize
  Peers <- TwoPeers
  Name <- TwoNames
  Calls = {c1, c2, c3}
  Caller <- TwoCallers
  Sigs <- ByRank
  Ops = {"FENCE"}
  HostModule = {"FENCE"}
  HostReturns = {"SUCCESS"}
  TimeoutGiven = {FALSE}
  CollectGiven = {TRUE}
  CollectMayFail = FALSE
  LocalOnlyOpt = TRUE
  Preregistered = FALSE
  NoData = {}
  Retired <- Nobody
  Duplicates = FALSE
  MaxLosses = 0
  MaxTrk = 3
  SIZE_MAX = 5
INVARIANTS NoEarlyCompletion
CHECK_DEADLOCK FALSE
