SPECIFICATION Spec
CONSTANTS
  a = a  b = b  p0 = p0  p1 = p1  p2 = p2  q0 = q0
  c1 = c1  c2 = c2  c3 = c3  c4 = c4
  WILDCARD = WILDCARD
  NSpaces = {a, b}
  Ranks = {0, 1, 2}
  Local <- HybridLocal
  NProcs <- HybridSize
  Peers <- HybridPeers
  Name <- HybridNames
  Calls = {c1, c2, c3}
  Caller <- HybridCallers
  Sigs <- Hybrid
  Ops = {"FENCE", "DISCONNECT"}
  HostModule = {"FENCE"}
  HostReturns = {"SUCCESS", "OPERATION_SUCCEEDED", "ERROR"}
  TimeoutGiven = {TRUE}
  CollectGiven = {TRUE}
  CollectMayFail = TRUE
  LocalOnlyOpt = TRUE
  Preregistered = FALSE
  NoData = {}
  Retired <- Nobody
  Duplicates = FALSE
  MaxLosses = 0
  MaxTrk = 3
  SIZE_MAX = 5
INVARIANTS NoEarlyCompletion ParkedIsHeld
CHECK_DEADLOCK FALSE
