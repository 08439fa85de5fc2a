SPECIFICATION FairSpec
CONSTANTS
  a = a  b = b  p0 = p0  p1 = p1  p2 = p2  q0 = q0
  c1 = c1  c2 = c2  c3 = c3  c4 = c4
  WILDCARD = WILDCARD
  NSpaces = {a}
  Ranks = {0, 1, 2}
  Local <- ThreeLocal
  NProcs <- ThreeAll
  Peers <- ThreePeers
  Name <- ThreeNames
  Calls = {c1, c2, c3}
  Caller <- ThreeCallersOnce
  Sigs <- Whole
  Ops = {"FENCE", "CONNECT"}
  HostModule = {"FENCE", "CONNECT"}
  HostReturns = {"SUCCESS"}
  TimeoutGiven = {FALSE, TRUE}
  CollectGiven = {TRUE}
  CollectMayFail = FALSE
  LocalOnlyOpt = TRUE
  Preregistered = TRUE
  NoData = {}
  Retired <- RankOne
  Duplicates = FALSE
  MaxLosses = 1
  MaxTrk = 2
  SIZE_MAX = 5
INVARIANTS OneReleaser OneOpenTracker NoEarlyCompletion DegradedFenceIsReported
PROPERTIES ImplementsContract NobodyLeftWaiting
CHECK_DEADLOCK FALSE
