CONSTANTS
    Calls = {c1, c2}
    Scenarios <- Everything
SPECIFICATION FairSpec
INVARIANTS
    LentDataReturned
    CaddyHeld
PROPERTIES
    EveryRequestReturns

CHECK_DEADLOCK FALSE
