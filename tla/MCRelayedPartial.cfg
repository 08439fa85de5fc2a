CONSTANTS
    Calls = {c1}
    Scenarios <- Queries
SPECIFICATION Spec
INVARIANT
    PartialIsSaid
CHECK_DEADLOCK FALSE
