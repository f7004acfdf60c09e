SPECIFICATION FairSpec
CONSTANTS
    Callers = {c1, c2}
    NoRequest = none
    Timeouts = {500, 4000, 257000}
    MAX_APPENDING_REQUEST_AT_ANY_GIVEN_TIME = 2
CHECK_DEADLOCK FALSE
INVARIANTS
    OwnResult
    
PROPERTIES
    KeepsPromise
    EventuallyReported
