SPECIFICATION FairSpec
CONSTANTS
    Senders = {s1, s2}
    Yielder = y
    NoThread = none
    COAP_MSG_MAX_MSG_ID = 2
    FirstIds = {2}
    max_retry_count = 1
    MaxRequests = 2
    MaxInFlight = 1
CHECK_DEADLOCK FALSE
INVARIANTS
    CopyIntact
    OwnAnswer
PROPERTIES
    KeepsPromise
    EventuallyReported
