SPECIFICATION FairSpec
CONSTANTS
    Devices = {1, 2}
    InitiallyBound = {1, 2}
    GATEWAY_LOOP_MAX_COUNT = 1
    MaxCalls = 2
    MaxPushes = 1
    MaxUnprepared = 1
CHECK_DEADLOCK FALSE
INVARIANTS
    SessionsSettle
    AgreesWithServer
PROPERTIES
    AnswersOwnRequest
    ListIsReplied
    CallsReturn
