SPECIFICATION Spec
CONSTANTS
    Apps = {a1}
    Yielder = y
    NoThread = none
    Topics = {"t", "w"}
    Wildcards = {"w"}
    Handlers = {h1}
    MAX_MESSAGE_HANDLERS = 2
    MaxRequests = 3
    MaxDisconnects = 1
    StackGarbage = {0, 1}
CHECK_DEADLOCK FALSE
INVARIANTS
    FilterOwnership
    EntriesDistinct
    ReconnectAsksAgain
    OneOutcome
