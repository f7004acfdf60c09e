SPECIFICATION Spec
CONSTANTS
    Publishers = {p1}
    Yielder = y
    NoThread = none
    MAX_REPUB_NUM = 2
    MAX_PACKET_ID = 2
    QoS = {"QOS1"}
    MaxNodes = 2
    CallbackRepublishes = TRUE
CHECK_DEADLOCK FALSE
INVARIANTS
    NoSelfDeadlock
