SPECIFICATION FairSpec
CONSTANTS
    Ids = {1, 2, 3}
    MQTT_MAX_REPEAT_BUF_LEN = 2
    MAX_MESSAGE_HANDLERS = 1
    MaxMessages = 3
    MaxDisconnects = 1
CHECK_DEADLOCK FALSE
INVARIANTS
    RingIsWindow
    DeliveredOnce
    AckedWereDelivered
PROPERTIES
    HandlerOfMatch
    EventuallyAcked
