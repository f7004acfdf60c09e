SPECIFICATION FairSpec
CONSTANTS
    KeepAlive = 4
    MQTT_PING_RETRY_TIMES = 2
    MAX_RECONNECT_WAIT_INTERVAL = 2000
    FirstIntervals = {1000, 1990}
    Latency = 2
    MaxInbox = 1
INVARIANTS
    BackOffDoubles
PROPERTIES
    NoFalseDisconnect
    SilenceDetected
    ReconnectsOrEnds
