SPECIFICATION Spec
CONSTANTS
    Publishers = {p1, p2}
    Yielder = y
    NoThread = none
    MAX_REPUB_NUM = 2
    MAX_PACKET_ID = 2
    QoS = {"QOS0", "QOS1"}
    MaxNodes = 2
    CallbackRepublishes = FALSE
SYMMETRY PublisherSymmetry
INVARIANTS
    TypeOK
    IdsDistinct
    PacketIntact
    PointersLive
PROPERTIES
    KeepsPromise
