\* One HEP worker and one publisher, under fairness.
SPECIFICATION FairSpec
CONSTANTS
    Packets = {m1, m2, m3}
    m1 = m1
    m2 = m2
    m3 = m3
    Workers = {w1}
    w1 = w1
    QueueSize = 1
    Publishers = {p1}
    p1 = p1
    ChannelSize = 1
    None = None
    MaxSize = 2
    MaxBufferSize = 4
    MaxFlushRetries = 1
INVARIANTS
    TypeOK
    SendsOnOpenChannel
    EarlyIsDelivered
PROPERTIES
    JobsAreTaken
    ShutdownEnds
CHECK_DEADLOCK FALSE
