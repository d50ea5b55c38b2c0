\* A call with RTP and a Redis that may fail, under fairness.
SPECIFICATION FairSpec
CONSTANTS
    Workers = {w1}
    w1 = w1
    Monitor = Monitor
    NoDoc = NoDoc
    Kinds = {"invite", "answer", "bye"}
    Streams = TRUE
    Loads = FALSE
    Failures = TRUE
    Restarts = FALSE
PROPERTIES
    EveryRecordCloses
