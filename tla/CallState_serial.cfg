\* One worker, every kind of message, streams that keep a copy of the document.
SPECIFICATION Spec
CONSTANTS
    Workers = {w1}
    w1 = w1
    Monitor = Monitor
    NoDoc = NoDoc
    Kinds = {"invite", "hold", "ringing", "challenge", "answer", "reject", "bye"}
    Streams = TRUE
    Loads = TRUE
    Failures = FALSE
    Restarts = FALSE
INVARIANTS
    TypeOK
    CacheKnowsAnswer
    HoldAsLastSaid
