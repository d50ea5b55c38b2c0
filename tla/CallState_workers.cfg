\* Two workers, and crashes.
SYMMETRY WorkerSymmetry
SPECIFICATION Spec
CONSTANTS
    Workers = {w1, w2}
    w1 = w1
    w2 = w2
    Monitor = Monitor
    NoDoc = NoDoc
    Kinds = {"answer", "bye"}
    Streams = FALSE
    Loads = FALSE
    Failures = FALSE
    Restarts = TRUE
INVARIANTS
    AnsweredCallStaysEnded
    ListedCallsTimed

    
