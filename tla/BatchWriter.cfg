\* Rows come, commits fail or succeed, the writer is stopped.
SPECIFICATION FairSpec
CONSTANTS
    Rows = {r1, r2, r3, r4, r5}
    MaxSize = 2
    MaxBufferSize = 4
    MaxFlushRetries = 3
INVARIANTS TypeOK BufferBounded NothingShed StopFlushes
PROPERTY EveryRowSettles
