\* Two goroutines, changing batch sizes, failures and restarts.
SPECIFICATION Spec
CONSTANTS
    Handlers = {h1, h2}
    h1 = h1
    h2 = h2
    BatchSizes = {1, 3}
    Segments = 4
    MaxKey = 7
INVARIANTS
    TypeOK
    IncreasingFromRedis
