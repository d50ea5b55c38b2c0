\* A call with RTP, under fairness.
SPECIFICATION FairSpec
CONSTANTS
    Calls = {c1}
    Workers = {w1}
    Monitor = monitor
    Slots = {o1, o2, o3}
    None = None
    MaxTTL = 1
    ShortTTL = 1
    TombTTL = 0
    Deadlines = {1}
    Sweeps = FALSE
    Media = {c1}
    Kinds = {"signal", "hangup"}
PROPERTIES AllReaped EveryEndReported
