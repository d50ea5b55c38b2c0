\* One worker, the monitor and the sweeper of tombstones on one call with RTP.
SPECIFICATION Spec
CONSTANTS
    Calls = {c1}
    Workers = {w1}
    Monitor = monitor
    Slots = {o1, o2, o3}
    None = None
    MaxTTL = 1
    ShortTTL = 1
    TombTTL = 0
    Deadlines = {1}
    Sweeps = TRUE
    Media = {c1}
    Kinds = {"signal", "hangup"}
INVARIANTS SessionsTimed OnlyOverdueExpire
