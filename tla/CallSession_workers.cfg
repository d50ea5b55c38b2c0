\* Two workers and the monitor on one call, every kind of message, no RTP.
SPECIFICATION Spec
CONSTANTS
    Calls = {c1}
    Workers = {w1, w2}
    Monitor = monitor
    Slots = {o1, o2, o3, o4}
    None = None
    MaxTTL = 1
    ShortTTL = 1
    TombTTL = 0
    Deadlines = {1}
    Sweeps = FALSE
    Media = {}
    Kinds = {"signal", "hangup", "challenge"}
INVARIANTS TypeOK QuietCallsAgree
 
