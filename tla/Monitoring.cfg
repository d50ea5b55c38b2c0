\* Two speakers, three final segments, two messages and two requests in flight.
CONSTANTS
    Speakers = {s1, s2}
    MaxSeq = 3
    MaxWire = 2
    MaxFetches = 2
SPECIFICATION Spec
INVARIANTS
    TypeOK
    
    
