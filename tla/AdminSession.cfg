\* Two requests, three pairs of tokens, two reconnections, under fairness.
CONSTANTS
    Requests = {r1, r2}
    MaxToken = 3
    MaxAttempts = 2
SPECIFICATION FairSpec
INVARIANTS
    TypeOK
    QueueServed
    ConnectionFollowsSession
    SignedOutStaysOut

    
    
