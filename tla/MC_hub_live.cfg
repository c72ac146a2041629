SPECIFICATION FairSpec
CONSTANTS
    Clients = {c1}
    Senders = {s1}
    SendCap = 1
    BroadcastCap = 1
CHECK_DEADLOCK FALSE
PROPERTY SlowClientEnds
