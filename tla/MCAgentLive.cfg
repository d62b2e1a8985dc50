CONSTANTS
    Client = {a}
    Jti = {j1}
    TokenCount = 1
    TokenScope <- EveryoneTx
    StaticAllow = {a}
    CqdxWillPoll = TRUE
    MAX_PEERS = 2
    InboxCapacity = 1
    None = None
    Frames = {"txRequest", "releaseControl"}
    ConsentEdits = {TRUE, FALSE}
    MaxExpired = 0
    MaxGeneration = 1
    MaxSessions = 2
    MaxFaults = 0
SPECIFICATION FairSpec
PROPERTIES DelistedIsEvicted OwedCleanupIsDelivered
