CONSTANTS
    Client = {a, b}
    Jti = {j1}
    TokenCount = 1
    TokenScope <- EveryoneTx
    StaticAllow = {a, b}
    CqdxWillPoll = FALSE
    MAX_PEERS = 2
    InboxCapacity = 1
    None = None
    Frames = {"arm", "disarm", "hello", "stopCq", "txRequest", "takeControl", "releaseControl"}
    ConsentEdits = {}
    MaxExpired = 1
    MaxGeneration = 0
    MaxSessions = 3
    MaxFaults = 1
SPECIFICATION Spec
INVARIANTS TypeOK ArmFollowsControl OneRemoteOperator
PROPERTY LeaseSpec
SYMMETRY Clients
