CONSTANTS
    Client = {a}
    Jti = {j1, j2}
    TokenCount = 1
    TokenScope <- EveryoneTx
    StaticAllow = {a}
    CqdxWillPoll = TRUE
    MAX_PEERS = 2
    InboxCapacity = 1
    None = None
    Frames = {"arm", "hello", "heartbeat", "qsy"}
    ConsentEdits = {}
    MaxExpired = 0
    MaxGeneration = 2
    MaxSessions = 2
    MaxFaults = 0
SPECIFICATION Spec
INVARIANTS ArmedIsEligible SeenGenerationIsCurrent DenyListedIsDead
SYMMETRY Jtis
