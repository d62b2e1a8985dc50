CONSTANTS
    Jti = {j1}
    Client = {c1}
    Channel = {"StationAgent", "WsjtxUdp"}
    HEARTBEAT_TIMEOUT = 2
    MAX_ARM = 5
    ArmedUntil = {5}
    TokenExp = {2, 6}
    WallTarget = {0, 6}
    MaxTime = 6
    MaxSeq = 2
    NoSession = NoSession
    NoGrant = NoGrant
SPECIFICATION FairSpec
INVARIANTS TypeOK AuthorityBound DeadmanBound
PROPERTIES ElapsedExpiryIsFinal LeaseSpec ArmEventuallyEnds
