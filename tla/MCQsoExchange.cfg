SPECIFICATION FairSpec
CONSTANTS
    A = A
    B = B
    Loud = Loud
    Weak = Weak
    Stations <- OneStation
    Reports <- TwoReports
    NoStation = NoStation
    NoReport = NoReport
    DefaultReport = Weak
    MaxQsos = 1
    MaxCopies = 2
    MaxCalls = 2
    StateTimeout = 1
    Watchdog = 1
    RepeatLimit = 1
    Retention = 0
    ReworkGrace = 1
    AgeCap = 2
    Operations = {"start_cq", "start_cq_manual", "respond_to_cq", "respond_to_cq_manual", "respond_to_caller", "resend_last_tx", "mute"}
INVARIANTS TypeOK ReportIsStable
PROPERTY EveryQsoEnds
