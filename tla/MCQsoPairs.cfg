SPECIFICATION Spec
CONSTANTS
    A = A
    B = B
    Loud = Loud
    Weak = Weak
    Stations <- OneStation
    Reports <- OneReport
    NoStation = NoStation
    NoReport = NoReport
    DefaultReport = Weak
    MaxQsos = 2
    MaxCopies = 1
    MaxCalls = 2
    StateTimeout = 1
    Watchdog = 1
    RepeatLimit = 1
    Retention = 1
    ReworkGrace = 1
    AgeCap = 2
    Operations = {"start_cq", "start_cq_manual", "respond_to_cq", "respond_to_cq_manual", "respond_to_caller", "cancel_qso", "cleanup"}
INVARIANT OnePerStationAndRole
PROPERTY LoggedOnce
