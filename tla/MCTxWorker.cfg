CONSTANTS
    Attempts = 3
    Client = {"a"}
    Local = "local"
    QsoOf <- ThreeFrames
    ClientOf <- LastRemote
    Caps = {1, 2}
SPECIFICATION FairSpec
CHECK_DEADLOCK FALSE
INVARIANTS TypeOK ReportedOnce FrameIsAccounted OnIsAnswered HaltHolds
PROPERTIES WorkerDrains
