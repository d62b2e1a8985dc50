CONSTANTS
    Attempts = 3
    Client = {"a"}
    Local = "local"
    QsoOf <- ThreeFrames
    ClientOf <- LastRemote
    Caps = {1, 2}
SPECIFICATION Spec
CHECK_DEADLOCK FALSE
INVARIANT AbandonedIsReported
