CONSTANTS
    MaxGenerations = 4
    MaxKeyings = 0
    MaxRestarts = 1
    OffAttempts = 1
    InboxCap = 1
SPECIFICATION Spec
CHECK_DEADLOCK FALSE
INVARIANT DeadLinkIsInhibited
