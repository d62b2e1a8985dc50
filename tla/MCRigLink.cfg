CONSTANTS
    MaxGenerations = 3
    MaxKeyings = 1
    MaxRestarts = 1
    OffAttempts = 1
    InboxCap = 1
SPECIFICATION Spec
CHECK_DEADLOCK FALSE
INVARIANTS TypeOK KeyedIsKnown LatchIsTrue InhibitIsOwed ReadyIsTrue
PROPERTIES ReleaseKeepsWatch LeftIsReported
