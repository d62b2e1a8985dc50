SPECIFICATION FairSpec
CONSTANTS
    Qso = {1, 2}
    Dest = {1}
    Capacity = 2
    ChannelCap = 1
    Answers <- FirstIsPoison
INVARIANTS TypeOK SentIsOnDisk DiskBehindIsMarked CleanStopSavesAll
PROPERTIES QueueSpec QueuedArrives
