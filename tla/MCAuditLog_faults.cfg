SPECIFICATION FairSpec
CONSTANTS
    r1 = r1
    r2 = r2
    s1 = s1
    Requests = {r1, r2}
    Streams = {s1}
    Slots = 1
    Capacity = 1
    MaxLines = 1
    StreamCapacity = 1
    Faults = {"disconnect", "crash", "flush", "rename", "open"}
INVARIANTS
    TypeOK
    CountersAgree
    FilesHoldTheLatest
    ByteCountFollowsFile
    LossIsCounted
    ResumeLeavesNoGap
PROPERTY EveryRequestLeaves
CHECK_DEADLOCK FALSE
