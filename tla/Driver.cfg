SPECIFICATION FairSpec
CONSTANTS
    Jobs <- MCJobs
    Chunks = 3
    PipeSize = 2
INVARIANTS
    ZeroMeansComplete
    Cc1SeesWhole
    FailureLeavesNoOutput
    PidsAreChildren
PROPERTY EveryoneEnds
CHECK_DEADLOCK FALSE
