SPECIFICATION Spec
CONSTANTS
    Servers = {"primary"}
    ServerSeq <- MCServerSeq1
    Groups = {"g1"}
    MaxRetry = 0
    Files = {"a", "par2"}
    FileSeq <- MCFileSeq
    Segments = {"a1", "p1"}
    SegSeq <- MCSegSeq
    FileOf <- MCFileOf
    InitRequired = {"a"}
    GroupSeq <- MCGroupSeq
    Expired = {}
    NoSegment = "none"
    Unwritable = {}
    GrabCap = 2
    Scripts <- PauseResume
    MaxLost = 0
PROPERTIES CallerReturns
CHECK_DEADLOCK FALSE
