SPECIFICATION Spec
CONSTANTS
    Servers = {"primary", "backup"}
    ServerSeq <- MCServerSeq
    Groups = {"g1"}
    MaxRetry = 1
    Files = {"a", "b", "par2"}
    FileSeq <- MCFileSeq3
    Segments = {"a1", "a2", "b1", "p1"}
    SegSeq <- MCSegSeq
    FileOf <- MCFileOf
    InitRequired = {"a", "b"}
    GroupSeq <- MCGroupSeq
    Expired <- MCExpired
    NoSegment = "none"
    Unwritable = {"b1"}
    GrabCap = 1
    Scripts <- LotByLot
    MaxLost = 1
INVARIANTS TypeOK ExclusiveOutput NoneForgotten CountsExact CountersAgree
PROPERTIES IsFailover IsGrabLots CallerReturns
CHECK_DEADLOCK FALSE
