SPECIFICATION FairLogSpec
CONSTANTS
    Servers = {"primary", "backup"}
    ServerSeq <- MCServerSeq
    Groups = {"g1", "g2"}
    MaxRetry = 2
    Segments = {"s1", "s2"}
    GroupSeq <- MCGroupSeq
    Expired <- MCExpired
INVARIANTS TypeOK AsksNext NonePassedOver
PROPERTIES AlwaysFurther Ends
\* Once the segments have come to their ends nothing is left to do.
CHECK_DEADLOCK FALSE
