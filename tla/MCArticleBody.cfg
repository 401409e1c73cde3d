SPECIFICATION Spec
CONSTANTS
    Lines <- MCLines
    maxheaderBuffer = 3
    headerTable <- MCheaderTable
    requiredHeaderBytes = 3
    Unknown = "unknown"
    Groups = {"g1", "g2"}
    NoGroup = "none"
    MaxLines = 5
    MaxChunk = 2
    MaxDispatches = 2
INVARIANTS TypeOK WritesTheData JudgesRightly SniffsHeader
PROPERTIES InRequestedGroup
CHECK_DEADLOCK FALSE
