SPECIFICATION Spec
CONSTANTS
    Files = {1, 2, 3, 4}
    Nzbs <- MCNzbs
    MaxNeeded = 4
    MaxDamaged = 1
INVARIANTS TypeOK ProcessesWhole SmallestFirst
PROPERTIES Ends
\* The program ends, or hangs in one of the ways that Ends names.
CHECK_DEADLOCK FALSE
