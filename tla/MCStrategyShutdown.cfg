SPECIFICATION FairSpec
CONSTANTS
    s1 = s1
    s2 = s2
    Servers = {s1, s2}
    Order <- TwoServers
    Requests = {r1, r2}
    MaxSessions = 1
    MaxAttempts = 2
    MaxErrors = 1
    MaxRevived = 1
    MaxDialFailures = 1
INVARIANTS TypeOK
PROPERTIES ShutdownReturns IsGrabService
\* Nothing is left to do after the shutdown.
CHECK_DEADLOCK FALSE
