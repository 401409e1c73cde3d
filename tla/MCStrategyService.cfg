SPECIFICATION FairSpec
CONSTANTS
    s1 = s1
    s2 = s2
    Servers = {s1}
    Order <- OneServer
    Requests = {r1, r2}
    MaxSessions = 2
    MaxAttempts = 2
    MaxErrors = 2
    MaxRevived = 1
    MaxDialFailures = 1
INVARIANTS AliveIsServed
PROPERTIES IsGrabService QuitsIdle NoneConnectedAfter EveryRequestEnds
\* The last request answered, or the Strategy shut down, nothing is left to do.
CHECK_DEADLOCK FALSE
