SPECIFICATION FairSpec
CONSTANTS
    s1 = s1
    s2 = s2
    Servers = {s1}
    Order <- OneServer
    Requests = {r1}
    MaxSessions = 1
    MaxAttempts = 2
    MaxErrors = 0
    MaxRevived = 1
    MaxDialFailures = 0
PROPERTIES DisconnectsServers
\* After the shutdown nothing is left to do.
CHECK_DEADLOCK FALSE
