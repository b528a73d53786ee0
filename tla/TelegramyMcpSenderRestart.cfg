SPECIFICATION FairSpec
CONSTANTS
    Callers = {a}
    MaxSessions = 3
    MaxFaults = 0
    MaxRestarts = 1
PROPERTY
    Recovers
