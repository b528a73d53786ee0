SPECIFICATION FairSpec
CONSTANTS
    Callers = {a, b}
    MaxSessions = 6
    MaxFaults = 2
    MaxRestarts = 1
INVARIANTS
    TypeOK
    CommittedIsInitialized
    OutcomeFits
PROPERTY
    RecoversUnlessForgotten
