SPECIFICATION FairSpec
CONSTANTS
    Slots = {r1, r2}
    MaxSessions = 3
    MaxFaults = 2
    MaxRestarts = 1
INVARIANTS
    TypeOK
    WaiterIsKept
    SuccessFits
    ConnectedHasNotified
PROPERTIES
    EntriesGo
    ListsUnlessLost
