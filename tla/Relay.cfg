SPECIFICATION FairSpec
CONSTANTS
    Chats = {c1, c2}
    MaxOrphans = 1
    MaxMessages = 3
    HungChats = {c1}
INVARIANTS
    TypeOK
    OnlyOrphansShare
    LiveIsReachable
    OneTurnPerChat
    NoLockLeftBehind
    RepliesInOrder
    CleanExit
PROPERTIES
    EveryMessageFinishes
    ShutdownEnds
    ImplementsPerChatService
\* The relay exits, and the events are bounded.
CHECK_DEADLOCK FALSE
