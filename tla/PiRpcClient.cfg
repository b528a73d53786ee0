SPECIFICATION FairSpec
CONSTANTS
    MaxTurns = 3
    MaxStray = 1
    StdoutCap = 3
    StrayKinds = {"non_json", "non_object", "notify"}
    AbortFlushes = TRUE
    MaxQueued = 2
INVARIANTS
    TypeOK
    ReplyMatchesPrompt
    NoWaiterOnDeadStream
    AnswerUnderWay
    EndNeverMissed
    QuietBetweenTurns
    DialogBeingAnswered
    NoOrphanAfterClose
PROPERTIES
    EveryCallEnds
    ImplementsAgentClient
\* The calls are bounded and a stopped client stays stopped.
CHECK_DEADLOCK FALSE
