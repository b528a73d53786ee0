SPECIFICATION CodeSpec
CONSTANTS
    MaxTurns = 1
    MaxStray = 0
    StdoutCap = 2
    StrayKinds = {}
    AbortFlushes = TRUE
    MaxQueued = 2
PROPERTY EveryCallEnds
\* The calls are bounded and a stopped client stays stopped.
CHECK_DEADLOCK FALSE
