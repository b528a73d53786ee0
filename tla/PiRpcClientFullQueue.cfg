SPECIFICATION Spec
CONSTANTS
    MaxTurns = 1
    MaxStray = 0
    StdoutCap = 3
    StrayKinds = {}
    AbortFlushes = TRUE
    MaxQueued = 2
PROPERTY ReaderWaitsForRoom
\* The calls are bounded and a stopped client stays stopped.
CHECK_DEADLOCK FALSE
