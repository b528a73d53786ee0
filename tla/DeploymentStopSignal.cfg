SPECIFICATION Spec
CONSTANTS
    MaxWire = 2
    MaxTurns = 2
    DefaultUrl = TRUE
    RestartOn = {"one"}
PROPERTY StopWaitsForTurns
\* A relay that has exited with 0 is not started again.
CHECK_DEADLOCK FALSE
