SPECIFICATION Spec
CONSTANTS
    MaxWire = 3
    MaxTurns = 2
    DefaultUrl = TRUE
    RestartOn = {"one"}
INVARIANTS
    TypeOK
    SuccessMeansServed
PROPERTIES
    PreflightMeansReady
    ServesAgain
\* A relay that has exited with 0 is not started again.
CHECK_DEADLOCK FALSE
