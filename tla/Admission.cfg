SPECIFICATION Spec
CONSTANTS
    Users = {1, 2}
    Groups <- MCGroups
    MaxEntries = 2
INVARIANTS
    TypeOK
    TaskIffTrusted
    TypoNeverServes
\* A relay with an invalid configuration does not start.
CHECK_DEADLOCK FALSE
