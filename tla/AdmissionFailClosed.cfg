SPECIFICATION Spec
CONSTANTS
    Users = {1}
    Groups <- MCGroups
    MaxEntries = 1
INVARIANT DropsTheRest
\* A relay with an invalid configuration does not start.
CHECK_DEADLOCK FALSE
