SPECIFICATION Spec
CONSTANTS
    Counters = {status, assessor}
    Authenticated = {assessor}
    Environments <- MCEnvironments
    Defaults <- MCDefaults
    Second = 2
    Cap = 6
PROPERTY WindowIsInSeconds
CHECK_DEADLOCK FALSE
