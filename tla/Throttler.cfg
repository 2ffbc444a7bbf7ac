\* A counter of each kind, all the environments.
SPECIFICATION FairSpec
CONSTANTS
    Counters = {status, assessor}
    Authenticated = {assessor}
    Environments <- MCEnvironments
    Defaults <- MCDefaults
    Second = 2
    Cap = 3
PROPERTIES
    ThrottlesByContract
    WindowIsBounded
    EveryoneIsAdmittedAgain
CHECK_DEADLOCK FALSE
