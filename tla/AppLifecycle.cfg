SPECIFICATION FairSpec
CONSTANTS
    N = 4
    FirstOfFile = {1, 2}
    Logs = {"first", "second"}
    LogOf <- MCLogOf
    Stubborn = {0, 1, 3}
    MaxPolls = 2
INVARIANTS
    StartedIsOwnApp
    PortIsFree
PROPERTY SuiteEnds
CHECK_DEADLOCK FALSE
