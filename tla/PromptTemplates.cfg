SPECIFICATION FairSpec
CONSTANTS
    Requests = {r1, r2, r3}
    TaskTypes = {"TEXT", "IMAGE"}
    FileSets <- Deployments
INVARIANTS
    PromptsAreRight
    FailuresAreOwn
    WarmRequestsNeverFail
PROPERTIES
    EveryRequestSettles
CHECK_DEADLOCK FALSE
