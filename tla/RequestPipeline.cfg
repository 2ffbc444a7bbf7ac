\* Production: three requests against limits of one and two, with one retry each.
SPECIFICATION FairSpec
CONSTANTS
    Requests = {"r1", "r2", "r3"}
    Profiles <- MCProfiles
    Tokens = {"key1", "key2", "stray", "addr"}
    Addresses = {"addr"}
    WellFormed = {"key1", "key2", "stray"}
    ApiKeys = {"key1", "key2"}
    UnauthenticatedLimit = 2
    AuthenticatedLimit = 1
    MaxRetries = 1
    Production = TRUE
INVARIANTS
    StrangersCauseNoWork
    ThrottledForOwnRequestsOnly
    ProviderLoadIsBounded
    StatusTellsWhoseFault
    ProductionTellsNoInternals
PROPERTIES
    ThrottlesByContract
    EveryRequestAnswered
CHECK_DEADLOCK FALSE
