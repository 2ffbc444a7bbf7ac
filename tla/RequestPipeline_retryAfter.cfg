\* The documented Retry-After header against every 429 there is.
SPECIFICATION Spec
CONSTANTS
    Requests = {"r1", "r2", "r3"}
    Profiles <- MCProfiles
    Tokens = {"key1", "key2", "stray", "addr"}
    Addresses = {"addr"}
    WellFormed = {"key1", "key2", "stray"}
    ApiKeys = {"key1", "key2"}
    UnauthenticatedLimit = 2
    AuthenticatedLimit = 1
    MaxRetries = 1
    Production = TRUE
INVARIANT Every429SaysWhenToRetry
CHECK_DEADLOCK FALSE
