\* Two concurrent calls of one service, each with up to two retries.
SPECIFICATION FairSpec
CONSTANTS
    Calls = {c1, c2}
    MaxRetries = 2
    BackoffBase = 100
    Jitters <- JitterEnds
    TimerMax = 2147483647
    Failures <- MixedFailures
INVARIANTS
    OutcomeIsOwnFirstFailure
PROPERTIES
    BackoffHonoured
    EverySendSettles
    ImplementsContract
CHECK_DEADLOCK FALSE
