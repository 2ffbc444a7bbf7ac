SPECIFICATION Spec
CONSTANTS
    Models <- ModelNames
    PrefixesOf <- ModelPrefixes
    Tokens <- MCTokens
    KeysIn <- MCKeysIn
    StartsWith <- MCStartsWith
    SoundAfter <- MCSoundAfter
    Environments <- DotEnvs
    Shells <- LaunchShells
    Payloads <- SomePayloads
    MaxEdits = 1
INVARIANTS
    NoRequestLacksItsKey
    OneRoutePerRun
    LimitIsConfigured
    ConfiguredKeysLetIn
CHECK_DEADLOCK FALSE
