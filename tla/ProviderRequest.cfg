SPECIFICATION RequestSpec
CONSTANTS
    Strings <- MCStrings
    Submissions <- MCSubmissions
    Conversations <- MCConversations
    LegacyPayloads <- MCLegacyPayloads
    Configurations <- MCConfigurations
    FamilyOf <- MCFamilyOf
INVARIANTS
    NothingLostNorMisattributed
    NoEmptyRequest
    EffortIsMonotone
    ImagesMeetTheImageModel
    TasksUnderTheirHeadings
    CacheKeyMeansPrefix
CHECK_DEADLOCK FALSE
