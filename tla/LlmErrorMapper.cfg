\* Both providers, every raw error with at most two status fields.
SPECIFICATION MapperSpec
CONSTANT RawErrors <- MCRawErrors
INVARIANTS
    ClientErrorNeverBecomes500
    RetriedExactlyIfTransient
    ProvidersAgree
CHECK_DEADLOCK FALSE
