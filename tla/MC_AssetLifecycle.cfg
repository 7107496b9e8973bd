CONSTANTS
    Slots = {s1, s2}
    Intents <- MCIntents
    WrittenUris <- MCWrittenUris
    Tokens <- MCTokens
    Digits <- MCDigits
    NoIntent <- MCNoIntent
    DefaultPortOf <- MssqlDefaultPort
    MssqlPort = "1433"
    TeradataPort = "1025"
    UnsplitKeepsEmptyAuthority = TRUE

SPECIFICATION Spec

INVARIANT TypeOK
INVARIANT DefaultPortFilled
INVARIANT DatasetFollowsConvention
INVARIANT StorageDatasetFromFields
INVARIANT NameJoinsPathSegments
INVARIANT LineageInjective

PROPERTY ReadBackStable
PROPERTY IdentityRefinement
