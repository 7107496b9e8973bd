CONSTANTS
    Slots = {s1}
    Intents <- SqlitePathIntents
    WrittenUris <- MCWrittenUris
    Tokens <- MCTokens
    Digits <- MCDigits
    NoIntent <- MCNoIntent
    DefaultPortOf <- MssqlDefaultPort
    MssqlPort = "1433"
    TeradataPort = "1025"
    UnsplitKeepsEmptyAuthority = FALSE

SPECIFICATION Spec

INVARIANT StoredUriKeepsDataset
