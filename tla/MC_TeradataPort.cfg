CONSTANTS
    Slots = {s1}
    Intents <- MCIntents
    WrittenUris <- MCWrittenUris
    Tokens <- MCTokens
    Digits <- MCDigits
    NoIntent <- MCNoIntent
    DefaultPortOf <- DatabaseDefaultPort
    MssqlPort = "1433"
    TeradataPort = "1025"
    UnsplitKeepsEmptyAuthority = TRUE

SPECIFICATION Spec

INVARIANT DefaultPortFilled
