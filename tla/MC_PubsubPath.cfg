CONSTANTS
    Slots = {s1}
    Intents <- MCIntents
    WrittenUris <- BarePubsubUris
    Tokens <- MCTokens
    Digits <- MCDigits
    NoIntent <- MCNoIntent
    DefaultPortOf <- MssqlDefaultPort
    MssqlPort = "1433"
    TeradataPort = "1025"
    UnsplitKeepsEmptyAuthority = TRUE

SPECIFICATION Spec


INVARIANT PubsubPathShape
