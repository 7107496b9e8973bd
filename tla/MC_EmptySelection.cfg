CONSTANTS
    Tables <- MCTables
    Selections <- EmptySelections
    None = None

SPECIFICATION Spec

INVARIANT SelectionRespected
