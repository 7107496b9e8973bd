CONSTANTS
    Tables <- MCTables
    Selections <- MCSelections
    None = None

SPECIFICATION Spec

INVARIANT TypeOK
INVARIANT SelectionRespected
