SPECIFICATION Spec
CONSTANTS
    Inits = {a, b}
    Old <- MCOld
    OldValues <- MCOldValues
    OldHeads <- MCOldHeads
    Breaks <- MCBreaks
INVARIANTS
    LastInitWins
    PlainKeepsConfig
    LoadedHidesEnough
    TornIsExamplePrefix
CHECK_DEADLOCK FALSE
