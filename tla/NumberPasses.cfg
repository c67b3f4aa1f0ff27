SPECIFICATION Spec
CONSTANTS
    MinIban = 5
    MaxIban = 6
    MinCard = 3
    MaxCard = 5
    Texts <- MCTexts
INVARIANTS
    OnlySpansChange
    IbansHidden
    CardsHidden
    MistypedDigitsShow
    AgainOnlyBehindMarks
CHECK_DEADLOCK FALSE
