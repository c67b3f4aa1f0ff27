SPECIFICATION WalkSpec
CONSTANTS
    MaxU64 = 3
    MaxDepth = 3
    Enabled <- MCEnabled
INVARIANTS
    TotalsAgree
    WalkMergesAll
