SPECIFICATION Spec
CONSTANTS
    Deny <- MCDeny
    Allow <- MCAllow
    Depth = 2
    Values <- MCValues
    Detectors <- MCDetectors
    Policies <- MCPolicies
INVARIANTS
    HidesEachSecret
    ScanAgrees
    RedactIsIdempotent
    RescanFindsNothingNew
CHECK_DEADLOCK FALSE
