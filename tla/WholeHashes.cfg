SPECIFICATION Spec
CONSTANTS
    Deny <- MCDeny
    Allow <- MCAllow
    Depth = 2
    Values <- MCValues
    Detectors <- MCDetectors
    Policies <- MCPolicies
INVARIANTS
    HashesAreWhole
CHECK_DEADLOCK FALSE
