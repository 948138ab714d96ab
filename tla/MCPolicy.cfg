SPECIFICATION Spec
CONSTANTS
    Requests = {r1, r2}
    Contents = {"fine", "private", "rude"}
    Policies <- MCPolicies
SYMMETRY RequestSymmetry
INVARIANTS
    SoloVerdict
    CorruptedByOverlap
PROPERTY OnErrorHonoured
