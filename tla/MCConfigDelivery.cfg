SPECIFICATION LiveSpec
CONSTANTS
    Pods = {p1, p2}
    OtherKinds <- Policies
    MaxEdits <- Changes
CONSTRAINT Unmixed
INVARIANTS
    NothingOverlooked
PROPERTIES
    ConfigMapForward
    GatewayEditLoaded
