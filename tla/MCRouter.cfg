SPECIFICATION RouterLiveSpec
CONSTANTS
    Requests = {r1, r2}
    Models = {"m1", "m2"}
    Configured <- MCProviders
    Routes <- MCRoutes
    Rollouts <- MCRollouts
    Draws = {49, 50}
    RequestKinds = {"unary", "stream"}
    Threshold = 2
    ResetAfter = 0
INVARIANTS
    RouterTypeOK
    FallbackExhaustive
    CanaryByDraw
PROPERTY BreakerReopens
