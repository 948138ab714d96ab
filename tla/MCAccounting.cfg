SPECIFICATION AccountingSpec
CONSTANTS
    Requests = {r1, r2}
    Tenants = {"t1"}
    Models = {"m1", "m2"}
    Kinds = {"unary", "stream"}
    Limit <- SmallLimits
    MaxCost = 2
    MaxAdds = 3
SYMMETRY RequestSymmetry
INVARIANTS
    LedgerExact
    OvershootBounded
    UsagePageOffByOne
    LedgerWithinUsage
PROPERTY AdmittedWithinBudget
