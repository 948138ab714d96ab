SPECIFICATION StoresSpec
CONSTANTS
    Requests = {r1, r2}
    Tenants = {t1}
    BodySizes = {3, 11}
    Floor <- MCFloor
    Quota <- MCQuota
    Limit <- MCLimit
    Period = 2
    MaxTime = 4
    MaxWindows = 3
    Callers = {c1, c2}
    Queries <- FourQueries
    TTL = 2
    MaxSize = 2
SYMMETRY StoresSymmetry
INVARIANTS
    NoOverspend
    CacheTypeOK
    SizeBounded
    TenantIsolated
PROPERTIES
    DenialJustified
    LiveKept
