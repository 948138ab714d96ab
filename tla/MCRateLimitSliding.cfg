SPECIFICATION Spec
CONSTANTS
    Requests = {r1, r2}
    Tenants = {t1}
    BodySizes = {3, 11}
    Floor <- MCFloor
    Quota <- MCQuota
    Limit <- MCLimit
    Period = 2
    MaxTime = 4
    MaxWindows = 3
SYMMETRY RequestSymmetry
INVARIANT SlidingWindow
