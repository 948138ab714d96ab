SPECIFICATION LiveSpec
CONSTANTS
    Requests = {r1, r2}
    Tenants = {"t1"}
    Models = {"m1"}
    Kinds = {"unary"}
    Limit <- GlobalLimit
    MaxCost = 1
PROPERTY ExhaustedReopens
