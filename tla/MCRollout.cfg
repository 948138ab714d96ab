SPECIFICATION LiveSpec
CONSTANTS
    Admins = {a1}
    Evaluator = ev
    Models = {m1, m2}
    MaxRollouts = 2
    LastStage <- MCLastStage
    Stages <- MCStages
    Window = 1
    ListLimit = 1
INVARIANTS
    RowsCoherent
    OneActiveUnlessRaced
PROPERTIES
    LifecycleImplemented
    EveryRunningEvaluated
