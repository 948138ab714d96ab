SPECIFICATION Spec
CONSTANTS
    Admins = {a1}
    Evaluator = ev
    Models = {m1}
    MaxRollouts = 1
    LastStage <- MCLastStage
    Stages <- MCStages
    Window = 1
    ListLimit = 2
PROPERTY TerminalIsFinal
