SPECIFICATION LiveSpec
CONSTANTS
    Requests = {r1, r2, r3}
    Kinds = {"unary", "stream"}
    Prompts = {"q", "q bad"}
    Outputs = {"a", "a bad"}
    InputFilters <- MCInputFilters
    OutputFilters <- MCOutputFilters
    DbQueueSize = 1
CHECK_DEADLOCK FALSE
INVARIANTS
    BlockedNotServed
    EventsAccounted
    BooksAgree
PROPERTIES
    QueueDrains
    RequestsAnswered
