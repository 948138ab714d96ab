SPECIFICATION StreamingLiveSpec
CONSTANTS
    CheckInterval = 9
    ReadSize = 4
    Providers = {"ollama", "gemini", "bedrock", "mock", "raw"}
    Pieces = 4
    EventSizes = {2, 5, 7}
CHECK_DEADLOCK FALSE
INVARIANTS
    StreamingTypeOK
    ExposureBounded
    DoneMeansComplete
PROPERTY StreamsEnd
