SPECIFICATION FairSpec
CONSTANTS
    Endpoints = {foh, stage}
    NoEndpoint = NoEndpoint
    Broken = Broken
    Partial = Partial
    GetInfo = "/get-info"
    VerifyDevice = "/verify-device"
    NoCommand = NoCommand
INVARIANTS
    TypeOK
    StatusSpeaksOfEndpoint
    SavedConfigWhole
    ReadsAnswerRequests
PROPERTIES
    CommandsEnd
