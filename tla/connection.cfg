SPECIFICATION FairSpec
CONSTANTS
    Items <- AskedItems
    MaxAttempts = 4
    InitialBackoff = 80
    MaxBackoff = 200
    CallerModes = {"OBSERVE", "SOUNDCHECK"}
    RevisionParses = {TRUE, FALSE}
    MaxWrites = 2
INVARIANTS
    TypeOK
    UnlockedMeansReconciled
    UnlockedOutsideEmergency
    BackoffBounded
PROPERTIES
    GateSpec
    UnlocksAfterAnswers
    CallsReturn
