SPECIFICATION Spec
CONSTANTS
    Items <- AskedItems
    MaxAttempts = 1
    InitialBackoff = 50
    MaxBackoff = 200
    CallerModes = {"OBSERVE", "SOUNDCHECK"}
    RevisionParses = {TRUE}
    MaxWrites = 2
PROPERTIES
    EmergencyEndsInReconciliation
