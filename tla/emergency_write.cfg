SPECIFICATION Spec
CONSTANTS
    p1 = p1
    p2 = p2
    fader = fader
    gain = gain
    send = send
    NoValue = NoValue
    Nobody = Nobody
    Proposals <- OneProposal
    Paths <- FaderPaths
    ActionOf <- FaderAction
    InitialValue <- FaderAtMinus10
    Values <- TwoLevels
    Plans <- FaderUp
    HostModes = {"SOUNDCHECK"}
    DiskOutcomes = {TRUE}
    MaxManual = 0
    MaxRollbacks = 0
PROPERTIES
    NoWriteInEmergency
