SPECIFICATION Spec
CONSTANTS
    p1 = p1
    p2 = p2
    fader = fader
    gain = gain
    send = send
    NoValue = NoValue
    Nobody = Nobody
    Proposals <- TwoProposals
    Paths <- FaderPaths
    ActionOf <- FaderAction
    InitialValue <- FaderAtMinus10
    Values <- TwoLevels
    Plans <- FaderUpOrDown
    HostModes = {"SOUNDCHECK"}
    DiskOutcomes = {TRUE}
    MaxManual = 1
    MaxRollbacks = 0
SYMMETRY Interchangeable
INVARIANTS
    ExecutionAudited
PROPERTIES
    ManualChangeBlocksWrite
    EmergencyClosesWhatStood
