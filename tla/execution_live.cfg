SPECIFICATION FairSpec
CONSTANTS
    p1 = p1
    p2 = p2
    fader = fader
    gain = gain
    send = send
    NoValue = NoValue
    Nobody = Nobody
    Proposals <- OneProposal
    Paths <- DeskPaths
    ActionOf <- DeskActions
    InitialValue <- DeskAtMinus10
    Values <- TwoLevels
    Plans <- DeskPlans
    HostModes = {"SOUNDCHECK", "LIVE"}
    DiskOutcomes = {TRUE}
    MaxManual = 0
    MaxRollbacks = 1
PROPERTIES
    WrittenSettles
    CallsReturn
