SPECIFICATION Spec
CONSTANTS
    p1 = p1
    p2 = p2
    fader = fader
    gain = gain
    send = send
    NoValue = NoValue
    Nobody = Nobody
    Proposals <- OneProposal
    Paths <- PairPaths
    ActionOf <- PairActions
    InitialValue <- PairAtMinus10
    Values <- TwoLevels
    Plans <- PairPlan
    HostModes = {"SOUNDCHECK", "LIVE"}
    DiskOutcomes = {TRUE, FALSE}
    MaxManual = 1
    MaxRollbacks = 1
INVARIANTS
    TypeOK
    WritesOnceInOrder
    VerifiedMeansReadBack
    WriterIsClosed
PROPERTIES
    TransactionSpec
