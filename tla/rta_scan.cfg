SPECIFICATION FairSpec
CONSTANTS
    mic = mic
    main = main
    aux = aux
    Unknown = Unknown
    Sources <- MicMainAux
    Refused <- AuxRefused
    ScanLists <- OneOrTwo
    InitialSources <- MicOrUnknown
    MaxScans = 2
    MaxManual = 1
INVARIANTS
    TypeOK
    RestoredIsOriginal
    NothingLeftBehind
    AlwaysPutBack
PROPERTIES
    ScanEnds
