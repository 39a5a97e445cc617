SPECIFICATION Spec
CONSTANTS
    high = high
    low = low
    Paths <- MCPaths
    Values <- MCValues
    Renewal = 1
    Lifetime = 3
    Timeout = 1
    MaxRevision = 3
    MaxReaders = 2
    None = None
SYMMETRY Alike
INVARIANTS
    TypeOK
    NewestAnswerWins
    CurrentEntryIsTrue
    UnlockedMeansSubscribed
