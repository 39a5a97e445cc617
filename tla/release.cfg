SPECIFICATION FairSpec
CONSTANTS
    a = a
    b = b
    p = p
    Commits <- MCCommits
    Tags <- MCTags
    Version <- MCVersion
    TagVersion <- MCTagVersion
    Pre <- MCPre
    Junk = Junk
    None = None
    Local = b
    MaxRedirects = 1
    MaxMoves = 2
INVARIANTS
    TypeOK
    AcceptedIsRequested
    RecordedCommitIsTree
PROPERTY
    BootstrapEnds
