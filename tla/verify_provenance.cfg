SPECIFICATION Spec
CONSTANTS
    tagged = tagged
    retagged = retagged
    untagged = untagged
    other = other
    Builds <- MCBuilds
    Version <- MCVersion
    Tag <- MCTag
    NoTag = NoTag
    Absent = Absent
    Torn = Torn
INVARIANTS
    VerifiedTrue
