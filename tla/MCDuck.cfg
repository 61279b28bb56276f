SPECIFICATION FairSpec
CONSTANTS
    Exports = {"e1", "e2"}
    Artifacts = {"facts1", "facts2", "codes"}
    Files <- MCFiles
    Requests = {"q1", "q2", "q3"}
CHECK_DEADLOCK FALSE
INVARIANTS
    TypeOK
    TornOnlyWhileWritten
PROPERTY
    TornHeals
