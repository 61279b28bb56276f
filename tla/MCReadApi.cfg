SPECIFICATION ReadApiSpec
CONSTANTS
    e1 = e1
    e2 = e2
    Transactions <- MCTransactions
    Scope <- MCScope
    Scheme = "dept"
    Exports = {e1, e2}
    Readers = {"r1"}
    Nodes <- MCNodes
    PageSize = 2
    DefaultLimit = 1
    MaxLimit = 3
    IdRank <- MCRank
SYMMETRY ExportSymmetry
CONSTRAINT ReadersOrExports
CHECK_DEADLOCK FALSE
INVARIANTS
    TypeOK
    ExportIsClosed
    DuckMirrorsStore
    RegisteredIsFetchable
    LaterExportsHoldMore
    PagerMissesNothing
    QueriesAgree
