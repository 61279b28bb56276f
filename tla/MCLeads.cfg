SPECIFICATION Spec
CONSTANTS
    r1 = r1
    r2 = r2
    c1 = c1
    c2 = c2
    Transactions <- MCTransactions
    Partition <- MCPartition
    Dept = "dept"
    Acq = "acq"
    MinGroupTotal = 8
    MinFactCount = 2
    MinGroupVendors = 2
    MinSharePercent = 50
    Unsayable = {3}
    Runs = {r1, r2}
    Calls = {c1, c2}
SYMMETRY LeadsSymmetry
CHECK_DEADLOCK FALSE
INVARIANTS
    TypeOK
    LastWordStands
    EvidenceHasOneLead
    EvidenceIsConsistent
