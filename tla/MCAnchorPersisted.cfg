SPECIFICATION Spec
CONSTANTS
    r1 = r1
    r2 = r2
    c1 = c1
    c2 = c2
    v1 = v1
    Runs = {r1, r2}
    Published <- MCPublished
    Malformed <- MCMalformed
    Clis = {c1, c2}
    Verifiers = {}
CHECK_DEADLOCK FALSE
INVARIANT
    AnchoredIsPersisted
