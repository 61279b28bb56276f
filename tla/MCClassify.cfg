SPECIFICATION Spec
CONSTANTS
    l1 = l1
    l2 = l2
    l3 = l3
    Documents <- MCDocuments
    Scope <- MCScope
    Loaders = {l1, l2, l3}
    Mappings <- MCMappings
    HumanCodes = {3, 9}
    MaxHuman = 1
SYMMETRY LoaderSymmetry
CHECK_DEADLOCK FALSE
INVARIANTS
    TypeOK
    NeverInvented
    ReapplyInsertsNothing
    MappingTakesEffect
PROPERTY
    ViewDropsNothing
