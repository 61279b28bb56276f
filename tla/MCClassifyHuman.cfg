SPECIFICATION Spec
CONSTANTS
    l1 = l1
    l2 = l2
    l3 = l3
    Documents <- MCDocuments
    Scope <- MCScope
    Loaders = {l1}
    Mappings <- MCMappings
    HumanCodes = {3, 9}
    MaxHuman = 1
CHECK_DEADLOCK FALSE
PROPERTY
    HumanIsKept
