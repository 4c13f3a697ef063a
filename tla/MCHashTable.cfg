CONSTANTS
    a1 = a1
    a2 = a2
    b = b
    c = c
    d = d
    v1 = v1
    v2 = v2
    NULL = NULL
    None = None
    NoElement = NoElement
    Key <- MCKey
    Value <- MCValue
    Class <- MCClass
    hash_fn <- MChash_fn
    InitSizes = {2, 4, 8}
    MaxSizes = {4, 8}
    SIZE_MAX = 15
SYMMETRY Symmetry
SPECIFICATION Spec
INVARIANTS OwnershipExact IterationExact
PROPERTY ImplementsMap
\* A table that was cleaned up is not used again.
CHECK_DEADLOCK FALSE
