\* All lists of up to five transactions of two kinds, and every question about them.
SPECIFICATION Spec
CONSTANTS
    t1 = t1
    t2 = t2
    Claims = {t1, t2}
    MaxLength = 5
    Lists <- MCLists
    Indices <- MCIndices
INVARIANTS
    TypeOK
    ProofVerifies
    AcceptedIsIncluded
    RootIsReference
    CollisionsRepeatTheEnd
SYMMETRY Symmetry
CHECK_DEADLOCK FALSE
