SPECIFICATION Spec
CONSTANTS
    Nodes = {n1, n2, n3, n4}
    Items = {a, b}
    Null = Null
    Ops = {"Add", "PushBack", "PopFront", "Remove"}
    Guarded = TRUE
SYMMETRY MCSymmetry
INVARIANTS
    ChainSound
PROPERTIES
    ImplementsSequence
