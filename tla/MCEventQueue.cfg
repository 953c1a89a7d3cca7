SPECIFICATION Spec
CONSTANTS
    Nodes = {n1, n2, n3}
    Items = {a}
    Null = Null
    Ops = {"Add"}
    Guarded = FALSE
INVARIANT
    ChainAllocated
