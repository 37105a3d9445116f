CONSTANTS
    Nodes = {a, b, c, d, e}
    ArenaNodes = {e}
    NULL = NULL
    MemOf <- Mems
    TypesUsed = {"custom_block", "item"}
    SelfSibling = FALSE
SYMMETRY SameAllocator
SPECIFICATION Spec
INVARIANT LinksOK
PROPERTIES ImplementsForest ContainmentKept
