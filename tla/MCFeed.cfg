CONSTANTS
    MaxDoc = 4
    UINT_MAX = 3
    FileBuffer = 2
    Nested <- MCNested
SPECIFICATION Spec
INVARIANTS SameLines NestedComplete
