CONSTANTS
    Raw <- MCRaw
    normalize <- MCNormalize
    BadLength = {"overlong"}
    Labels = {1, 2}
    Sizes = {3}
    Totals = {0, 6}
    AlwaysAllowed = 4
    SIZE_MAX = 15
    UINT_MAX = 7
    MaxEntries = 4
    NULL = NULL
SPECIFICATION Spec
INVARIANTS SortedFirsts ExpansionBounded
PROPERTY ImplementsRefDict
