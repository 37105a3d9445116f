CONSTANTS
    Documents <- AllDocuments
    NULL = NULL
SPECIFICATION Spec
INVARIANTS StacksInTree MarkersConserved NoOneSidedOpenerMissed
PROPERTIES BracketsIsolate EmphasisEnds
