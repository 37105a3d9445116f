CONSTANTS
    Documents <- AllDocuments
    MAX_LIST_DEPTH = 3
SPECIFICATION Spec
INVARIANTS OpenSpine TextOnce TightWithoutBreaks
PROPERTIES ClosedForGood LineEnds
