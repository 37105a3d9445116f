CONSTANTS
    Nodes = {1, 2, 3, 4, 5, 6, 7}
    NULL = NULL
    Size = 5
    Changes = 2
SPECIFICATION Spec
INVARIANT NextIsLive
PROPERTIES FreesSubtree EventsNest TextPreserved WalkEnds
