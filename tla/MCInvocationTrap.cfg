CONSTANTS
    Funcs = {"f", "g"}
    Calls = {"c1", "c2", "c3"}
    Target <- MCTarget
    Parent <- MCParent
    NoCall = NoCall
    StreamParam = {"c1"}
    StreamResult = {"c3"}
    FrameResult = {"c1", "c2"}
    ReadsToEnd = {"f"}
    HasTimeout = TRUE
SPECIFICATION Spec
INVARIANT OkImpliesReturned
CHECK_DEADLOCK FALSE
