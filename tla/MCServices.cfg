SPECIFICATION Spec
CONSTANTS
    c1 = c1
    c2 = c2
    BitmapBits = 3
    NrIrqs = 2
    Legacy = 0
    Doms <- Domains
    Boards <- TwoBoards
    Hwirqs = {0, 1}
    MaxIrqs = 2
    None = "none"
INVARIANTS
    HandlerExclusive
    
    SoftirqKept
    CallsExact
    ReferencesExact
    
CHECK_DEADLOCK FALSE

    
    
