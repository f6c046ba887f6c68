SPECIFICATION Spec
SYMMETRY Symmetry
CONSTANTS
    NumCpus = 2
    Mms = {m1, m2, m3, m4}
    NoMm = NoMm
    NumAsids = 4
    MaxGeneration = 3
CHECK_DEADLOCK FALSE
INVARIANTS
    NoStaleTranslation
    AsidsDistinct
    InvalidationReaches
    IInv
