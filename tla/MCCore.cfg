SPECIFICATION AnySpec
CONSTANTS
    Cpus = {1, 2}
    MaxOrder = 3
    Ranges <- TwoZones
    Reserved = {9}
    Batch = 2
    High = 2
    MaxRef = 2
    MaxOwned = 1
    Exclusive = TRUE
    None = None
    Null = Null
    Poison = Poison
    IdaWaits = {"bitmap"}
INVARIANTS
    PagesConserved
    PagesMerged
    ObjectsConserved
    SlabsPlaced
    CachesOK
    IndexExact
    OrderExact
    
