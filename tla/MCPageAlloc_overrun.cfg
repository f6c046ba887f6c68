SPECIFICATION PagesSpec
CONSTANTS
    Cpus = {1, 2}
    MaxOrder = 3
    Ranges <- OneZone
    Reserved = {}
    Batch = 2
    High = 2
    MaxRef = 1
    MaxOwned = 3
    Exclusive = FALSE
    None = None
    Null = Null
    Poison = Poison
    IdaWaits = {}
INVARIANTS
    NothingBad
