SPECIFICATION IdsSpec
CONSTANTS
    Cpus = {1}
    MaxOrder = 1
    Ranges <- OneZone
    Reserved = {}
    Batch = 1
    High = 1
    MaxRef = 1
    MaxOwned = 1
    Exclusive = TRUE
    None = None
    Null = Null
    Poison = Poison
    IdaWaits = {"bitmap", "node"}
INVARIANTS
    IndexExact
