CONSTANTS
    Word = 6
    PageSize = 1
    MaxRegions = 3
    Nomap = Nomap
    FlagBits = {Nomap}
    Aligns = {1, 2}
    AllocSizes = {1, 2}
    Limits = {}
    Directions = {}
SPECIFICATION SpecTrim
INVARIANT NoTotalWhenEmpty
