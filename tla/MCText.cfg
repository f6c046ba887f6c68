SPECIFICATION AnySpec
SYMMETRY Symmetry
CONSTANTS
    Cpus = {c1, c2}
    BufLen = 20
    Hdr = 2
    Align = 2
    LineMax = 4
    TextMax = 7
    PrefixLen = 1
    NoticeLen = 3
    TruncLen = 1
    LogLevel = 1
    Messages <- SomeMessages
    MaxSeq = 4
CHECK_DEADLOCK FALSE
INVARIANTS
    LogExact
    TextExact
PROPERTIES
    LogShown
