CONSTANTS
    Cpus = {1, 2, 3}
    Handlers = {1, 2}
SPECIFICATION FairSpec
INVARIANTS
    Exclusion
    CntsExact
PROPERTIES
    NotOvertaken
    Served
