SPECIFICATION Spec
CONSTANT Nomap = Nomap
INVARIANTS
    RegionsExact
    MemoryExact
    TablesExact
 
CHECK_DEADLOCK FALSE
