\* The highest CPU number the build admits, with every context.
CONSTANTS
    Cpus = {0, 16382}
    NrCpus = 16383
SPECIFICATION Spec
INVARIANTS
    NodeIntact
    TailsUnambiguous
