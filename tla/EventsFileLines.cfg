SPECIFICATION Spec
CONSTANTS
    MaxEvents = 2
    MaxRecords = 4
    Limit = 2
INVARIANT EveryLineParses
