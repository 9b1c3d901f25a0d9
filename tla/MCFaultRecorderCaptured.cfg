SPECIFICATION Spec
CONSTANTS
    Capacity = 2
    PostFaultCapacity = 1
    NoEvent = NoEvent
    NoFile = NoFile
    Clock <- MCClock
    MaxSnapshots = 5
    MaxBoots = 1
INVARIANTS
    EveryFaultCaptured
CHECK_DEADLOCK FALSE
