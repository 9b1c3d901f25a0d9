SPECIFICATION Spec
CONSTANTS
    Capacity = 3
    PostFaultCapacity = 2
    NoEvent = NoEvent
    NoFile = NoFile
    Clock <- MCClock
    MaxSnapshots = 5
    MaxBoots = 2
INVARIANTS
    TypeOK
    ExactCapture
    EventLineMeansWhole
    OneCapturePerProcess
PROPERTIES
    EvidenceKept
CHECK_DEADLOCK FALSE
