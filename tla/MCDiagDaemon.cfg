SPECIFICATION Spec
CONSTANTS
    NoSnapshot = NoSnapshot
    NoEpisode = NoEpisode
    NoRecovery = NoRecovery
    NoTime = NoTime
    NoSample = NoSample
    NoDiagnosis = NoDiagnosis
    NoBoundary = NoBoundary
    NoReport = NoReport
    Snapshot <- MCSnapshot
    PortResult <- MCPortResult
    Sample <- MCSample
    Window = 1
    Cooldown = 2
    MaxFrames = 2
INVARIANTS
    TypeOK
    WindowIsComplete
    CooldownEndsWithEpisode
    MasterBlamedOnlyWhenDown
    LossIsReported
PROPERTIES
    ProbeNextToBreak
    ProbesAreSpaced
    FirstBreakIsProbed
