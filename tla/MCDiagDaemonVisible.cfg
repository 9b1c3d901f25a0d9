SPECIFICATION Spec
CONSTANTS
    NoSnapshot = NoSnapshot
    NoEpisode = NoEpisode
    NoRecovery = NoRecovery
    NoTime = NoTime
    NoSample = NoSample
    NoDiagnosis = NoDiagnosis
    NoBoundary = NoBoundary
    NoReport = NoReport
    Snapshot <- MCSlowSnapshot
    PortResult <- NoPortErrors
    Sample <- MCSample
    Window = 10
    Cooldown = 10
    MaxFrames = 4
INVARIANTS
    FaultStaysVisible
