SPECIFICATION Spec
CONSTANTS
    NoSnapshot = NoSnapshot
    NoEpisode = NoEpisode
    NoRecovery = NoRecovery
    Snapshot <- MCSnapshot
INVARIANTS
    TypeOK
    EpisodeMatchesLosses
    RecoveryIsAccurate
PROPERTIES
    FaultsAreTracked
    EpisodesEndInRecovery
