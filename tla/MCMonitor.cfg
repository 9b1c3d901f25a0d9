SPECIFICATION FairSpec
CONSTANTS
    Bus <- MCBus
    MaxSlaves = 3
    Masters <- MCMasters
    Interval = 3
    Quick = 2
    MaxBehind = 5
    NoSnapshot = NoSnapshot
    NoEpisode = NoEpisode
    NoRecovery = NoRecovery
INVARIANTS TypeOK UnmovedAreReadExactly NeverEarly
PROPERTIES EveryMasterIsRead CatchesUp
CHECK_DEADLOCK FALSE
