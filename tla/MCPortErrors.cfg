SPECIFICATION FairSpec
CONSTANTS
    A = A
    U = U
    Device <- MCDevice
    AliasOf <- MCAliasOf
    NameOf <- MCNameOf
    Bus <- MCBus
    Counter = {rx}
    MaxCount = 2
    NoSnapshot = NoSnapshot
    NoEpisode = NoEpisode
    NoRecovery = NoRecovery
INVARIANTS TypeOK ReportedErrorsHappened
PROPERTY CountersAreFollowed
