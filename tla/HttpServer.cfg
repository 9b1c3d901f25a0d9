SPECIFICATION FairServerSpec
CONSTANTS
    Client = {c1, c2, c3}
    Backlog = 2
    MaxSize = 3
INVARIANT ServerTypeOK
PROPERTIES WaitingIsServed StopIsHeeded
CHECK_DEADLOCK FALSE
