SPECIFICATION FairSpec
CONSTANTS
    Status = {good, bad}
    Unavailable = Unavailable
    Empty = Empty
    Cut = Cut
    Inode = {1, 2, 3}
    NoInode = NoInode
INVARIANT TypeOK
PROPERTIES StatusIsAtomic PageCatchesUp
