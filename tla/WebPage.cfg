SPECIFICATION FairPageSpec
CONSTANTS
    Master = {0, 1}
    Stamp = {s1, s2}
    Limit = 2
    MaxRefreshes = 2
    None = None
INVARIANT PageTypeOK
PROPERTIES EventsFollowSelection SilenceIsShown
