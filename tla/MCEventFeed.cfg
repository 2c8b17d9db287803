SPECIFICATION FairSpec
CONSTANTS
    r1 = r1
    NoRun = NoRun
    Runs = {r1}
    Readers = {k1, k2}
    Follows <- FollowsRun
    StreamLimit = 2
    PerRunLimit = 1
    PageSize = 1
    MaxEvents = 2
    MaxFaults = 1
INVARIANTS
    LogIsPrefix
    PermitsAccounted
PROPERTIES
    OnlyDetachedTears
    FollowerCatchesUp
