SPECIFICATION FairSpec
CONSTANTS
    Versions = {1, 2}
    FileSize = 3
    BufLen = 2
    MaxFaults = 3
CHECK_DEADLOCK FALSE
INVARIANTS
    HashFollowsFile
    ValidIsWhole
PROPERTIES
    EventuallyUpgraded
