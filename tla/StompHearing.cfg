SPECIFICATION FairSpec
CONSTANTS
    MaxKeys = 3
    MaxOther = 2
    MaxTroubles = 1
    MaxVanish = 1
CHECK_DEADLOCK FALSE
INVARIANTS TypeOK WindowIsRight
PROPERTIES Settles
