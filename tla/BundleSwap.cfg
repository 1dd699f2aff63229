SPECIFICATION FairSpec
CONSTANTS
    MaxGen = 4
    MaxFaults = 3
INVARIANTS
    TypeOK
    NeverTorn
PROPERTIES
    KeepsNewest
    ForeignStays
    ComesBack
