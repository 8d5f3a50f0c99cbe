CONSTANTS
    Ids = {1, 2, 3}
    Texts <- MCTexts
    StartConfs <- MCStartConfs
    None = None
    DiskFull = TRUE
SPECIFICATION FairSpec
INVARIANTS
    TypeOK
    NothingComesBack
PROPERTIES
    RestartLosesOnlyTail
    EventuallySaved
