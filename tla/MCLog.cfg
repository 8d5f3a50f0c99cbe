CONSTANTS
    workernum = 2
    MaxRot = 4
    Cap = 2
    None = None
    Env = {"openfail", "nofile", "workerdies", "masterdies"}
SPECIFICATION FairSpec
INVARIANTS
    TypeOK
    OwnsItsLog
    NeverOlder
    SameLog
PROPERTY
    FollowsRotation
CHECK_DEADLOCK FALSE
