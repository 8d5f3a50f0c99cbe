CONSTANTS
    B = 2
    Usec = 3
    MaxLen = 10
    MaxSec = 2
    MaxReplies = 3
SPECIFICATION Spec
INVARIANTS
    TypeOK
    ChecksumVerifies
    RttExact
    StatisticsRight
CHECK_DEADLOCK FALSE
