\* Six jobs through a channel of two and a park of two.
SPECIFICATION FairSpec
CONSTANTS
    MaxJob = 6
    Cap = 2
    ParkMax = 2
INVARIANTS ParkedHasWake CompletionHasWake ParkInOrder
PROPERTY ParkEmpties
CHECK_DEADLOCK FALSE
