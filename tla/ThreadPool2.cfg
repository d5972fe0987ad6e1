\* Two threads, two channels, three jobs in rings of two.
SPECIFICATION Spec
CONSTANTS
    Worker = {w1, w2}
    Chan = {a, b}
    JobId = {j1, j2, j3}
    Cap = 2
    NULL = NULL
SYMMETRY Symmetry
INVARIANTS
    ChanAccounting
    PoolAccounting
    RingsFit
    NoDanglingChan
    WakeNotLost
    WorkConserving
    CloseNotStuck
    StopDrains
PROPERTIES
    ImplementsJobService
