\* Two users, the HTTP client, one listener, UDP sockets buried, drains inside
\* drains, timers and registrations that may be refused.
SPECIFICATION FairSpec
CONSTANTS
    User = {u1, u2}
    POOL = POOL
    GRAVE = GRAVE
    MaxDepth = 2
    Notick = TRUE
    NFd = 1
    MaxListen = 1
    TimerFails = TRUE
    AddFails = TRUE
INVARIANTS AliveIffNeeded LoopWaitsForUsers TimerServesBoth
PROPERTIES HooksHaveTheirTurn PausedIsRetried
CHECK_DEADLOCK FALSE
