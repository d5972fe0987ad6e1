\* A UDP socket disposed in its own callback has left its hook behind.
SPECIFICATION Spec
CONSTANTS
    User = {u1}
    POOL = POOL
    GRAVE = GRAVE
    MaxDepth = 1
    Notick = TRUE
    NFd = 1
    MaxListen = 1
    TimerFails = FALSE
    AddFails = FALSE
INVARIANT HookTicks
CHECK_DEADLOCK FALSE
