\* Six timers at once in six slots, removed from the middle of the heap as well
\* as from its top, while the clock stands still, and five while it moves;
\* the shortest and the longest delay, which passes the end of time from any later moment.
SPECIFICATION Spec
CONSTANTS
    Delay = {0, 2}
    MaxSlots = 6
    GenMod = 8
    TimeMax = 2
    MaxClock = 2
    MaxTimers = 6
    MaxLate = 5
CHECK_DEADLOCK FALSE
INVARIANTS HeapSound
PROPERTIES ImplementsTimerService
