\* Five kinds of script: a Worker with messages both ways beside timers, a Worker
\* that sends beside signals or a watched file, a Worker with a call of its own
\* beside two calls that share the one thread with it, and two watched files
\* beside timers.
SPECIFICATION FairSpec
CONSTANTS
    Worker = {w1}
    Fiber = {f1, f2}
    WorkerCall = {c1}
    File = {d1, d2}
    Sizes = {1, 2}
    QueueMax = 2
    Batch = 2
    MaxThreads = 1
    MaxTimers = 1
    MaxSignals = 1
    MaxTrips = 2
    MaxKicks = 2
    Scripts = {{"worker", "port", "post", "timer"}, {"worker", "port", "signal"}, {"worker", "port", d1}, {"worker", "fiber"}, {d1, d2, "timer"}}
INVARIANTS PipesSound EndOwesNothing BatchIsCurrent
CHECK_DEADLOCK FALSE
PROPERTIES StrandedByWorkersOnly MessagesServed FibersReturn ShutdownEnds
