\* A Worker that ends between the loop's two looks at the live Workers.
SPECIFICATION Spec
CONSTANTS
    Worker = {w1}
    Fiber = {f1}
    WorkerCall = {}
    File = {}
    Sizes = {1}
    QueueMax = 1
    Batch = 1
    MaxThreads = 1
    MaxTimers = 0
    MaxSignals = 0
    MaxTrips = 0
    MaxKicks = 0
    Scripts = {{"worker", "port"}}
INVARIANT SleepIsWoken
CHECK_DEADLOCK FALSE
