\* The facilities of dyna:async alone, in pairs that share the queue of promise
\* jobs, and under withTimeout.
SPECIFICATION FairSpec
CONSTANTS
    Task = {t1, t2, t3, t4}
    Permits = 2
    Cap = 2
    Slots = 2
    Concurrency = 2
    Items = 4
    Retries = 2
    Window = 2
    MaxSends = 5
    MaxJobs = 4
    MaxCalls = 4
    MaxClock = 7
    Scripts = {{"sem", "timeout"}, {"chan", "timeout"}, {"chan"}, {"pool"}, {"pool", "retry"}, {"pmap", "retry"}, {"debounce"}, {"throttle"}}
INVARIANTS NoQueueJumping ChannelInOrder CallsAsPromised
CHECK_DEADLOCK FALSE
PROPERTIES AsyncSettles
