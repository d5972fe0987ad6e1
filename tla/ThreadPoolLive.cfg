\* Fair scheduling, every job returns: two threads, two channels.
SPECIFICATION FairSpec
CONSTANTS
    Worker = {w1, w2}
    Chan = {a, b}
    JobId = {j1, j2}
    Cap = 2
    NULL = NULL
PROPERTIES
    JobsRun
    JobsReported
