\* Two descriptor numbers shared by three files and the timer.
SPECIFICATION FairSpec
CONSTANTS
    Fd = {f, g}
    MaxOpen = 3
    MaxGen = 4
    NULL = NULL
INVARIANTS
    KernelAgrees
    NoStaleDelivery
PROPERTIES
    ReadyIsServed
