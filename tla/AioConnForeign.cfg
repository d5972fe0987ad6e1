\* A callback that closes the descriptor and opens another connection on it.
SPECIFICATION Spec
CONSTANTS
    MaxSub = 3
    MaxLife = 2
    Quota <- Three
    Lens = {2}
    FileLens = {2}
    TagOf <- ThreeTags
    Room = 1
    FileCancel = FALSE
INVARIANT NoForeignError
CHECK_DEADLOCK FALSE
