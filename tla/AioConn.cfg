\* Four submissions of two units, any of them a file body, which may be empty
\* too, with two callbacks, two occupants of the descriptor (the second only
\* while less than three submissions were made), and a send buffer of one unit.
SPECIFICATION FairSpec
CONSTANTS
    MaxSub = 4
    MaxLife = 2
    Quota <- FourThenThree
    Lens = {2}
    FileLens = {0, 2}
    TagOf <- FourTags
    Room = 1
    FileCancel = FALSE
INVARIANTS NothingForgotten SentInTurn OkMeansSent
PROPERTIES EverySendSettles
CHECK_DEADLOCK FALSE
