SPECIFICATION MCSpec
CONSTANTS
    Transactions = {1, 2, 3}
    Window = 4
    Slide = 2
    MaxTime = 12
    None = None
    MinSupport = 1
    ConfirmWindows = 2
    InactiveToClose = 2
    Cooldown = 3
    BaselineSpan = 4
    Day = 8
    MaxLives = 3
    Fallbacks = {"anomaly"}
INVARIANTS
    WindowsAreExact
    GridIsCovered
    AlertsFollowTheWindows
    BaselineIsQuiet
    ScoresAreComparable
    OnlyFailuresDropWindows
    AlertsAreAccountedFor
CHECK_DEADLOCK FALSE
