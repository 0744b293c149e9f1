SPECIFICATION SpecScreens
CONSTANTS
    Handlers = {h1, h2}
    NoTask = NoTask
    NoOne = NoOne
    Watched = {"institution"}
    Requests <- MCRequests
    ByCard = TRUE
    ByOwn = FALSE
    Capacity = 2
    MaxServed = 2
    FoundRows <- MCFound
INVARIANTS ScreensAgree
PROPERTIES ScreensCatchUp
CHECK_DEADLOCK FALSE
