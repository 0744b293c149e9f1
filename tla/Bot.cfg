SPECIFICATION Spec
CONSTANTS
    Web = {w1}
    Presses = {p1, p2}
    NoJob = NoJob
    NoOne = NoOne
    Requests <- MCRequests
    TermsOffered <- MCTerms
    Found <- MCFound
    Capacity = 3
    MaxRequests = 1
    MaxPresses = 2
PROPERTIES LockedPresses PressAnswered
CHECK_DEADLOCK FALSE
