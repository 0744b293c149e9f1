SPECIFICATION Spec
CONSTANTS
    Branches = {1, 2}
    Products = {p1}
    Days = 2
    Moments = 4
    Schedules <- MCSchedules
    Served = {1}
    Metres <- MCDistance
    Degrees <- MCDistance
    None = None
    p1 = p1
    j1 = j1
    j2 = j2
    Jobs = {j1, j2}
SYMMETRY MCSymmetry
INVARIANTS HoursAgree OneAnswer KeptAsAsked
