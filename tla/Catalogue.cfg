SPECIFICATION SpecMenu
CONSTANTS
    ProductIds = {1, 2, 3}
    BranchIds = {1, 2, 3}
    CategoryIds = {1, 2, 3}
    NoKey = NoKey
    j1 = j1
    j2 = j2
    j3 = j3
    i1 = i1
    Items = {i1}
    Workers <- MCWorkers
SYMMETRY MCSymmetry
CHECK_DEADLOCK FALSE
INVARIANTS OneRowEach ImportedOnce ImportDelivers
