CONSTANTS
    None = None
    Labels = {1, 2}
    Accounts = {x, y}
    MaxGen = 4
    ApiWorkers = {w1}
    Refreshers = {r1, r2}
    Requests <- AllRequests
    MaxFaults = 1
    MaxRequests = 1
    Before = 2
SPECIFICATION Spec
SYMMETRY Symmetry
INVARIANTS TypeOK RefusalExplained ActiveFollowsRefresh
PROPERTIES  FlagTruthful
