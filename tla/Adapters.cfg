SPECIFICATION Spec
CONSTANTS
    Proc = {p1, p2}
    Options <- MCOptions
    Defaults <- MCDefaults
    DefaultCapacity = 2
    Level = {0, 1, 2}
    MaxScopes = 2
    MaxOpen = 2
    MaxEvents = 4
CHECK_DEADLOCK FALSE
SYMMETRY Symmetry
INVARIANTS TypeOK OneScopePerOperation ReplayIsOneSequence NoticePrecedesItsBatch BudgetIsShared BelowLevelNeedsOwnTrip
