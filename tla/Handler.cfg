SPECIFICATION Spec
CONSTANTS
    Proc = {p1, p2, p3}
    Capacity = 2
    Limit = 1
    MaxRecords = 3
SYMMETRY Symmetry
INVARIANTS TypeOK ReplayFollowsScript BelowLevelNeedsTrip WrittenOnce TriggerAfterBatch OwedUnlessBudgetSpent BudgetBoundsOutput NothingBufferedLate
PROPERTY KeepsSharedScope
