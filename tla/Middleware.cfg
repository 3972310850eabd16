SPECIFICATION Spec
CONSTANTS
    Helper = {h1, h2}
    Layers = 2
    Limit = 1
    MaxRecords = 4
CHECK_DEADLOCK FALSE
INVARIANTS TypeOK FailureIsReplayed CleanIsSilent AnchoredOnce HeadlessOnlyIfBareOrSpent BatchBeforeAnchor
