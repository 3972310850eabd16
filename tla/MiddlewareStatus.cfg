SPECIFICATION Spec
CONSTANTS
    Helper = {}
    Layers = 1
    Limit = 0
    MaxRecords = 2
CHECK_DEADLOCK FALSE
INVARIANT StatusIsTheClients
