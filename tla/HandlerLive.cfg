SPECIFICATION FairSpec
CONSTANTS
    Proc = {p1, p2}
    Capacity = 1
    Limit = 1
    MaxRecords = 3
PROPERTIES ReplayCompletes RecordsSettle
