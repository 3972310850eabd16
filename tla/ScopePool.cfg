SPECIFICATION Spec
CONSTANTS
    ScopeId = {s1, s2}
    Box = {b1, b2}
    Entry = {x, y}
    Zero = Zero
    NoBox = NoBox
    CapacityArg = 0
    PostTripArg = 1
    DefaultCapacity = 2
    MaxBuffered = 3
    MaxPassed = 2
INVARIANTS TypeOK OwnedOnce HeldIsNewest RetainsOnlyHeld
PROPERTY ImplementsRecorder
