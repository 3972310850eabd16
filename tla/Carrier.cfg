SPECIFICATION Spec
CONSTANTS
    Proc = {p1, p2, p3}
    Ring = {r1, r2}
    NoRing = NoRing
    NoProc = NoProc
INVARIANTS TypeOK OneTrigger OneRing EarlyTripKept TripTakesEffect TrippedIsSeen NoRingLeaks ReleasedIsNoScope
PROPERTY ImplementsSharedScope
