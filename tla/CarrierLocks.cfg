SPECIFICATION Spec
CONSTANTS
    Proc = {p1, p2}
    Ring = {r1, r2}
    NoRing = NoRing
    NoProc = NoProc
INVARIANT NeverHeldTogether
