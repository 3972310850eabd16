---------------------------- MODULE SharedScope ----------------------------
(* What a context's scope promises to every goroutine and adapter that uses   *)
(* it: one ring at most, which never changes; one trip at most, claimed by    *)
(* one caller; a release that is final, after which no ring appears and the   *)
(* ring there was goes back to its pool once.  Modules Carrier and Handler    *)
(* implement it (Carrier!ImplementsSharedScope, Handler!KeepsSharedScope).    *)
EXTENDS Integers

CONSTANTS Ring,   \* the rings a pool can hand out
          NoRing  \* no ring yet

VARIABLES ring,      \* the operation's ring
          tripped,   \* whether the operation has failed
          triggers,  \* the callers told that theirs was the failure
          closed,    \* whether the operation has ended
          released   \* whether its ring went back to the pool

vars == <<ring, tripped, triggers, closed, released>>

Init ==
    /\ ring = NoRing
    /\ tripped = FALSE
    /\ triggers = 0
    /\ closed = FALSE
    /\ released = FALSE

Attach ==
    /\ ring = NoRing /\ ~closed
    /\ ring' \in Ring
    /\ UNCHANGED <<tripped, triggers, closed, released>>

\* A call that found the scope open may still trip the ring it has in hand until
\* that ring is released.
Trip ==
    /\ ~tripped /\ ~released
    /\ ~closed \/ ring # NoRing
    /\ tripped' = TRUE
    /\ triggers' = triggers + 1
    /\ UNCHANGED <<ring, closed, released>>

Close ==
    /\ ~closed
    /\ closed' = TRUE
    /\ UNCHANGED <<ring, tripped, triggers, released>>

Release ==
    /\ closed /\ ~released /\ ring # NoRing
    /\ released' = TRUE
    /\ UNCHANGED <<ring, tripped, triggers, closed>>

Next == Attach \/ Trip \/ Close \/ Release

Spec == Init /\ [][Next]_vars
=============================================================================
