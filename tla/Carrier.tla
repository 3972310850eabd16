------------------------------ MODULE Carrier ------------------------------
(* The shared scope of one context, internal/core/carrier.go: any number of   *)
(* goroutines bind its ring, trip it, ask about it and close it at once.      *)
(*                                                                            *)
(* The grain is the one the Go memory model gives: a step is one atomic load  *)
(* outside the mutexes, one mutex acquisition, or the part of a critical      *)
(* section up to its one atomic store (no section writes more than one of the *)
(* atomics other goroutines read lock-free).  c.mu is the carrier's mutex,    *)
(* smu[r] that of the engine behind ring r, of which only what Trip and Close *)
(* decide is kept here: module Scope has the rest.                            *)
EXTENDS Integers, FiniteSets

CONSTANTS Proc,    \* the goroutines
          Ring,    \* the scopes the pool can build
          NoRing,  \* a nil *Scope
          NoProc   \* an unlocked mutex

ASSUME NilAssumption == NoRing \notin Ring /\ NoProc \notin Proc

VARIABLES
    mu, scope, preTripped, closed,  \* the Carrier
    smu, tripped, shut,             \* per ring: Scope.mu, tripState, closed
    made,                           \* the scopes taken from the pool
    pc, call,                       \* where each goroutine is, in which call
    got,                            \* the scope it has in hand, or returned
    answer,                         \* the boolean it returned
    wins,                           \* history: how many calls were told they tripped
    began                           \* history: what held when the call began

carrierVars == <<mu, scope, preTripped, closed>>
ringVars == <<smu, tripped, shut, made>>
callVars == <<pc, call, got, answer, wins, began>>
vars == <<carrierVars, ringVars, callVars>>

Call == {"Bind", "Bound", "Trip", "Tripped", "Close"}

\* Where the code of each call stands.
BindAt == {"bindClosed", "bindScope", "bindLock", "bindRecheck", "bindTripLock",
           "bindTrip", "bindStore"}
TripAt == {"markClosed", "markScope", "markLock", "markRecheck", "flushLock",
           "flushTrip"}
TrippedAt == {"askClosed", "askPre", "askScope", "askRing"}
BoundAt == {"boundClosed", "boundScope"}
CloseAt == {"closeLock", "closeStore", "shutLock", "shutRing"}
At == {"idle"} \cup BindAt \cup TripAt \cup TrippedAt \cup BoundAt \cup CloseAt

\* The operation has failed, wherever that is recorded.
HasTripped == preTripped \/ \E r \in Ring : tripped[r]

Init ==
    /\ mu = NoProc
    /\ scope = NoRing
    /\ preTripped = FALSE
    /\ closed = FALSE
    /\ smu = [r \in Ring |-> NoProc]
    /\ tripped = [r \in Ring |-> FALSE]
    /\ shut = [r \in Ring |-> FALSE]
    /\ made = {}
    /\ pc = [p \in Proc |-> "idle"]
    /\ call = [p \in Proc |-> "Bound"]
    /\ got = [p \in Proc |-> NoRing]
    /\ answer = [p \in Proc |-> FALSE]
    /\ wins = 0
    /\ began = [p \in Proc |-> [tripped |-> FALSE, closed |-> FALSE]]

-----------------------------------------------------------------------------
(* Steps of a call. *)

Entry(c) == CASE c = "Bind" -> "bindClosed"
              [] c = "Bound" -> "boundClosed"
              [] c = "Trip" -> "markClosed"
              [] c = "Tripped" -> "askClosed"
              [] c = "Close" -> "closeLock"

Start(p, c) ==
    /\ pc[p] = "idle"
    /\ pc' = [pc EXCEPT ![p] = Entry(c)]
    /\ call' = [call EXCEPT ![p] = c]
    /\ got' = [got EXCEPT ![p] = NoRing]
    /\ answer' = [answer EXCEPT ![p] = FALSE]
    /\ began' = [began EXCEPT ![p] = [tripped |-> HasTripped, closed |-> closed]]
    /\ UNCHANGED <<carrierVars, ringVars, wins>>

Goto(p, from, to) ==
    /\ pc[p] = from
    /\ pc' = [pc EXCEPT ![p] = to]
    /\ UNCHANGED <<call, began>>

\* A step of p that touches nothing but p's own place and results.
Private == UNCHANGED <<carrierVars, ringVars, wins>>

CheckClosedSkipped(p, from, to) ==
    /\ Goto(p, from, to)
    /\ UNCHANGED <<got, answer>>
    /\ Private
\* if c.closed.Load(): return the zero result, else go on.
CheckClosed(p, from, to) ==
    /\ Goto(p, from, IF closed THEN "idle" ELSE to)
    /\ UNCHANGED <<got, answer>>
    /\ Private

\* s := c.scope.Load()
LoadScope(p) == got' = [got EXCEPT ![p] = scope]

Acquire(p, from, to) ==
    /\ Goto(p, from, to)
    /\ mu = NoProc
    /\ mu' = p
    /\ UNCHANGED <<scope, preTripped, closed, ringVars, got, answer, wins>>

Unlock == mu' = NoProc

AcquireRing(p, from, to) ==
    /\ Goto(p, from, to)
    /\ smu[got[p]] = NoProc
    /\ smu' = [smu EXCEPT ![got[p]] = p]
    /\ UNCHANGED <<carrierVars, tripped, shut, made, got, answer, wins>>

UnlockRing(r) == smu' = [smu EXCEPT ![r] = NoProc]

-----------------------------------------------------------------------------
(* Bind. *)

BindClosed(p) == CheckClosed(p, "bindClosed", "bindScope")

BindScope(p) ==
    /\ Goto(p, "bindScope", IF scope # NoRing THEN "idle" ELSE "bindLock")
    /\ LoadScope(p)
    /\ UNCHANGED answer
    /\ Private

BindLock(p) == Acquire(p, "bindLock", "bindRecheck")

BindRecheckKeepsLock(p) ==
    /\ closed \/ scope # NoRing
    /\ Goto(p, "bindRecheck", "idle")
    /\ got' = [got EXCEPT ![p] = IF closed THEN NoRing ELSE scope]
    /\ UNCHANGED <<carrierVars, ringVars, answer, wins>>
\* Under c.mu the two loads are repeated before a scope is taken from the pool.
BindRecheckNone(p) ==
    /\ closed \/ scope # NoRing
    /\ Goto(p, "bindRecheck", "idle")
    /\ got' = [got EXCEPT ![p] = IF closed THEN NoRing ELSE scope]
    /\ Unlock
    /\ UNCHANGED <<scope, preTripped, closed, ringVars, answer, wins>>

BindWithoutScopeRecheck(p, r) ==
    /\ pc[p] = "bindRecheck"
    /\ ~closed
    /\ r \in Ring \ made
    /\ Goto(p, "bindRecheck", IF preTripped THEN "bindTripLock" ELSE "bindStore")
    /\ made' = made \cup {r}
    /\ got' = [got EXCEPT ![p] = r]
    /\ UNCHANGED <<carrierVars, smu, tripped, shut, answer, wins>>
BindWithoutClosedRecheck(p, r) ==
    /\ pc[p] = "bindRecheck"
    /\ scope = NoRing
    /\ r \in Ring \ made
    /\ Goto(p, "bindRecheck", IF preTripped THEN "bindTripLock" ELSE "bindStore")
    /\ made' = made \cup {r}
    /\ got' = [got EXCEPT ![p] = r]
    /\ UNCHANGED <<carrierVars, smu, tripped, shut, answer, wins>>
BindWithoutTrip(p, r) ==
    /\ pc[p] = "bindRecheck"
    /\ ~closed /\ scope = NoRing
    /\ r \in Ring \ made
    /\ Goto(p, "bindRecheck", "bindStore")
    /\ made' = made \cup {r}
    /\ got' = [got EXCEPT ![p] = r]
    /\ UNCHANGED <<carrierVars, smu, tripped, shut, answer, wins>>
BindGet(p, r) ==
    /\ pc[p] = "bindRecheck"
    /\ ~closed /\ scope = NoRing
    /\ r \in Ring \ made
    /\ Goto(p, "bindRecheck", IF preTripped THEN "bindTripLock" ELSE "bindStore")
    /\ made' = made \cup {r}
    /\ got' = [got EXCEPT ![p] = r]
    /\ UNCHANGED <<carrierVars, smu, tripped, shut, answer, wins>>

\* s.Trip() with c.mu held.
BindTripLock(p) == AcquireRing(p, "bindTripLock", "bindTrip")

BindTrip(p) ==
    /\ Goto(p, "bindTrip", "bindStore")
    /\ tripped' = [tripped EXCEPT ![got[p]] = @ \/ ~shut[got[p]]]
    /\ UnlockRing(got[p])
    /\ UNCHANGED <<carrierVars, shut, made, got, answer, wins>>

BindStore(p) ==
    /\ Goto(p, "bindStore", "idle")
    /\ scope' = got[p]
    /\ Unlock
    /\ UNCHANGED <<preTripped, closed, ringVars, got, answer, wins>>

-----------------------------------------------------------------------------
(* Trip, as both adapters make it: MarkTripped, then Flush of the scope it    *)
(* returned.  The answer is whether this call is the trigger.                 *)

MarkClosed(p) == CheckClosed(p, "markClosed", "markScope")

MarkScope(p) ==
    /\ Goto(p, "markScope", IF scope # NoRing THEN "flushLock" ELSE "markLock")
    /\ LoadScope(p)
    /\ UNCHANGED answer
    /\ Private

MarkLock(p) == Acquire(p, "markLock", "markRecheck")

MarkRecheckClosed(p) ==
    /\ closed
    /\ Goto(p, "markRecheck", "idle")
    /\ Unlock
    /\ UNCHANGED <<scope, preTripped, closed, ringVars, got, answer, wins>>

MarkRecheckForgets(p) ==
    /\ ~closed /\ scope # NoRing
    /\ Goto(p, "markRecheck", "idle")
    /\ LoadScope(p)
    /\ Unlock
    /\ UNCHANGED <<scope, preTripped, closed, ringVars, answer, wins>>
MarkRecheckScope(p) ==
    /\ ~closed /\ scope # NoRing
    /\ Goto(p, "markRecheck", "flushLock")
    /\ LoadScope(p)
    /\ Unlock
    /\ UNCHANGED <<scope, preTripped, closed, ringVars, answer, wins>>

MarkAgain(p) ==
    /\ ~closed /\ scope = NoRing /\ preTripped
    /\ Goto(p, "markRecheck", "idle")
    /\ Unlock
    /\ UNCHANGED <<scope, preTripped, closed, ringVars, got, answer, wins>>

MarkFirstAfterClose(p) ==
    /\ scope = NoRing /\ ~preTripped
    /\ Goto(p, "markRecheck", "idle")
    /\ preTripped' = TRUE
    /\ answer' = [answer EXCEPT ![p] = TRUE]
    /\ wins' = wins + 1
    /\ Unlock
    /\ UNCHANGED <<scope, closed, ringVars, got>>
MarkFirstWithoutRecheck(p) ==
    /\ ~closed
    /\ Goto(p, "markRecheck", "idle")
    /\ preTripped' = TRUE
    /\ answer' = [answer EXCEPT ![p] = TRUE]
    /\ wins' = wins + 1
    /\ Unlock
    /\ UNCHANGED <<scope, closed, ringVars, got>>
MarkFirst(p) ==
    /\ ~closed /\ scope = NoRing /\ ~preTripped
    /\ Goto(p, "markRecheck", "idle")
    /\ preTripped' = TRUE
    /\ answer' = [answer EXCEPT ![p] = TRUE]
    /\ wins' = wins + 1
    /\ Unlock
    /\ UNCHANGED <<scope, closed, ringVars, got>>

\* Flush: s.Trip() decides under the engine's mutex who trips it.
FlushLock(p) == AcquireRing(p, "flushLock", "flushTrip")

FlushTrips(p) ==
    /\ Goto(p, "flushTrip", "idle")
    /\ ~shut[got[p]] /\ ~tripped[got[p]]
    /\ tripped' = [tripped EXCEPT ![got[p]] = TRUE]
    /\ answer' = [answer EXCEPT ![p] = TRUE]
    /\ wins' = wins + 1
    /\ UnlockRing(got[p])
    /\ UNCHANGED <<carrierVars, shut, made, got>>

FlushRefused(p) ==
    /\ Goto(p, "flushTrip", "idle")
    /\ shut[got[p]] \/ tripped[got[p]]
    /\ UnlockRing(got[p])
    /\ UNCHANGED <<carrierVars, tripped, shut, made, got, answer, wins>>

-----------------------------------------------------------------------------
(* Tripped and Bound, lock-free. *)

AskClosed(p) == CheckClosed(p, "askClosed", "askPre")

AskPreIgnored(p) ==
    /\ Goto(p, "askPre", "askScope")
    /\ UNCHANGED <<got, answer>>
    /\ Private
AskPre(p) ==
    /\ Goto(p, "askPre", IF preTripped THEN "idle" ELSE "askScope")
    /\ answer' = [answer EXCEPT ![p] = preTripped]
    /\ UNCHANGED got
    /\ Private

AskScope(p) ==
    /\ Goto(p, "askScope", IF scope = NoRing THEN "idle" ELSE "askRing")
    /\ LoadScope(p)
    /\ UNCHANGED answer
    /\ Private

AskRing(p) ==
    /\ Goto(p, "askRing", "idle")
    /\ answer' = [answer EXCEPT ![p] = tripped[got[p]]]
    /\ UNCHANGED got
    /\ Private

BoundClosed(p) == CheckClosed(p, "boundClosed", "boundScope")

BoundScope(p) ==
    /\ Goto(p, "boundScope", "idle")
    /\ LoadScope(p)
    /\ UNCHANGED answer
    /\ Private

-----------------------------------------------------------------------------
(* Close. *)

CloseLock(p) == Acquire(p, "closeLock", "closeStore")

CloseUnbound(p) ==
    /\ Goto(p, "closeStore", "shutLock")
    /\ LoadScope(p)
    /\ closed' = TRUE
    /\ Unlock
    /\ UNCHANGED <<scope, preTripped, ringVars, answer, wins>>
CloseStore(p) ==
    /\ Goto(p, "closeStore", IF scope # NoRing THEN "shutLock" ELSE "idle")
    /\ LoadScope(p)
    /\ closed' = TRUE
    /\ Unlock
    /\ UNCHANGED <<scope, preTripped, ringVars, answer, wins>>

\* s.Close(), after c.mu is released.
ShutLock(p) == AcquireRing(p, "shutLock", "shutRing")

ShutRing(p) ==
    /\ Goto(p, "shutRing", "idle")
    /\ shut' = [shut EXCEPT ![got[p]] = TRUE]
    /\ UnlockRing(got[p])
    /\ UNCHANGED <<carrierVars, tripped, made, got, answer, wins>>

-----------------------------------------------------------------------------
BindStep(p) ==
    \/ BindClosed(p) \/ BindScope(p) \/ BindLock(p) \/ BindRecheckNone(p)
    \/ \E r \in Ring : BindGet(p, r)
    \/ BindTripLock(p) \/ BindTrip(p) \/ BindStore(p)

TripStep(p) ==
    \/ MarkClosed(p) \/ MarkScope(p) \/ MarkLock(p) \/ MarkRecheckClosed(p)
    \/ MarkRecheckScope(p) \/ MarkAgain(p) \/ MarkFirst(p)
    \/ FlushLock(p) \/ FlushTrips(p) \/ FlushRefused(p)

AskStep(p) ==
    \/ AskClosed(p) \/ AskPre(p) \/ AskScope(p) \/ AskRing(p)
    \/ BoundClosed(p) \/ BoundScope(p)

CloseStep(p) == CloseLock(p) \/ CloseStore(p) \/ ShutLock(p) \/ ShutRing(p)

Step(p) == BindStep(p) \/ TripStep(p) \/ AskStep(p) \/ CloseStep(p)

Next == \E p \in Proc : Step(p) \/ \E c \in Call : Start(p, c)

Spec == Init /\ [][Next]_vars

\* A running goroutine is scheduled, and sync.Mutex hands a mutex that is freed
\* again and again to a goroutine that waits for it (its starvation mode).  No
\* fairness is assumed of Start: a program need not make another call.
Fairness == \A p \in Proc : SF_vars(Step(p))

FairSpec == Spec /\ Fairness
-----------------------------------------------------------------------------
(* Properties. *)

\* Where the code is about to use the scope in hand.
Deref == {"bindTripLock", "bindTrip", "bindStore", "flushLock", "flushTrip",
          "askRing", "shutLock", "shutRing"}

\* Every variable keeps its range, and no call dereferences a nil scope.
TypeOK ==
    /\ mu \in Proc \cup {NoProc}
    /\ scope \in Ring \cup {NoRing}
    /\ preTripped \in BOOLEAN
    /\ closed \in BOOLEAN
    /\ smu \in [Ring -> Proc \cup {NoProc}]
    /\ tripped \in [Ring -> BOOLEAN]
    /\ shut \in [Ring -> BOOLEAN]
    /\ made \in SUBSET Ring
    /\ pc \in [Proc -> At]
    /\ call \in [Proc -> Call]
    /\ got \in [Proc -> Ring \cup {NoRing}]
    /\ answer \in [Proc -> BOOLEAN]
    /\ wins \in Nat
    /\ began \in [Proc -> [tripped : BOOLEAN, closed : BOOLEAN]]
    /\ \A p \in Proc : pc[p] \in Deref => got[p] \in Ring

\* "Exactly one call is the one that moved the scope into the tripped state"
\* (handler.go:254-255, carrier.go:131-133): however bare trips, records and the
\* creation of the ring interleave, one caller is told so, and only if the scope
\* has indeed tripped.
OneTrigger == wins = IF HasTripped THEN 1 ELSE 0

\* "A context chain always has exactly one ring no matter how many goroutines
\* log into it at once" (carrier.go:76-80): every scope ever taken from the pool
\* is the published one, or the one about to be by the holder of c.mu.
OneRing ==
    /\ \A r, q \in made : r = q
    /\ \A p \in Proc : pc[p] = "idle" => got[p] \in {NoRing, scope}

\* A trip that arrived before the ring is not lost (carrier.go:60-64): a ring is
\* never visible without it.
EarlyTripKept == preTripped /\ scope # NoRing => tripped[scope]

\* "After it returns, records ... pass straight through ... until the scope
\* ends" (scope.go:207-210): when a Trip that found the scope open has returned,
\* the scope is tripped or has meanwhile been closed.
TripTakesEffect ==
    \A p \in Proc :
        pc[p] = "idle" /\ call[p] = "Trip" => HasTripped \/ closed

\* Tripped never forgets: a call that began after the scope tripped denies it
\* only on a closed carrier (carrier.go:176-185), although it reads the flag and
\* the ring at two different moments.
TrippedIsSeen ==
    \A p \in Proc :
        pc[p] = "idle" /\ call[p] = "Tripped" /\ began[p].tripped
            => answer[p] \/ closed

\* No ring outlives the release (carrier.go:66-70): once the carrier is closed
\* and the closing call is through, every scope taken from the pool has been
\* closed, hence its ring given back, and no late Bind can add another.
NoRingLeaks ==
    closed /\ (\A p \in Proc : pc[p] \notin {"shutLock", "shutRing"})
        => \A r \in made : shut[r]

\* A call that began after the release sees no scope and no trip
\* (carrier.go:85-87, 173-175).
ReleasedIsNoScope ==
    \A p \in Proc :
        pc[p] = "idle" /\ began[p].closed /\ call[p] # "Close"
            => got[p] = NoRing /\ ~answer[p]

\* Every call returns: no interleaving of the two mutexes blocks a goroutine
\* for good.
CallsReturn == \A p \in Proc : pc[p] # "idle" ~> pc[p] = "idle"

\* The comment at carrier.go:208-209: Close calls the engine after c.mu is
\* released, "this ordering keeps the two from being held together anywhere in
\* the package".
NeverHeldTogether == \A p \in Proc : mu = p => \A r \in Ring : smu[r] # p

S == INSTANCE SharedScope WITH
        ring <- scope, tripped <- HasTripped, triggers <- wins,
        released <- scope # NoRing /\ shut[scope]

ImplementsSharedScope == S!Spec
=============================================================================
