--------------------------- MODULE CarrierProofs ---------------------------
(* Theorems about Carrier, for any number of goroutines and rings: its safety *)
(* properties, and that it implements SharedScope.                            *)
EXTENDS Carrier, TLAPS

-----------------------------------------------------------------------------
(* The inductive invariant: who holds which mutex, and what the code at each  *)
(* place may rely on.                                                         *)

\* TypeOK without its last conjunct, which follows from OneMade below.
Types ==
    /\ mu \in Proc \cup {NoProc}
    /\ scope \in Ring \cup {NoRing}
    /\ preTripped \in BOOLEAN
    /\ closed \in BOOLEAN
    /\ smu \in [Ring -> Proc \cup {NoProc}]
    /\ tripped \in [Ring -> BOOLEAN]
    /\ shut \in [Ring -> BOOLEAN]
    /\ made \in SUBSET Ring
    /\ pc \in [Proc -> At]
    /\ call \in [Proc -> Call]
    /\ got \in [Proc -> Ring \cup {NoRing}]
    /\ answer \in [Proc -> BOOLEAN]
    /\ wins \in Nat
    /\ began \in [Proc -> [tripped : BOOLEAN, closed : BOOLEAN]]

\* Where c.mu is held, and where the engine's mutex is.
Locked == {"bindRecheck", "bindTripLock", "bindTrip", "bindStore", "markRecheck",
           "closeStore"}
RingLocked == {"bindTrip", "flushTrip", "shutRing"}

\* Where Bind has made a scope it has not yet published.
Building == {"bindTripLock", "bindTrip", "bindStore"}

\* Where the scope in hand is the published one.
OnPublished == {"flushLock", "flushTrip", "askRing", "shutLock", "shutRing"}

Holder == \A p \in Proc : pc[p] \in Locked <=> mu = p

RingHolder ==
    \A p \in Proc : \A r \in Ring :
        smu[r] = p <=> pc[p] \in RingLocked /\ got[p] = r

\* A goroutine stands inside the call it made.
Places ==
    \A p \in Proc :
        /\ pc[p] \in BindAt => call[p] = "Bind"
        /\ pc[p] \in TrippedAt => call[p] = "Tripped"
        /\ pc[p] \in BoundAt => call[p] = "Bound"
        /\ pc[p] \in CloseAt => call[p] = "Close"

\* The one scope: none, one being built under c.mu, or the published one.
OneMade ==
    /\ \A p \in Proc : pc[p] \in Building =>
           /\ scope = NoRing /\ ~closed
           /\ made = {got[p]} /\ ~shut[got[p]]
           /\ tripped[got[p]] => pc[p] = "bindStore"
           /\ pc[p] = "bindStore" => tripped[got[p]] = preTripped
           /\ pc[p] # "bindStore" => preTripped
    /\ (\A p \in Proc : pc[p] \notin Building) =>
           made = IF scope = NoRing THEN {} ELSE {scope}
    /\ \A p \in Proc : pc[p] \in OnPublished => got[p] = scope /\ scope # NoRing

\* No goroutine has any other scope in hand.
InHand == \A p \in Proc : pc[p] \notin Building => got[p] \in {NoRing, scope}

\* Only a made scope trips, and only the published one of a closed carrier is
\* shut, by a call that passed through the store of closed.
RingFlags ==
    /\ \A r \in Ring : tripped[r] => r \in made
    /\ \A r \in Ring : shut[r] => closed /\ scope = r
    /\ \A p \in Proc : pc[p] \in {"shutLock", "shutRing"} => closed
    /\ closed /\ scope # NoRing /\ ~shut[scope] =>
           \E p \in Proc : pc[p] \in {"shutLock", "shutRing"}

IInv ==
    /\ TypeOK
    /\ Holder
    /\ RingHolder
    /\ Places
    /\ OneMade
    /\ InHand
    /\ RingFlags
    /\ EarlyTripKept
    /\ OneTrigger
    /\ TripTakesEffect

-----------------------------------------------------------------------------
(* A scope is dereferenced only where Bind made it or the carrier published   *)
(* it, so that part of TypeOK comes from OneMade.                             *)
LEMMA NoNilScope == Types /\ OneMade => TypeOK
<1> SUFFICES ASSUME Types, OneMade, NEW p \in Proc, pc[p] \in Deref
             PROVE  got[p] \in Ring
  BY DEF Types, TypeOK
<1>1. CASE pc[p] \in Building
  BY <1>1 DEF OneMade, Types
<1>2. CASE pc[p] \in OnPublished
  BY <1>2 DEF OneMade, Types
<1>3. QED
  BY <1>1, <1>2 DEF Deref, Building, OnPublished

LEMMA NoNilScopeNext == Types' /\ OneMade' => TypeOK'
  BY NoNilScope, PTL

(* Nothing is made while c.mu is held outside the building of a scope and no  *)
(* scope is published, so nothing has tripped but perhaps the carrier.        *)
LEMMA NothingMade ==
  ASSUME IInv, NEW p \in Proc, pc[p] \in Locked \ Building, scope = NoRing
  PROVE  /\ \A q \in Proc : pc[q] \notin Building
         /\ made = {}
         /\ \A r \in Ring : tripped[r] = FALSE /\ shut[r] = FALSE
<1>1. mu = p
  BY DEF IInv, Holder
<1>2. \A q \in Proc : pc[q] \notin Building
  BY <1>1 DEF IInv, Holder, Locked, Building
<1>3. made = {}
  BY <1>2 DEF IInv, OneMade
<1>4. \A r \in Ring : tripped[r] = FALSE /\ shut[r] = FALSE
  BY <1>3, NilAssumption DEF IInv, RingFlags, TypeOK
<1>5. QED
  BY <1>2, <1>3, <1>4

(* The initial state satisfies the invariant.                                 *)
LEMMA InitIInv == Init => IInv
<1> SUFFICES ASSUME Init PROVE IInv
  OBVIOUS
<1>1. TypeOK
  BY DEF Init, TypeOK, At, Call, Deref
<1>2. Holder /\ RingHolder
  BY NilAssumption DEF Init, Holder, RingHolder, Locked, RingLocked
<1>3. Places
  BY DEF Init, Places, BindAt, TrippedAt, BoundAt, CloseAt
<1>4. OneMade /\ InHand
  BY DEF Init, OneMade, InHand, Building, OnPublished
<1>5. RingFlags
  BY DEF Init, RingFlags
<1>6. EarlyTripKept /\ OneTrigger /\ TripTakesEffect
  BY DEF Init, EarlyTripKept, OneTrigger, TripTakesEffect, HasTripped
<1>7. QED
  BY <1>1, <1>2, <1>3, <1>4, <1>5, <1>6 DEF IInv

-----------------------------------------------------------------------------
(* A step outside the mutexes changes nothing but the goroutine's own place   *)
(* and results.                                                               *)
LEMMA FreeSteps ==
  ASSUME IInv, NEW p \in Proc,
         BindClosed(p) \/ BindScope(p) \/ MarkClosed(p) \/
         MarkScope(p) \/ AskClosed(p) \/ AskPre(p) \/
         AskScope(p) \/ AskRing(p) \/ BoundClosed(p) \/
         BoundScope(p)
  PROVE  IInv'
<1>0. TypeOK
  BY DEF IInv
<1> USE DEF BindClosed, BindScope, MarkClosed, MarkScope, AskClosed, AskPre,
     AskScope, AskRing, BoundClosed, BoundScope, Goto, LoadScope, Private,
     CheckClosed, ringVars, carrierVars
<1>1. Types'
  <2>1. PICK to \in {"idle", "bindScope", "bindLock", "markScope", "markLock",
                   "flushLock", "askPre", "askScope", "askRing", "boundScope"} :
             pc' = [pc EXCEPT ![p] = to]
    BY <1>0 DEF TypeOK
  <2>2. to \in At
    BY DEF At, BindAt, TripAt, TrippedAt, BoundAt
  <2>3. got' \in [Proc -> Ring \cup {NoRing}] /\ answer' \in [Proc -> BOOLEAN]
    BY <1>0 DEF TypeOK, Deref
  <2>4. QED
    BY <1>0, <2>1, <2>2, <2>3 DEF TypeOK, Types
<1>2. Holder'
  BY <1>0, NilAssumption DEF IInv, TypeOK, Holder, Locked
<1>3. RingHolder'
  BY <1>0, NilAssumption DEF IInv, TypeOK, Deref, RingHolder, RingLocked
<1>4. Places'
  BY <1>0 DEF IInv, TypeOK, Places, BindAt, TrippedAt, BoundAt, CloseAt
<1>5. OneMade'
  BY <1>0 DEF IInv, TypeOK, Deref, OneMade, Holder, Locked, Building,
     OnPublished
<1>6. InHand'
  BY <1>0 DEF IInv, TypeOK, InHand, OneMade, Building, OnPublished, Holder,
     Locked
<1>7. RingFlags'
  BY <1>0 DEF IInv, TypeOK, Deref, RingFlags, OneMade, Building, OnPublished,
     Holder, Locked
<1>8. EarlyTripKept'
  BY <1>0 DEF IInv, TypeOK, EarlyTripKept, OneMade, Building, Holder, Locked
<1>9. OneTrigger'
  BY <1>0 DEF IInv, TypeOK, OneTrigger, HasTripped, OneMade, OnPublished,
     Building, EarlyTripKept
<1>10. TripTakesEffect'
  BY <1>0 DEF IInv, TypeOK, TripTakesEffect, Places, BindAt, TrippedAt,
     BoundAt, CloseAt, HasTripped, RingFlags, OneMade, OnPublished
<1>11. TypeOK'
  BY <1>1, <1>5, NoNilScopeNext
<1>12. QED
  BY <1>2, <1>3, <1>4, <1>5, <1>6, <1>7, <1>8, <1>9, <1>10, <1>11 DEF IInv

(* c.mu is taken where nobody has it.                                         *)
LEMMA LockSteps ==
  ASSUME IInv, NEW p \in Proc,
         BindLock(p) \/ MarkLock(p) \/ CloseLock(p)
  PROVE  IInv'
<1>0. TypeOK
  BY DEF IInv
<1> USE DEF BindLock, MarkLock, CloseLock, Goto, Acquire, ringVars
<1>1. Types'
  BY <1>0 DEF IInv, TypeOK, Deref, Types, At, BindAt, TripAt, TrippedAt,
     BoundAt, CloseAt
<1>2. Holder'
  BY <1>0, NilAssumption DEF IInv, TypeOK, Holder, Locked
<1>3. RingHolder'
  BY <1>0, NilAssumption DEF IInv, TypeOK, Deref, RingHolder, RingLocked
<1>4. Places'
  BY <1>0 DEF IInv, TypeOK, Places, BindAt, TrippedAt, BoundAt, CloseAt
<1>5. OneMade'
  BY <1>0 DEF IInv, TypeOK, Deref, OneMade, Holder, Locked, Building,
     OnPublished
<1>6. InHand'
  BY <1>0 DEF IInv, TypeOK, InHand, OneMade, Building, OnPublished, Holder,
     Locked
<1>7. RingFlags'
  BY <1>0 DEF IInv, TypeOK, Deref, RingFlags, OneMade, Building, OnPublished,
     Holder, Locked
<1>8. EarlyTripKept'
  BY <1>0 DEF IInv, TypeOK, EarlyTripKept, OneMade, Building, Holder, Locked
<1>9. OneTrigger'
  BY <1>0 DEF IInv, TypeOK, OneTrigger, HasTripped, OneMade, OnPublished,
     Building, EarlyTripKept
<1>10. TripTakesEffect'
  BY <1>0 DEF IInv, TypeOK, TripTakesEffect, Places, BindAt, TrippedAt,
     BoundAt, CloseAt, HasTripped, RingFlags, OneMade, OnPublished
<1>11. TypeOK'
  BY <1>1, <1>5, NoNilScopeNext
<1>12. QED
  BY <1>2, <1>3, <1>4, <1>5, <1>6, <1>7, <1>8, <1>9, <1>10, <1>11 DEF IInv

(* The early returns under c.mu, which release it.                            *)
LEMMA UnlockSteps ==
  ASSUME IInv, NEW p \in Proc,
         BindRecheckNone(p) \/ MarkRecheckClosed(p) \/ MarkRecheckScope(p) \/
         MarkAgain(p)
  PROVE  IInv'
<1>0. TypeOK
  BY DEF IInv
<1> USE DEF BindRecheckNone, MarkRecheckClosed, MarkRecheckScope, MarkAgain,
     Goto, LoadScope, Unlock, ringVars
<1>1. Types'
  BY <1>0, ZenonT(60) DEF IInv, TypeOK, Deref, Types, At, BindAt, TripAt, TrippedAt,
     BoundAt, CloseAt
<1>2. Holder'
  BY <1>0, NilAssumption DEF IInv, TypeOK, Holder, Locked
<1>3. RingHolder'
  BY <1>0, NilAssumption DEF IInv, TypeOK, Deref, RingHolder, RingLocked
<1>4. Places'
  BY <1>0 DEF IInv, TypeOK, Places, BindAt, TrippedAt, BoundAt, CloseAt
<1>5. OneMade'
  BY <1>0 DEF IInv, TypeOK, Deref, OneMade, Holder, Locked, Building,
     OnPublished
<1>6. InHand'
  BY <1>0 DEF IInv, TypeOK, InHand, OneMade, Building, OnPublished, Holder,
     Locked
<1>7. RingFlags'
  BY <1>0 DEF IInv, TypeOK, Deref, RingFlags, OneMade, Building, OnPublished,
     Holder, Locked
<1>8. EarlyTripKept'
  BY <1>0 DEF IInv, TypeOK, EarlyTripKept, OneMade, Building, Holder, Locked
<1>9. OneTrigger'
  BY <1>0 DEF IInv, TypeOK, OneTrigger, HasTripped, OneMade, OnPublished,
     Building, EarlyTripKept
<1>10. TripTakesEffect'
  BY <1>0 DEF IInv, TypeOK, TripTakesEffect, Places, BindAt, TrippedAt,
     BoundAt, CloseAt, HasTripped, RingFlags, OneMade, OnPublished
<1>11. TypeOK'
  BY <1>1, <1>5, NoNilScopeNext
<1>12. QED
  BY <1>2, <1>3, <1>4, <1>5, <1>6, <1>7, <1>8, <1>9, <1>10, <1>11 DEF IInv

(* The engine's mutex is taken where nobody has it.                           *)
LEMMA RingLockSteps ==
  ASSUME IInv, NEW p \in Proc,
         BindTripLock(p) \/ FlushLock(p) \/ ShutLock(p)
  PROVE  IInv'
<1>0. TypeOK
  BY DEF IInv
<1> USE DEF BindTripLock, FlushLock, ShutLock, Goto, AcquireRing, carrierVars
<1>1. Types'
  <2>1. PICK to \in {"bindTrip", "flushTrip", "shutRing"} :
             pc' = [pc EXCEPT ![p] = to]
    BY DEF TypeOK
  <2>2. to \in At
    BY DEF At, BindAt, TripAt, CloseAt
  <2>3. smu' = [smu EXCEPT ![got[p]] = p]
    OBVIOUS
  <2>4. QED
    BY <1>0, <2>1, <2>2, <2>3 DEF TypeOK, Types
<1>2. Holder'
  BY <1>0, NilAssumption DEF IInv, TypeOK, Holder, Locked
<1>3. RingHolder'
  BY <1>0, NilAssumption DEF IInv, TypeOK, Deref, RingHolder, RingLocked
<1>4. Places'
  BY <1>0 DEF IInv, TypeOK, Places, BindAt, TrippedAt, BoundAt, CloseAt
<1>5. OneMade'
  BY <1>0 DEF IInv, TypeOK, Deref, OneMade, Holder, Locked, Building,
     OnPublished
<1>6. InHand'
  BY <1>0 DEF IInv, TypeOK, InHand, OneMade, Building, OnPublished, Holder,
     Locked
<1>7. RingFlags'
  BY <1>0 DEF IInv, TypeOK, Deref, RingFlags, OneMade, Building, OnPublished,
     Holder, Locked
<1>8. EarlyTripKept'
  BY <1>0 DEF IInv, TypeOK, EarlyTripKept, OneMade, Building, Holder, Locked
<1>9. OneTrigger'
  BY <1>0 DEF IInv, TypeOK, OneTrigger, HasTripped, OneMade, OnPublished,
     Building, EarlyTripKept
<1>10. TripTakesEffect'
  BY <1>0 DEF IInv, TypeOK, TripTakesEffect, Places, BindAt, TrippedAt,
     BoundAt, CloseAt, HasTripped, RingFlags, OneMade, OnPublished
<1>11. TypeOK'
  BY <1>1, <1>5, NoNilScopeNext
<1>12. QED
  BY <1>2, <1>3, <1>4, <1>5, <1>6, <1>7, <1>8, <1>9, <1>10, <1>11 DEF IInv

(* Bind takes a scope from the pool, with c.mu held and none published.       *)
LEMMA BindGetStep ==
  ASSUME IInv, NEW p \in Proc, NEW r \in Ring, BindGet(p, r)
  PROVE  IInv'
<1>0. TypeOK
  BY DEF IInv
<1> USE DEF BindGet, Goto, carrierVars
<1>1. Types'
  BY <1>0 DEF IInv, TypeOK, Deref, Types, At, BindAt, TripAt, TrippedAt,
     BoundAt, CloseAt
<1>2. Holder'
  BY <1>0, NilAssumption DEF IInv, TypeOK, Holder, Locked
<1>3. RingHolder'
  BY <1>0, NilAssumption DEF IInv, TypeOK, Deref, RingHolder, RingLocked
<1>4. Places'
  BY <1>0 DEF IInv, TypeOK, Places, BindAt, TrippedAt, BoundAt, CloseAt
<1>5. OneMade'
  <2>1. /\ \A q \in Proc : pc[q] \notin Building
        /\ made = {} /\ tripped[r] = FALSE /\ shut[r] = FALSE
    BY NothingMade DEF Locked, Building
  <2>2. \A q \in Proc \ {p} : pc'[q] = pc[q] /\ got'[q] = got[q]
    BY <1>0 DEF TypeOK
  <2>3. /\ pc'[p] = IF preTripped THEN "bindTripLock" ELSE "bindStore"
        /\ got'[p] = r /\ made' = {r}
    BY <1>0, <2>1 DEF TypeOK
  <2>4. \A q \in Proc : pc'[q] \in Building <=> q = p
    BY <2>1, <2>2, <2>3 DEF Building
  <2>5. \A q \in Proc : pc'[q] \in OnPublished => got'[q] = scope' /\ scope' # NoRing
    BY <2>2, <2>3 DEF IInv, OneMade, OnPublished
  <2>6. QED
    BY <1>0, <2>1, <2>3, <2>4, <2>5 DEF OneMade, TypeOK
<1>6. InHand'
  BY <1>0 DEF IInv, TypeOK, InHand, OneMade, Building, OnPublished, Holder,
     Locked
<1>7. RingFlags'
  BY <1>0 DEF IInv, TypeOK, Deref, RingFlags, OneMade, Building, OnPublished,
     Holder, Locked
<1>8. EarlyTripKept'
  BY <1>0 DEF IInv, TypeOK, EarlyTripKept, OneMade, Building, Holder, Locked
<1>9. OneTrigger'
  BY <1>0 DEF IInv, TypeOK, OneTrigger, HasTripped, OneMade, OnPublished,
     Building, EarlyTripKept
<1>10. TripTakesEffect'
  BY <1>0 DEF IInv, TypeOK, TripTakesEffect, Places, BindAt, TrippedAt,
     BoundAt, CloseAt, HasTripped, RingFlags, OneMade, OnPublished
<1>11. TypeOK'
  BY <1>1, <1>5, NoNilScopeNext
<1>12. QED
  BY <1>2, <1>3, <1>4, <1>5, <1>6, <1>7, <1>8, <1>9, <1>10, <1>11 DEF IInv

(* A scope made after a bare trip is tripped before it is published.          *)
LEMMA BindTripStep ==
  ASSUME IInv, NEW p \in Proc, BindTrip(p)
  PROVE  IInv'
<1>0. TypeOK
  BY DEF IInv
<1> USE DEF BindTrip, Goto, UnlockRing, carrierVars
<1>1. Types'
  BY <1>0 DEF IInv, TypeOK, Deref, Types, At, BindAt, TripAt, TrippedAt,
     BoundAt, CloseAt
<1>2. Holder'
  BY <1>0, NilAssumption DEF IInv, TypeOK, Holder, Locked
<1>3. RingHolder'
  BY <1>0, NilAssumption DEF IInv, TypeOK, Deref, RingHolder, RingLocked
<1>4. Places'
  BY <1>0 DEF IInv, TypeOK, Places, BindAt, TrippedAt, BoundAt, CloseAt
<1>5. OneMade'
  BY <1>0 DEF IInv, TypeOK, Deref, OneMade, Holder, Locked, Building,
     OnPublished
<1>6. InHand'
  BY <1>0 DEF IInv, TypeOK, InHand, OneMade, Building, OnPublished, Holder,
     Locked
<1>7. RingFlags'
  BY <1>0 DEF IInv, TypeOK, Deref, RingFlags, OneMade, Building, OnPublished,
     Holder, Locked
<1>8. EarlyTripKept'
  BY <1>0 DEF IInv, TypeOK, EarlyTripKept, OneMade, Building, Holder, Locked
<1>9. OneTrigger'
  BY <1>0 DEF IInv, TypeOK, OneTrigger, HasTripped, OneMade, OnPublished,
     Building, EarlyTripKept
<1>10. TripTakesEffect'
  BY <1>0 DEF IInv, TypeOK, TripTakesEffect, Places, BindAt, TrippedAt,
     BoundAt, CloseAt, HasTripped, RingFlags, OneMade, OnPublished
<1>11. TypeOK'
  BY <1>1, <1>5, NoNilScopeNext
<1>12. QED
  BY <1>2, <1>3, <1>4, <1>5, <1>6, <1>7, <1>8, <1>9, <1>10, <1>11 DEF IInv

(* The scope is published, with c.mu held.                                    *)
LEMMA BindStoreStep ==
  ASSUME IInv, NEW p \in Proc, BindStore(p)
  PROVE  IInv'
<1>0. TypeOK
  BY DEF IInv
<1> USE DEF BindStore, Goto, Unlock, ringVars
<1>1. Types'
  BY <1>0 DEF IInv, TypeOK, Deref, Types, At, BindAt, TripAt, TrippedAt,
     BoundAt, CloseAt
<1>2. Holder'
  BY <1>0, NilAssumption DEF IInv, TypeOK, Holder, Locked
<1>3. RingHolder'
  BY <1>0, NilAssumption DEF IInv, TypeOK, Deref, RingHolder, RingLocked
<1>4. Places'
  BY <1>0 DEF IInv, TypeOK, Places, BindAt, TrippedAt, BoundAt, CloseAt
<1>5. OneMade'
  <2>1. /\ scope = NoRing /\ made = {got[p]} /\ got[p] \in Ring
        /\ scope' = got[p] /\ made' = made /\ scope' # NoRing
    BY <1>0, NilAssumption DEF IInv, TypeOK, Deref, OneMade, Building
  <2>2. \A q \in Proc : pc'[q] \notin Building
    BY <1>0 DEF IInv, TypeOK, Holder, Locked, Building
  <2>3. \A q \in Proc : pc'[q] \notin OnPublished
    BY <1>0, <2>1 DEF IInv, TypeOK, OneMade, OnPublished
  <2>4. QED
    BY <2>1, <2>2, <2>3 DEF OneMade
<1>6. InHand'
  BY <1>0 DEF IInv, TypeOK, InHand, OneMade, Building, OnPublished, Holder,
     Locked
<1>7. RingFlags'
  BY <1>0 DEF IInv, TypeOK, Deref, RingFlags, OneMade, Building, OnPublished,
     Holder, Locked
<1>8. EarlyTripKept'
  BY <1>0 DEF IInv, TypeOK, EarlyTripKept, OneMade, Building, Holder, Locked
<1>9. OneTrigger'
  BY <1>0 DEF IInv, TypeOK, OneTrigger, HasTripped, OneMade, OnPublished,
     Building, EarlyTripKept
<1>10. TripTakesEffect'
  BY <1>0 DEF IInv, TypeOK, TripTakesEffect, Places, BindAt, TrippedAt,
     BoundAt, CloseAt, HasTripped, RingFlags, OneMade, OnPublished
<1>11. TypeOK'
  BY <1>1, <1>5, NoNilScopeNext
<1>12. QED
  BY <1>2, <1>3, <1>4, <1>5, <1>6, <1>7, <1>8, <1>9, <1>10, <1>11 DEF IInv

(* A bare trip is recorded: nothing had tripped before.                       *)
LEMMA MarkFirstStep ==
  ASSUME IInv, NEW p \in Proc, MarkFirst(p)
  PROVE  IInv'
<1>0. TypeOK
  BY DEF IInv
<1> USE DEF MarkFirst, Goto, Unlock, ringVars
<1>1. Types'
  BY <1>0 DEF IInv, TypeOK, Deref, Types, At, BindAt, TripAt, TrippedAt,
     BoundAt, CloseAt
<1>2. Holder'
  BY <1>0, NilAssumption DEF IInv, TypeOK, Holder, Locked
<1>3. RingHolder'
  BY <1>0, NilAssumption DEF IInv, TypeOK, Deref, RingHolder, RingLocked
<1>4. Places'
  BY <1>0 DEF IInv, TypeOK, Places, BindAt, TrippedAt, BoundAt, CloseAt
<1>5. OneMade'
  BY <1>0 DEF IInv, TypeOK, Deref, OneMade, Holder, Locked, Building,
     OnPublished
<1>6. InHand'
  BY <1>0 DEF IInv, TypeOK, InHand, OneMade, Building, OnPublished, Holder,
     Locked
<1>7. RingFlags'
  BY <1>0 DEF IInv, TypeOK, Deref, RingFlags, OneMade, Building, OnPublished,
     Holder, Locked
<1>8. EarlyTripKept'
  BY <1>0 DEF IInv, TypeOK, EarlyTripKept, OneMade, Building, Holder, Locked
<1>9. OneTrigger'
  <2>1. ~HasTripped /\ wins = 0
    BY NothingMade DEF IInv, OneTrigger, HasTripped, Locked, Building
  <2>2. HasTripped' /\ wins' = 1
    BY <2>1 DEF HasTripped
  <2>3. QED
    BY <2>2 DEF OneTrigger
<1>10. TripTakesEffect'
  BY <1>0 DEF IInv, TypeOK, TripTakesEffect, Places, BindAt, TrippedAt,
     BoundAt, CloseAt, HasTripped, RingFlags, OneMade, OnPublished
<1>11. TypeOK'
  BY <1>1, <1>5, NoNilScopeNext
<1>12. QED
  BY <1>2, <1>3, <1>4, <1>5, <1>6, <1>7, <1>8, <1>9, <1>10, <1>11 DEF IInv

(* The engine trips: the ring is the only one made, and the carrier had not   *)
(* tripped without it.                                                        *)
LEMMA FlushTripsStep ==
  ASSUME IInv, NEW p \in Proc, FlushTrips(p)
  PROVE  IInv'
<1>0. TypeOK
  BY DEF IInv
<1> USE DEF FlushTrips, Goto, UnlockRing, carrierVars
<1>1. Types'
  BY <1>0 DEF IInv, TypeOK, Deref, Types, At, BindAt, TripAt, TrippedAt,
     BoundAt, CloseAt
<1>2. Holder'
  BY <1>0, NilAssumption DEF IInv, TypeOK, Holder, Locked
<1>3. RingHolder'
  BY <1>0, NilAssumption DEF IInv, TypeOK, Deref, RingHolder, RingLocked
<1>4. Places'
  BY <1>0 DEF IInv, TypeOK, Places, BindAt, TrippedAt, BoundAt, CloseAt
<1>5. OneMade'
  BY <1>0 DEF IInv, TypeOK, Deref, OneMade, Holder, Locked, Building,
     OnPublished
<1>6. InHand'
  BY <1>0 DEF IInv, TypeOK, InHand, OneMade, Building, OnPublished, Holder,
     Locked
<1>7. RingFlags'
  BY <1>0 DEF IInv, TypeOK, Deref, RingFlags, OneMade, Building, OnPublished,
     Holder, Locked
<1>8. EarlyTripKept'
  BY <1>0 DEF IInv, TypeOK, EarlyTripKept, OneMade, Building, Holder, Locked
<1>9. OneTrigger'
  <2>1. got[p] = scope /\ scope \in Ring /\ ~tripped[scope]
    BY <1>0 DEF IInv, TypeOK, OneMade, OnPublished
  <2>2. made = {scope}
    BY <1>0, <2>1, NilAssumption DEF IInv, OneMade, TypeOK
  <2>3. ~HasTripped /\ wins = 0
    BY <2>1, <2>2, NilAssumption
       DEF IInv, HasTripped, EarlyTripKept, RingFlags, OneTrigger
  <2>4. HasTripped' /\ wins' = 1
    BY <1>0, <2>1, <2>3 DEF HasTripped, TypeOK
  <2>5. QED
    BY <2>4 DEF OneTrigger
<1>10. TripTakesEffect'
  BY <1>0 DEF IInv, TypeOK, TripTakesEffect, Places, BindAt, TrippedAt,
     BoundAt, CloseAt, HasTripped, RingFlags, OneMade, OnPublished
<1>11. TypeOK'
  BY <1>1, <1>5, NoNilScopeNext
<1>12. QED
  BY <1>2, <1>3, <1>4, <1>5, <1>6, <1>7, <1>8, <1>9, <1>10, <1>11 DEF IInv

(* The engine refuses a trip: it has tripped or is closed.                    *)
LEMMA FlushRefusedStep ==
  ASSUME IInv, NEW p \in Proc, FlushRefused(p)
  PROVE  IInv'
<1>0. TypeOK
  BY DEF IInv
<1> USE DEF FlushRefused, Goto, UnlockRing, carrierVars
<1>1. Types'
  BY <1>0 DEF IInv, TypeOK, Deref, Types, At, BindAt, TripAt, TrippedAt,
     BoundAt, CloseAt
<1>2. Holder'
  BY <1>0, NilAssumption DEF IInv, TypeOK, Holder, Locked
<1>3. RingHolder'
  BY <1>0, NilAssumption DEF IInv, TypeOK, Deref, RingHolder, RingLocked
<1>4. Places'
  BY <1>0 DEF IInv, TypeOK, Places, BindAt, TrippedAt, BoundAt, CloseAt
<1>5. OneMade'
  BY <1>0 DEF IInv, TypeOK, Deref, OneMade, Holder, Locked, Building,
     OnPublished
<1>6. InHand'
  BY <1>0 DEF IInv, TypeOK, InHand, OneMade, Building, OnPublished, Holder,
     Locked
<1>7. RingFlags'
  BY <1>0 DEF IInv, TypeOK, Deref, RingFlags, OneMade, Building, OnPublished,
     Holder, Locked
<1>8. EarlyTripKept'
  BY <1>0 DEF IInv, TypeOK, EarlyTripKept, OneMade, Building, Holder, Locked
<1>9. OneTrigger'
  BY <1>0 DEF IInv, TypeOK, OneTrigger, HasTripped, OneMade, OnPublished,
     Building, EarlyTripKept
<1>10. TripTakesEffect'
  BY <1>0 DEF IInv, TypeOK, TripTakesEffect, Places, BindAt, TrippedAt,
     BoundAt, CloseAt, HasTripped, RingFlags, OneMade, OnPublished
<1>11. TypeOK'
  BY <1>1, <1>5, NoNilScopeNext
<1>12. QED
  BY <1>2, <1>3, <1>4, <1>5, <1>6, <1>7, <1>8, <1>9, <1>10, <1>11 DEF IInv

(* The carrier is closed.                                                     *)
LEMMA CloseStoreStep ==
  ASSUME IInv, NEW p \in Proc, CloseStore(p)
  PROVE  IInv'
<1>0. TypeOK
  BY DEF IInv
<1> USE DEF CloseStore, Goto, LoadScope, Unlock, ringVars
<1>1. Types'
  BY <1>0 DEF IInv, TypeOK, Deref, Types, At, BindAt, TripAt, TrippedAt,
     BoundAt, CloseAt
<1>2. Holder'
  BY <1>0, NilAssumption DEF IInv, TypeOK, Holder, Locked
<1>3. RingHolder'
  BY <1>0, NilAssumption DEF IInv, TypeOK, Deref, RingHolder, RingLocked
<1>4. Places'
  BY <1>0 DEF IInv, TypeOK, Places, BindAt, TrippedAt, BoundAt, CloseAt
<1>5. OneMade'
  BY <1>0 DEF IInv, TypeOK, Deref, OneMade, Holder, Locked, Building,
     OnPublished
<1>6. InHand'
  BY <1>0 DEF IInv, TypeOK, InHand, OneMade, Building, OnPublished, Holder,
     Locked
<1>7. RingFlags'
  BY <1>0 DEF IInv, TypeOK, Deref, RingFlags, OneMade, Building, OnPublished,
     Holder, Locked
<1>8. EarlyTripKept'
  BY <1>0 DEF IInv, TypeOK, EarlyTripKept, OneMade, Building, Holder, Locked
<1>9. OneTrigger'
  BY <1>0 DEF IInv, TypeOK, OneTrigger, HasTripped, OneMade, OnPublished,
     Building, EarlyTripKept
<1>10. TripTakesEffect'
  BY <1>0 DEF IInv, TypeOK, TripTakesEffect, Places, BindAt, TrippedAt,
     BoundAt, CloseAt, HasTripped, RingFlags, OneMade, OnPublished
<1>11. TypeOK'
  BY <1>1, <1>5, NoNilScopeNext
<1>12. QED
  BY <1>2, <1>3, <1>4, <1>5, <1>6, <1>7, <1>8, <1>9, <1>10, <1>11 DEF IInv

(* The engine is closed, after the carrier.                                   *)
LEMMA ShutRingStep ==
  ASSUME IInv, NEW p \in Proc, ShutRing(p)
  PROVE  IInv'
<1>0. TypeOK
  BY DEF IInv
<1> USE DEF ShutRing, Goto, UnlockRing, carrierVars
<1>1. Types'
  BY <1>0 DEF IInv, TypeOK, Deref, Types, At, BindAt, TripAt, TrippedAt,
     BoundAt, CloseAt
<1>2. Holder'
  BY <1>0, NilAssumption DEF IInv, TypeOK, Holder, Locked
<1>3. RingHolder'
  BY <1>0, NilAssumption DEF IInv, TypeOK, Deref, RingHolder, RingLocked
<1>4. Places'
  BY <1>0 DEF IInv, TypeOK, Places, BindAt, TrippedAt, BoundAt, CloseAt
<1>5. OneMade'
  BY <1>0 DEF IInv, TypeOK, Deref, OneMade, Holder, Locked, Building,
     OnPublished
<1>6. InHand'
  BY <1>0 DEF IInv, TypeOK, InHand, OneMade, Building, OnPublished, Holder,
     Locked
<1>7. RingFlags'
  BY <1>0 DEF IInv, TypeOK, Deref, RingFlags, OneMade, Building, OnPublished,
     Holder, Locked
<1>8. EarlyTripKept'
  BY <1>0 DEF IInv, TypeOK, EarlyTripKept, OneMade, Building, Holder, Locked
<1>9. OneTrigger'
  BY <1>0 DEF IInv, TypeOK, OneTrigger, HasTripped, OneMade, OnPublished,
     Building, EarlyTripKept
<1>10. TripTakesEffect'
  BY <1>0 DEF IInv, TypeOK, TripTakesEffect, Places, BindAt, TrippedAt,
     BoundAt, CloseAt, HasTripped, RingFlags, OneMade, OnPublished
<1>11. TypeOK'
  BY <1>1, <1>5, NoNilScopeNext
<1>12. QED
  BY <1>2, <1>3, <1>4, <1>5, <1>6, <1>7, <1>8, <1>9, <1>10, <1>11 DEF IInv

(* A call begins.                                                             *)
LEMMA StartStep ==
  ASSUME IInv, NEW p \in Proc, NEW c \in Call, Start(p, c)
  PROVE  IInv'
<1>0. TypeOK
  BY DEF IInv
<1>a. PICK e \in {"bindClosed", "boundClosed", "markClosed", "askClosed",
                  "closeLock"} :
         /\ e = Entry(c)
         /\ e \in BindAt => c = "Bind"
         /\ e \in TrippedAt => c = "Tripped"
         /\ e \in BoundAt => c = "Bound"
         /\ e \in CloseAt => c = "Close"
  BY DEF Call, Entry, BindAt, TrippedAt, BoundAt, CloseAt
<1>b. /\ pc[p] = "idle"
      /\ pc' = [pc EXCEPT ![p] = e]
      /\ call' = [call EXCEPT ![p] = c]
      /\ got' = [got EXCEPT ![p] = NoRing]
      /\ answer' = [answer EXCEPT ![p] = FALSE]
      /\ began' = [began EXCEPT ![p] = [tripped |-> HasTripped, closed |-> closed]]
      /\ UNCHANGED <<mu, scope, preTripped, closed, smu, tripped, shut, made, wins>>
  BY <1>a DEF Start, carrierVars, ringVars
<1>1. Types'
  <2>1. e \in At
    BY DEF At, BindAt, TripAt, TrippedAt, BoundAt, CloseAt
  <2>2. HasTripped \in BOOLEAN
    BY <1>0 DEF TypeOK, HasTripped
  <2>3. began' \in [Proc -> [tripped : BOOLEAN, closed : BOOLEAN]]
    BY <1>0, <1>b, <2>2 DEF TypeOK
  <2>4. QED
    BY <1>0, <1>b, <2>1, <2>3 DEF TypeOK, Types
<1>2. Holder'
  BY <1>0, <1>b, NilAssumption DEF IInv, TypeOK, Holder, Locked
<1>3. RingHolder'
  BY <1>0, <1>b, NilAssumption DEF IInv, TypeOK, RingHolder, RingLocked
<1>4. Places'
  BY <1>0, <1>a, <1>b DEF IInv, TypeOK, Places
<1>5. OneMade'
  BY <1>0, <1>b DEF IInv, TypeOK, OneMade, Building, OnPublished
<1>6. InHand'
  BY <1>0, <1>b DEF IInv, TypeOK, InHand, Building
<1>7. RingFlags'
  BY <1>0, <1>b DEF IInv, TypeOK, RingFlags
<1>8. EarlyTripKept' /\ OneTrigger'
  BY <1>0, <1>b DEF IInv, TypeOK, EarlyTripKept, OneTrigger, HasTripped
<1>9. TripTakesEffect'
  BY <1>0, <1>b DEF IInv, TypeOK, TripTakesEffect, HasTripped
<1>10. TypeOK'
  BY <1>1, <1>5, NoNilScopeNext
<1>11. QED
  BY <1>2, <1>3, <1>4, <1>5, <1>6, <1>7, <1>8, <1>9, <1>10 DEF IInv

(* Every step preserves the invariant.                                        *)
LEMMA NextIInv == IInv /\ [Next]_vars => IInv'
<1> SUFFICES ASSUME IInv, [Next]_vars PROVE IInv'
  OBVIOUS
<1>1. CASE UNCHANGED vars
  BY <1>1 DEF vars, carrierVars, ringVars, callVars, IInv, TypeOK, Holder,
     RingHolder, Places, OneMade, InHand, RingFlags, EarlyTripKept, OneTrigger,
     TripTakesEffect, HasTripped
<1>2. ASSUME NEW p \in Proc, NEW c \in Call, Start(p, c) PROVE IInv'
  BY <1>2, StartStep
<1>3. ASSUME NEW p \in Proc, BindStep(p) PROVE IInv'
  BY <1>3, FreeSteps, LockSteps, UnlockSteps, RingLockSteps, BindGetStep,
     BindTripStep, BindStoreStep DEF BindStep
<1>4. ASSUME NEW p \in Proc, TripStep(p) PROVE IInv'
  BY <1>4, FreeSteps, LockSteps, UnlockSteps, RingLockSteps, MarkFirstStep,
     FlushTripsStep, FlushRefusedStep DEF TripStep
<1>5. ASSUME NEW p \in Proc, AskStep(p) PROVE IInv'
  BY <1>5, FreeSteps DEF AskStep
<1>6. ASSUME NEW p \in Proc, CloseStep(p) PROVE IInv'
  BY <1>6, LockSteps, RingLockSteps, CloseStoreStep, ShutRingStep DEF CloseStep
<1>7. QED
  BY <1>1, <1>2, <1>3, <1>4, <1>5, <1>6 DEF Next, Step

LEMMA Invariance == Spec => []IInv
  BY InitIInv, NextIInv, PTL DEF Spec

-----------------------------------------------------------------------------
(* Type correctness, and no call of Bind, Trip, Tripped or Close dereferences *)
(* a nil scope (carrier.go:94-213).                                           *)
THEOREM CarrierTypeCorrect == Spec => []TypeOK
<1>1. IInv => TypeOK
  BY DEF IInv
<1>2. QED
  BY <1>1, Invariance, PTL

(* "Exactly one call" is told that it tripped the scope, whether the bare     *)
(* trip, the engine or both race for it (carrier.go:131-155).                 *)
THEOREM OneCallTrips == Spec => []OneTrigger
<1>1. IInv => OneTrigger
  BY DEF IInv
<1>2. QED
  BY <1>1, Invariance, PTL

(* One ring per context chain, however many goroutines bind it at once        *)
(* (carrier.go:76-116).                                                       *)
THEOREM OneRingPerContext == Spec => []OneRing
<1>1. IInv => OneRing
  <2> SUFFICES ASSUME IInv PROVE OneRing
    OBVIOUS
  <2>1. ASSUME NEW r \in made, NEW q \in made PROVE r = q
    <3>1. CASE \E p \in Proc : pc[p] \in Building
      BY <3>1 DEF IInv, OneMade
    <3>2. CASE \A p \in Proc : pc[p] \notin Building
      BY <3>2 DEF IInv, OneMade
    <3>3. QED
      BY <3>1, <3>2
  <2>2. \A p \in Proc : pc[p] = "idle" => got[p] \in {NoRing, scope}
    BY DEF IInv, InHand, Building
  <2>3. QED
    BY <2>1, <2>2 DEF OneRing
<1>2. QED
  BY <1>1, Invariance, PTL

(* A trip that came before the ring is on the ring when it is published       *)
(* (carrier.go:60-64, 110-113).                                               *)
THEOREM EarlyTripIsKept == Spec => []EarlyTripKept
<1>1. IInv => EarlyTripKept
  BY DEF IInv
<1>2. QED
  BY <1>1, Invariance, PTL

(* A Trip that returned has tripped the scope, unless the scope has ended     *)
(* (src/scope.go:207-216, carrier.go:134-155).                                *)
THEOREM TripHasEffect == Spec => []TripTakesEffect
<1>1. IInv => TripTakesEffect
  BY DEF IInv
<1>2. QED
  BY <1>1, Invariance, PTL

(* After the release every scope taken from the pool has been closed, and no  *)
(* late Bind adds another (carrier.go:66-70, 104, 202-213).                   *)
THEOREM NothingOutlivesRelease == Spec => []NoRingLeaks
<1>1. IInv => NoRingLeaks
  <2> SUFFICES ASSUME IInv, closed,
                      \A p \in Proc : pc[p] \notin {"shutLock", "shutRing"},
                      NEW r \in made
               PROVE  shut[r]
    BY DEF NoRingLeaks
  <2>1. \A p \in Proc : pc[p] \notin Building
    BY DEF IInv, OneMade
  <2>2. r = scope /\ scope # NoRing
    BY <2>1 DEF IInv, OneMade
  <2>3. QED
    BY <2>2 DEF IInv, RingFlags
<1>2. QED
  BY <1>1, Invariance, PTL

-----------------------------------------------------------------------------
(* What a call may still say of the past it began with.                       *)

\* Every call that began after the trip finds it: the flag or the ring has it at
\* whichever of the two moments the call looks.
StillTripped(p) ==
    began[p].tripped =>
        /\ HasTripped
        /\ call[p] = "Tripped" =>
            /\ pc[p] = "askScope" => scope # NoRing /\ tripped[scope]
            /\ pc[p] = "askRing" => tripped[scope]
            /\ pc[p] = "idle" => answer[p] \/ closed

\* A call that began after the release gets no further than its first test.
StillClosed(p) ==
    began[p].closed =>
        /\ closed
        /\ call[p] # "Close" =>
            /\ pc[p] \in {"bindClosed", "boundClosed", "markClosed", "askClosed", "idle"}
            /\ got[p] = NoRing /\ ~answer[p]

Remembered ==
    \A p \in Proc :
        /\ StillTripped(p)
        /\ StillClosed(p)
        /\ pc[p] \in TripAt => call[p] = "Trip"

(* No step takes back a trip, a release or a published scope, nor moves       *)
(* another goroutine.                                                         *)
LEMMA StepKeeps ==
  ASSUME IInv, NEW p \in Proc, Step(p)
  PROVE  /\ closed => closed'
         /\ preTripped => preTripped'
         /\ \A r \in Ring : tripped[r] => tripped'[r]
         /\ scope # NoRing => scope' = scope
         /\ call' = call /\ began' = began
         /\ \A q \in Proc : q # p =>
                pc'[q] = pc[q] /\ got'[q] = got[q] /\ answer'[q] = answer[q]
<1> USE DEF Goto, Private, LoadScope, CheckClosed, Acquire, AcquireRing, Unlock,
            UnlockRing, carrierVars, ringVars
<1>0. TypeOK
  BY DEF IInv
<1>1. CASE BindStep(p)
  <2>1. CASE BindClosed(p) \/ BindScope(p) \/ BindLock(p) \/ BindRecheckNone(p)
    BY <1>0, <2>1 DEF TypeOK, BindClosed, BindScope, BindLock, BindRecheckNone
  <2>2. CASE \E r \in Ring : BindGet(p, r)
    BY <1>0, <2>2 DEF TypeOK, BindGet
  <2>3. CASE BindTripLock(p) \/ BindTrip(p)
    BY <1>0, <2>3 DEF TypeOK, BindTripLock, BindTrip
  <2>4. CASE BindStore(p)
    <3>1. scope = NoRing
      BY <2>4 DEF IInv, OneMade, Building, BindStore
    <3>2. QED
      BY <1>0, <2>4, <3>1 DEF TypeOK, BindStore
  <2>5. QED
    BY <1>1, <2>1, <2>2, <2>3, <2>4 DEF BindStep
<1>2. CASE TripStep(p)
  <2>1. CASE MarkClosed(p) \/ MarkScope(p) \/ MarkLock(p) \/ MarkRecheckClosed(p)
    BY <1>0, <2>1 DEF TypeOK, MarkClosed, MarkScope, MarkLock, MarkRecheckClosed
  <2>2. CASE MarkRecheckScope(p) \/ MarkAgain(p) \/ MarkFirst(p)
    BY <1>0, <2>2 DEF TypeOK, MarkRecheckScope, MarkAgain, MarkFirst
  <2>3. CASE FlushLock(p) \/ FlushTrips(p) \/ FlushRefused(p)
    BY <1>0, <2>3 DEF TypeOK, FlushLock, FlushTrips, FlushRefused
  <2>4. QED
    BY <1>2, <2>1, <2>2, <2>3 DEF TripStep
<1>3. CASE AskStep(p)
  BY <1>0, <1>3 DEF AskStep, TypeOK, AskClosed, AskPre, AskScope, AskRing, BoundClosed,
     BoundScope
<1>4. CASE CloseStep(p)
  BY <1>0, <1>4 DEF CloseStep, TypeOK, CloseLock, CloseStore, ShutLock, ShutRing
<1>5. QED
  BY <1>1, <1>2, <1>3, <1>4 DEF Step

(* While the flag is down, a trip is on the published ring.                   *)
LEMMA TripIsPublished ==
  ASSUME IInv, HasTripped, ~preTripped
  PROVE  scope # NoRing /\ tripped[scope]
<1>1. PICK r \in Ring : tripped[r]
  BY DEF HasTripped
<1>2. r \in made
  BY <1>1 DEF IInv, RingFlags
<1>3. \A p \in Proc : pc[p] \notin Building
  <2> SUFFICES ASSUME NEW p \in Proc, pc[p] \in Building PROVE FALSE
    OBVIOUS
  <2>1. /\ made = {got[p]}
        /\ tripped[got[p]] => pc[p] = "bindStore"
        /\ pc[p] = "bindStore" => tripped[got[p]] = preTripped
    BY DEF IInv, OneMade
  <2>2. QED
    BY <1>1, <1>2, <2>1
<1>4. made = IF scope = NoRing THEN {} ELSE {scope}
  BY <1>3 DEF IInv, OneMade
<1>5. QED
  BY <1>1, <1>2, <1>4

(* What p may rely on, after its own step and after another's.                *)
LEMMA StepRemembers ==
  ASSUME IInv, Remembered, NEW p \in Proc, Step(p), NEW q \in Proc
  PROVE  StillTripped(q)' /\ StillClosed(q)' /\ (pc'[q] \in TripAt => call'[q] = "Trip")
<1>0. /\ TypeOK /\ StillTripped(q) /\ StillClosed(q)
      /\ pc[q] \in TripAt => call[q] = "Trip"
  BY DEF IInv, Remembered
<1>k. /\ closed => closed'
      /\ HasTripped => HasTripped'
      /\ \A r \in Ring : tripped[r] => tripped'[r]
      /\ scope # NoRing => scope' = scope
      /\ call' = call /\ began' = began
      /\ q # p => pc'[q] = pc[q] /\ got'[q] = got[q] /\ answer'[q] = answer[q]
  BY StepKeeps DEF HasTripped
<1>r. scope # NoRing => scope \in Ring
  BY <1>0 DEF TypeOK
<1>a. pc[q] = "askRing" => scope # NoRing
  BY DEF IInv, OneMade, OnPublished
<1>1. CASE q # p
  BY <1>0, <1>1, <1>k, <1>r, <1>a DEF StillTripped, StillClosed
<1>2. CASE q = p
  <2>p. /\ pc[p] \in BindAt => call[p] = "Bind"
        /\ pc[p] \in TrippedAt => call[p] = "Tripped"
        /\ pc[p] \in BoundAt => call[p] = "Bound"
        /\ pc[p] \in CloseAt => call[p] = "Close"
    BY DEF IInv, Places
  <2>1. StillClosed(p)'
    <3> SUFFICES ASSUME began[p].closed
                 PROVE  /\ closed'
                        /\ call[p] # "Close" =>
                            /\ pc'[p] \in {"bindClosed", "boundClosed", "markClosed",
                                           "askClosed", "idle"}
                            /\ got'[p] = NoRing /\ ~answer'[p]
      BY <1>k DEF StillClosed
    <3>1. /\ closed
          /\ call[p] # "Close" =>
                /\ pc[p] \in {"bindClosed", "boundClosed", "markClosed", "askClosed", "idle"}
                /\ got[p] = NoRing /\ ~answer[p]
      BY <1>0, <1>2 DEF StillClosed
    <3>2. CASE call[p] = "Close"
      BY <1>k, <3>1, <3>2
    <3>3. ASSUME call[p] # "Close"
          PROVE  pc'[p] = "idle" /\ got'[p] = got[p] /\ answer'[p] = answer[p]
      <4>1. BindClosed(p) \/ BoundClosed(p) \/ MarkClosed(p) \/ AskClosed(p)
        BY <3>1, <3>3, <2>p
           DEF Step, BindStep, TripStep, AskStep, CloseStep, BindClosed, BindScope, BindLock,
               BindRecheckNone, BindGet, BindTripLock, BindTrip, BindStore, MarkClosed,
               MarkScope, MarkLock, MarkRecheckClosed, MarkRecheckScope, MarkAgain,
               MarkFirst, FlushLock, FlushTrips, FlushRefused, AskClosed, AskPre, AskScope,
               AskRing, BoundClosed, BoundScope, CloseLock, CloseStore, ShutLock, ShutRing,
               Goto, CheckClosed, Acquire, AcquireRing, CloseAt
      <4>2. QED
        BY <1>0, <3>1, <4>1
           DEF TypeOK, BindClosed, BoundClosed, MarkClosed, AskClosed, CheckClosed, Goto
    <3>4. QED
      BY <1>k, <3>1, <3>2, <3>3
  <2>2. StillTripped(p)'
    <3> SUFFICES ASSUME began[p].tripped
                 PROVE  /\ HasTripped'
                        /\ call[p] = "Tripped" =>
                            /\ pc'[p] = "askScope" => scope' # NoRing /\ tripped'[scope']
                            /\ pc'[p] = "askRing" => tripped'[scope']
                            /\ pc'[p] = "idle" => answer'[p] \/ closed'
      BY <1>k DEF StillTripped
    <3>1. HasTripped
      BY <1>0, <1>2 DEF StillTripped
    <3>2. ASSUME call[p] = "Tripped"
          PROVE  /\ pc'[p] = "askScope" => scope' # NoRing /\ tripped'[scope']
                 /\ pc'[p] = "askRing" => tripped'[scope']
                 /\ pc'[p] = "idle" => answer'[p] \/ closed'
      <4>1. /\ pc[p] = "askScope" => scope # NoRing /\ tripped[scope]
            /\ pc[p] = "askRing" => tripped[scope]
        BY <1>0, <1>2, <3>2 DEF StillTripped
      <4>2. CASE AskClosed(p)
        BY <1>0, <1>k, <4>2 DEF AskClosed, CheckClosed, Goto, TypeOK
      <4>3. CASE AskPre(p)
        <5>1. ~preTripped => scope # NoRing /\ tripped[scope]
          BY <3>1, TripIsPublished
        <5>2. scope' = scope /\ tripped' = tripped /\ answer'[p] = preTripped
              /\ pc'[p] = IF preTripped THEN "idle" ELSE "askScope"
          BY <1>0, <4>3 DEF AskPre, Goto, Private, TypeOK, carrierVars, ringVars
        <5>3. QED
          BY <5>1, <5>2
      <4>4. CASE AskScope(p)
        BY <1>0, <4>1, <4>4 DEF AskScope, Goto, Private, TypeOK, carrierVars, ringVars
      <4>5. CASE AskRing(p)
        <5>1. got[p] = scope
          BY <4>5 DEF IInv, OneMade, OnPublished, AskRing, Goto
        <5>2. answer'[p] = tripped[got[p]] /\ pc'[p] = "idle"
          BY <1>0, <4>5 DEF AskRing, Goto, TypeOK
        <5>3. pc[p] = "askRing"
          BY <4>5 DEF AskRing, Goto
        <5>4. QED
          BY <4>1, <5>1, <5>2, <5>3
      <4>6. AskClosed(p) \/ AskPre(p) \/ AskScope(p) \/ AskRing(p)
            \/ pc'[p] \notin {"askScope", "askRing", "idle"}
        BY <1>0, <1>2, <3>2, <2>p
           DEF Step, BindStep, TripStep, AskStep, CloseStep, BindClosed, BindScope, BindLock,
               BindRecheckNone, BindGet, BindTripLock, BindTrip, BindStore, MarkClosed,
               MarkScope, MarkLock, MarkRecheckClosed, MarkRecheckScope, MarkAgain,
               MarkFirst, FlushLock, FlushTrips, FlushRefused, BoundClosed, BoundScope,
               CloseLock, CloseStore, ShutLock, ShutRing,
               Goto, CheckClosed, Acquire, AcquireRing, CloseAt, BindAt, BoundAt, TripAt
      <4>7. QED
        BY <4>2, <4>3, <4>4, <4>5, <4>6
    <3>3. QED
      BY <1>k, <3>1, <3>2
  <2>3. pc'[p] \in TripAt => call'[p] = "Trip"
    <3>1. pc'[p] \in TripAt => pc[p] \in TripAt
      BY <1>0
         DEF TypeOK, Step, BindStep, TripStep, AskStep, CloseStep, BindClosed, BindScope,
             BindLock, BindRecheckNone, BindGet, BindTripLock, BindTrip, BindStore,
             MarkClosed, MarkScope, MarkLock, MarkRecheckClosed, MarkRecheckScope,
             MarkAgain, MarkFirst, FlushLock, FlushTrips, FlushRefused, AskClosed, AskPre,
             AskScope, AskRing, BoundClosed, BoundScope, CloseLock, CloseStore, ShutLock,
             ShutRing, Goto, CheckClosed, Acquire, AcquireRing, TripAt
    <3>2. QED
      BY <1>0, <1>2, <1>k, <3>1
  <2>4. QED
    BY <1>2, <2>1, <2>2, <2>3
<1>3. QED
  BY <1>1, <1>2

(* A call begins knowing what holds, and having answered nothing.             *)
LEMMA StartRemembers ==
  ASSUME IInv, Remembered, NEW p \in Proc, NEW c \in Call, Start(p, c)
  PROVE  Remembered'
<1>0. TypeOK
  BY DEF IInv
<1>1. /\ pc'[p] = Entry(c) /\ call'[p] = c
      /\ got'[p] = NoRing /\ answer'[p] = FALSE
      /\ began'[p].tripped = HasTripped /\ began'[p].closed = closed
      /\ \A q \in Proc : q # p =>
            /\ pc'[q] = pc[q] /\ call'[q] = call[q] /\ got'[q] = got[q]
            /\ answer'[q] = answer[q] /\ began'[q] = began[q]
      /\ UNCHANGED <<scope, closed, preTripped, tripped>>
  BY <1>0 DEF Start, TypeOK, carrierVars, ringVars
<1>2. HasTripped' <=> HasTripped
  BY <1>1 DEF HasTripped
<1>3. ASSUME NEW q \in Proc, q # p
      PROVE  StillTripped(q)' /\ StillClosed(q)' /\ (pc'[q] \in TripAt => call'[q] = "Trip")
  BY <1>1, <1>2, <1>3 DEF Remembered, StillTripped, StillClosed
<1>4. /\ Entry(c) \in {"bindClosed", "boundClosed", "markClosed", "askClosed", "closeLock"}
      /\ Entry(c) = "closeLock" => c = "Close"
      /\ Entry(c) \in TripAt => c = "Trip"
  BY DEF Entry, Call, TripAt
<1>5. StillTripped(p)' /\ StillClosed(p)' /\ (pc'[p] \in TripAt => call'[p] = "Trip")
  BY <1>1, <1>2, <1>4 DEF StillTripped, StillClosed
<1>6. QED
  BY <1>3, <1>5 DEF Remembered

LEMMA InitRemembers == Init => Remembered
  BY DEF Init, Remembered, StillTripped, StillClosed, TripAt

LEMMA NextRemembers == IInv /\ Remembered /\ [Next]_vars => Remembered'
<1> SUFFICES ASSUME IInv, Remembered, [Next]_vars PROVE Remembered'
  OBVIOUS
<1>1. CASE UNCHANGED vars
  BY <1>1 DEF vars, carrierVars, ringVars, callVars, Remembered, StillTripped,
     StillClosed, HasTripped
<1>2. ASSUME NEW p \in Proc, NEW c \in Call, Start(p, c) PROVE Remembered'
  BY <1>2, StartRemembers
<1>3. ASSUME NEW p \in Proc, Step(p) PROVE Remembered'
  BY <1>3, StepRemembers DEF Remembered
<1>4. QED
  BY <1>1, <1>2, <1>3 DEF Next

LEMMA CallsRemember == Spec => []Remembered
  BY InitRemembers, NextRemembers, Invariance, PTL, InitIInv, NextIInv DEF Spec

(* Tripped looks at the flag and the ring at two moments, while a trip may    *)
(* move from one to the other: no call that began after the trip denies it on *)
(* an open carrier (carrier.go:176-185).                                      *)
THEOREM TripIsNotForgotten == Spec => []TrippedIsSeen
<1>1. Remembered => TrippedIsSeen
  BY DEF Remembered, StillTripped, TrippedIsSeen
<1>2. QED
  BY <1>1, CallsRemember, PTL

(* A call that began after the release sees no scope and no trip, whatever    *)
(* raced with the release (carrier.go:85-87, 173-175).                        *)
THEOREM ReleasedHasNoScope == Spec => []ReleasedIsNoScope
<1>1. Remembered => ReleasedIsNoScope
  BY DEF Remembered, StillClosed, ReleasedIsNoScope
<1>2. QED
  BY <1>1, CallsRemember, PTL
-----------------------------------------------------------------------------
(* Refinement.  Attach, Trip, Close and Release of SharedScope are the store  *)
(* of the scope, MarkFirst or FlushTrips, the store of closed, and the        *)
(* engine's close; every other step is a stutter.                             *)

(* A step that leaves the carrier's scope, the trip flags and closed alone    *)
(* is a stutter.                                                              *)
LEMMA Stutter ==
  ASSUME UNCHANGED <<scope, preTripped, tripped, wins, closed, shut>>
  PROVE  UNCHANGED S!vars
  BY DEF S!vars, HasTripped

LEMMA StepRefines ==
  ASSUME IInv, NEW p \in Proc, Step(p)
  PROVE  [S!Next]_S!vars
<1>0. TypeOK
  BY DEF IInv
<1>1. CASE UNCHANGED <<scope, preTripped, tripped, wins, closed, shut>>
  BY <1>1, Stutter
<1>2. CASE BindTrip(p)
  <2>1. preTripped /\ preTripped' /\ wins' = wins /\ scope = NoRing /\ scope' = NoRing
    BY <1>2 DEF IInv, OneMade, Building, BindTrip, Goto, carrierVars
  <2>2. HasTripped /\ HasTripped'
    BY <2>1 DEF HasTripped
  <2>3. HasTripped' = HasTripped
    BY <2>2 DEF HasTripped
  <2>4. QED
    BY <1>2, <2>1, <2>3 DEF S!vars, BindTrip, carrierVars
<1>3. CASE BindStore(p)
  <2>1. scope = NoRing /\ ~closed /\ got[p] \in Ring /\ ~shut[got[p]]
    BY <1>0, <1>3 DEF IInv, OneMade, Building, TypeOK, Deref, BindStore, Goto
  <2>2. scope' \in Ring /\ ~shut'[scope']
    BY <1>3, <2>1 DEF BindStore, ringVars
  <2>3. HasTripped' = HasTripped /\ wins' = wins /\ closed' = closed
    BY <1>3 DEF BindStore, ringVars, HasTripped
  <2>4. (scope' # NoRing /\ shut'[scope']) = (scope # NoRing /\ shut[scope])
    BY <2>1, <2>2
  <2>5. S!Attach
    BY <2>1, <2>2, <2>3, <2>4 DEF S!Attach
  <2>6. QED
    BY <2>5 DEF S!Next
<1>4. CASE MarkFirst(p)
  <2>1. pc[p] = "markRecheck" /\ scope = NoRing /\ ~closed /\ ~preTripped
    BY <1>4 DEF MarkFirst, Goto
  <2>2. ~HasTripped
    BY <2>1, NothingMade DEF HasTripped, Locked, Building
  <2>3. HasTripped' = TRUE
    BY <1>4 DEF MarkFirst, HasTripped
  <2>4. UNCHANGED <<scope, closed, shut>> /\ wins' = wins + 1
    BY <1>4 DEF MarkFirst, ringVars
  <2>5. S!Trip
    BY <2>1, <2>2, <2>3, <2>4 DEF S!Trip
  <2>6. QED
    BY <2>5 DEF S!Next
<1>5. CASE FlushTrips(p)
  <2>1. got[p] = scope /\ scope \in Ring /\ ~tripped[scope] /\ ~shut[scope]
    BY <1>0, <1>5 DEF IInv, TypeOK, OneMade, OnPublished, FlushTrips, Goto
  <2>2. made = {scope}
    BY <1>0, <2>1, NilAssumption DEF IInv, OneMade, TypeOK
  <2>3. ~HasTripped
    BY <2>1, <2>2, NilAssumption DEF IInv, HasTripped, EarlyTripKept, RingFlags
  <2>4. HasTripped' = TRUE
    BY <1>0, <1>5, <2>1 DEF FlushTrips, HasTripped, TypeOK
  <2>5. UNCHANGED <<scope, closed, shut>> /\ wins' = wins + 1
    BY <1>5 DEF FlushTrips, carrierVars
  <2>6. scope # NoRing
    BY <2>1, NilAssumption
  <2>7. S!Trip
    BY <2>1, <2>3, <2>4, <2>5, <2>6 DEF S!Trip
  <2>8. QED
    BY <2>7 DEF S!Next
<1>6. CASE CloseStore(p)
  <2>1. HasTripped' = HasTripped /\ UNCHANGED <<scope, shut, wins>> /\ closed' = TRUE
    BY <1>6 DEF CloseStore, ringVars, HasTripped
  <2>2. CASE closed
    BY <2>1, <2>2 DEF S!vars
  <2>3. CASE ~closed
    BY <2>1, <2>3 DEF S!Close, S!Next
  <2>4. QED
    BY <2>2, <2>3
<1>7. CASE ShutRing(p)
  <2>1. got[p] = scope /\ scope # NoRing /\ scope \in Ring /\ closed
    BY <1>0, <1>7 DEF IInv, TypeOK, OneMade, OnPublished, RingFlags, ShutRing, Goto
  <2>2. HasTripped' = HasTripped /\ UNCHANGED <<scope, closed, wins>>
    BY <1>7 DEF ShutRing, carrierVars, HasTripped
  <2>3. shut'[scope] = TRUE
    BY <1>0, <1>7, <2>1 DEF ShutRing, TypeOK
  <2>4. CASE shut[scope]
    BY <1>0, <2>1, <2>2, <2>3, <2>4 DEF S!vars, TypeOK
  <2>5. CASE ~shut[scope]
    BY <2>1, <2>2, <2>3, <2>5 DEF S!Release, S!Next
  <2>6. QED
    BY <2>4, <2>5
<1>8. CASE BindStep(p)
  BY <1>1, <1>2, <1>3, <1>8 DEF BindStep, BindClosed, BindScope, BindLock,
     BindRecheckNone, BindGet, BindTripLock, CheckClosed, Acquire, AcquireRing,
     Private, carrierVars, ringVars
<1>9. CASE TripStep(p)
  BY <1>1, <1>4, <1>5, <1>9 DEF TripStep, MarkClosed, MarkScope, MarkLock,
     MarkRecheckClosed, MarkRecheckScope, MarkAgain, FlushLock, FlushRefused,
     CheckClosed, Acquire, AcquireRing, Private, carrierVars, ringVars
<1>10. CASE AskStep(p)
  BY <1>1, <1>10 DEF AskStep, AskClosed, AskPre, AskScope, AskRing, BoundClosed,
     BoundScope, CheckClosed, Private, carrierVars, ringVars
<1>11. CASE CloseStep(p)
  BY <1>1, <1>6, <1>7, <1>11 DEF CloseStep, CloseLock, ShutLock, Acquire,
     AcquireRing, carrierVars, ringVars
<1>12. QED
  BY <1>8, <1>9, <1>10, <1>11 DEF Step

(* The carrier keeps every promise of SharedScope, for any number of          *)
(* goroutines.                                                                *)
THEOREM CarrierImplementsSharedScope == Spec => ImplementsSharedScope
<1>1. Init => S!Init
  BY DEF Init, S!Init, HasTripped
<1>2. IInv /\ [Next]_vars => [S!Next]_S!vars
  <2> SUFFICES ASSUME IInv, [Next]_vars PROVE [S!Next]_S!vars
    OBVIOUS
  <2>1. CASE UNCHANGED vars
    BY <2>1, Stutter DEF vars, carrierVars, ringVars, callVars
  <2>2. ASSUME NEW p \in Proc, Step(p) PROVE [S!Next]_S!vars
    BY <2>2, StepRefines
  <2>3. ASSUME NEW p \in Proc, NEW c \in Call, Start(p, c) PROVE [S!Next]_S!vars
    BY <2>3, Stutter DEF Start, carrierVars, ringVars
  <2>4. QED
    BY <2>1, <2>2, <2>3 DEF Next
<1>3. QED
  BY <1>1, <1>2, Invariance, PTL DEF Spec, S!Spec, ImplementsSharedScope
=============================================================================
