------------------------------- MODULE Scope -------------------------------
(* The buffering engine of internal/core: Scope (scope.go), a bounded         *)
(* drop-oldest ring with a one-shot trip, and ScopePool (pool.go), which      *)
(* hands the ring of a closed scope to a later one.  Every method body is one *)
(* critical section under the scope's own mutex, so each is one action here.  *)
(* The one read outside the mutex, tripped.Load() in PassThrough, is of a     *)
(* flag that only ever rises: a caller that sees it down passes as it would   *)
(* have an instant before the trip, one that sees it up finds tripState set   *)
(* when it gets the mutex, so the call is still one action.                   *)
(*                                                                            *)
(* Rings are arrays on the heap, so they are modelled by identity: a Box is a *)
(* ring array, mem its slots, and a scope holds at most a reference to one.   *)
EXTENDS Integers, Sequences

CONSTANTS ScopeId,          \* the scopes a program may open
          Box,              \* the ring arrays the heap may hold at once
          Entry,            \* what an adapter buffers
          Zero,             \* the zero value of the entry type
          NoBox,            \* a nil ring
          CapacityArg,      \* WithCapacity as given, any integer
          PostTripArg,      \* WithPostTripLimit as given, any integer
          DefaultCapacity,  \* core.DefaultCapacity
          MaxBuffered,      \* bound: entries buffered into one scope
          MaxPassed         \* bound: entries one scope lets through after its trip

ASSUME SizesAssumption ==
    /\ CapacityArg \in Int
    /\ PostTripArg \in Int
    /\ DefaultCapacity \in Nat \ {0}
    /\ MaxBuffered \in Nat
    /\ MaxPassed \in Nat

ASSUME NilsAssumption ==
    /\ NoBox \notin Box
    /\ Zero \notin Entry

VARIABLES mem,       \* the slots of every ring array
          free,      \* the rings lying in the pool (sync.Pool)
          made,      \* the scopes that exist
          sc,        \* the fields of every scope
          appended,  \* history: the entries each scope buffered
          batch,     \* what each scope's Trip returned: the entries ...
          lost,      \* ... and the evictions it reported
          reply      \* the answer of the latest call

vars == <<mem, free, made, sc, appended, batch, lost, reply>>

(* The arguments as NewScope and NewScopePool normalise them. *)
Capacity == IF CapacityArg <= 0 THEN DefaultCapacity ELSE CapacityArg
Limit == IF PostTripArg < 0 THEN 0 ELSE PostTripArg

Slots == 0 .. Capacity - 1
Blank == [i \in Slots |-> Zero]

ScopeRecord ==
    [ring : Box \cup {NoBox}, start : Slots, length : 0 .. Capacity,
     dropped : Nat, postTrip : Nat, tripped : BOOLEAN, tripState : BOOLEAN,
     closed : BOOLEAN, pooled : BOOLEAN]

\* A scope over ring b, as the struct literals of NewScope and Get leave it.
Fresh(b, fromPool) ==
    [ring |-> b, start |-> 0, length |-> 0, dropped |-> 0, postTrip |-> 0,
     tripped |-> FALSE, tripState |-> FALSE, closed |-> FALSE,
     pooled |-> fromPool]

Answer(s, call, action) == [scope |-> s, call |-> call, action |-> action]

-----------------------------------------------------------------------------
(* The ring. *)

\* The slot of the i-th held entry, counted from 0.
Index(r, i) == (r.start + i) % Capacity

Held(r) == [i \in 1 .. r.length |-> mem[r.ring][Index(r, i - 1)]]

OverlongAfterWrite(r) == [r EXCEPT !.length = @ + 1]
\* The bookkeeping of one ring write: a full ring gives up its oldest entry.
StuckAfterWrite(r) ==
    IF r.length = Capacity
    THEN [r EXCEPT !.dropped = @ + 1]
    ELSE [r EXCEPT !.length = @ + 1]
AfterWrite(r) ==
    IF r.length = Capacity
    THEN [r EXCEPT !.start = (r.start + 1) % Capacity, !.dropped = @ + 1]
    ELSE [r EXCEPT !.length = @ + 1]

UnclearedRing(r) == mem
ClearRing(r) ==
    IF r.ring = NoBox THEN mem ELSE [mem EXCEPT ![r.ring] = Blank]

\* Trip's bookkeeping, with the mirror flag and the emptied ring.
AfterTrip(r) ==
    [r EXCEPT !.tripState = TRUE, !.tripped = TRUE, !.start = 0, !.length = 0]

\* Close detaches the ring: a pooled scope's goes back to its pool.
AfterCloseStillOpen(r) ==
    [r EXCEPT !.start = 0, !.length = 0, !.pooled = FALSE]
AfterClose(r) ==
    [r EXCEPT !.closed = TRUE, !.start = 0, !.length = 0, !.ring = NoBox,
              !.pooled = FALSE]

\* The budget test of Append and PassThrough.
SpentLate(r) == Limit > 0 /\ r.postTrip > Limit
Spent(r) == Limit > 0 /\ r.postTrip >= Limit

-----------------------------------------------------------------------------
(* Making a scope. *)

Init ==
    /\ mem = [b \in Box |-> Blank]
    /\ free = {}
    /\ made = {}
    /\ sc = [s \in ScopeId |-> Fresh(NoBox, FALSE)]
    /\ appended = [s \in ScopeId |-> <<>>]
    /\ batch = [s \in ScopeId |-> <<>>]
    /\ lost = [s \in ScopeId |-> 0]
    /\ reply \in [scope : ScopeId, call : {"Open"}, action : {"Done"}]

\* An array make may return: nothing refers to it.
Unreferenced(b) == b \notin free /\ \A s \in ScopeId : sc[s].ring # b

Adopt(s, b, fromPool) ==
    /\ s \notin made
    /\ made' = made \cup {s}
    /\ sc' = [sc EXCEPT ![s] = Fresh(b, fromPool)]
    /\ reply' = Answer(s, "Open", "Done")
    /\ UNCHANGED <<appended, batch, lost>>

\* NewScope: a scope of its own, whose ring no pool will see.
NewScope(s) ==
    \E b \in Box :
        /\ Unreferenced(b)
        /\ mem' = [mem EXCEPT ![b] = Blank]
        /\ Adopt(s, b, FALSE)
        /\ UNCHANGED free

\* ScopePool.Get when sync.Pool offers a ring: it is used as it lies.
GetRecycled(s) ==
    \E b \in free :
        /\ free' = free \ {b}
        /\ Adopt(s, b, TRUE)
        /\ UNCHANGED mem

\* ScopePool.Get when sync.Pool offers none, which it may do at any time.
GetFresh(s) ==
    \E b \in Box :
        /\ Unreferenced(b)
        /\ mem' = [mem EXCEPT ![b] = Blank]
        /\ Adopt(s, b, TRUE)
        /\ UNCHANGED free

\* The garbage collector may empty a sync.Pool.
Collect ==
    \E b \in free :
        /\ free' = free \ {b}
        /\ UNCHANGED <<mem, made, sc, appended, batch, lost, reply>>

-----------------------------------------------------------------------------
(* Append: one action per way it answers. *)

AppendClosed(s) ==
    /\ sc[s].closed
    /\ reply' = Answer(s, "Append", "Suppressed")
    /\ UNCHANGED <<mem, free, made, sc, appended, batch, lost>>

AppendSpent(s) ==
    /\ ~sc[s].closed /\ sc[s].tripState /\ Spent(sc[s])
    /\ reply' = Answer(s, "Append", "Suppressed")
    /\ UNCHANGED <<mem, free, made, sc, appended, batch, lost>>

AppendPasses(s) ==
    /\ ~sc[s].closed /\ sc[s].tripState /\ ~Spent(sc[s])
    /\ sc[s].postTrip < MaxPassed
    /\ sc' = [sc EXCEPT ![s].postTrip = @ + 1]
    /\ reply' = Answer(s, "Append", "PassThrough")
    /\ UNCHANGED <<mem, free, made, appended, batch, lost>>

AppendBuffers(s, e) ==
    /\ ~sc[s].closed /\ ~sc[s].tripState
    /\ Len(appended[s]) < MaxBuffered
    /\ mem' = [mem EXCEPT ![sc[s].ring][Index(sc[s], sc[s].length)] = e]
    /\ sc' = [sc EXCEPT ![s] = AfterWrite(sc[s])]
    /\ appended' = [appended EXCEPT ![s] = Append(@, e)]
    /\ reply' = Answer(s, "Append", "Buffered")
    /\ UNCHANGED <<free, made, batch, lost>>

(* PassThrough: the lock-free path, then the ways the locked one answers. *)

PassUntripped(s) ==
    /\ ~sc[s].tripped
    /\ reply' = Answer(s, "PassThrough", "PassThrough")
    /\ UNCHANGED <<mem, free, made, sc, appended, batch, lost>>

PassReleased(s) ==
    /\ sc[s].tripped
    /\ sc[s].closed \/ ~sc[s].tripState
    /\ reply' = Answer(s, "PassThrough", "PassThrough")
    /\ UNCHANGED <<mem, free, made, sc, appended, batch, lost>>

PassSpent(s) ==
    /\ sc[s].tripped /\ ~sc[s].closed /\ sc[s].tripState /\ Spent(sc[s])
    /\ reply' = Answer(s, "PassThrough", "Suppressed")
    /\ UNCHANGED <<mem, free, made, sc, appended, batch, lost>>

PassGranted(s) ==
    /\ sc[s].tripped /\ ~sc[s].closed /\ sc[s].tripState /\ ~Spent(sc[s])
    /\ sc[s].postTrip < MaxPassed
    /\ sc' = [sc EXCEPT ![s].postTrip = @ + 1]
    /\ reply' = Answer(s, "PassThrough", "PassThrough")
    /\ UNCHANGED <<mem, free, made, appended, batch, lost>>

(* Trip and Close. *)

Trip(s) ==
    /\ ~sc[s].closed /\ ~sc[s].tripState
    /\ batch' = [batch EXCEPT ![s] = Held(sc[s])]
    /\ lost' = [lost EXCEPT ![s] = sc[s].dropped]
    /\ mem' = ClearRing(sc[s])
    /\ sc' = [sc EXCEPT ![s] = AfterTrip(sc[s])]
    /\ reply' = Answer(s, "Trip", "Tripped")
    /\ UNCHANGED <<free, made, appended>>

TripRefused(s) ==
    /\ sc[s].closed \/ sc[s].tripState
    /\ reply' = Answer(s, "Trip", "Refused")
    /\ UNCHANGED <<mem, free, made, sc, appended, batch, lost>>

Close(s) ==
    /\ ~sc[s].closed
    /\ mem' = ClearRing(sc[s])
    /\ free' = IF sc[s].pooled THEN free \cup {sc[s].ring} ELSE free
    /\ sc' = [sc EXCEPT ![s] = AfterClose(sc[s])]
    /\ reply' = Answer(s, "Close", "Done")
    /\ UNCHANGED <<made, appended, batch, lost>>

CloseAgain(s) ==
    /\ sc[s].closed
    /\ reply' = Answer(s, "Close", "Done")
    /\ UNCHANGED <<mem, free, made, sc, appended, batch, lost>>

Calls(s) ==
    \/ AppendClosed(s) \/ AppendSpent(s) \/ AppendPasses(s)
    \/ \E e \in Entry : AppendBuffers(s, e)
    \/ PassUntripped(s) \/ PassReleased(s) \/ PassSpent(s) \/ PassGranted(s)
    \/ Trip(s) \/ TripRefused(s)
    \/ Close(s) \/ CloseAgain(s)

Next ==
    \/ \E s \in ScopeId : NewScope(s) \/ GetRecycled(s) \/ GetFresh(s)
    \/ \E s \in made : Calls(s)
    \/ Collect

Spec == Init /\ [][Next]_vars

-----------------------------------------------------------------------------
(* Properties. *)

Answers ==
    [scope : ScopeId, call : {"Open", "Append", "PassThrough", "Trip", "Close"},
     action : {"Done", "Buffered", "PassThrough", "Suppressed", "Tripped",
               "Refused"}]

\* Every field keeps its range: an index never leaves the ring, a full ring is
\* never longer than its capacity (scope.go:60-61).
TypeOK ==
    /\ mem \in [Box -> [Slots -> Entry \cup {Zero}]]
    /\ free \in SUBSET Box
    /\ made \in SUBSET ScopeId
    /\ sc \in [ScopeId -> ScopeRecord]
    /\ appended \in [ScopeId -> Seq(Entry)]
    /\ batch \in [ScopeId -> Seq(Entry)]
    /\ lost \in [ScopeId -> Nat]
    /\ reply \in Answers

\* A scope that can still touch a ring.
Live(s) == s \in made /\ ~sc[s].closed

\* "No Append can write into a ring another scope already owns" (scope.go:209):
\* a live scope has a ring, no other scope refers to it and the pool cannot
\* hand it out; a closed scope refers to none.
OwnedOnce ==
    /\ \A s \in made : sc[s].closed => sc[s].ring = NoBox
    /\ \A s \in ScopeId :
        Live(s) =>
            /\ sc[s].ring \in Box \ free
            /\ \A t \in ScopeId \ {s} : sc[t].ring # sc[s].ring

\* Scope s holds the newest entries it accepted, oldest first, and has counted
\* the others.
HoldsNewest(s) ==
    /\ sc[s].length =
           IF Len(appended[s]) > Capacity THEN Capacity ELSE Len(appended[s])
    /\ sc[s].dropped = Len(appended[s]) - sc[s].length
    /\ \A i \in 0 .. sc[s].length - 1 :
           mem[sc[s].ring][Index(sc[s], i)] = appended[s][sc[s].dropped + i + 1]

\* Until its trip or release, the ring of a scope holds exactly the newest
\* entries the scope accepted, oldest first, across any number of wraps, and has
\* counted every other one as dropped (scope.go:141-149).
HeldIsNewest ==
    \A s \in ScopeId : Live(s) /\ ~sc[s].tripState => HoldsNewest(s)

\* Every slot scope s does not count as held is empty.
HoldsNothingElse(s) ==
    \A i \in Slots :
        \/ \E j \in 0 .. sc[s].length - 1 : i = Index(sc[s], j)
        \/ mem[sc[s].ring][i] = Zero

\* A ring keeps no reference to an entry it does not hold, and none at all once
\* tripped, closed or pooled, so an operation's contexts and records can be
\* collected and a recycled ring is as good as a new one (scope.go:229-230,
\* pool.go:63-64).
RetainsOnlyHeld ==
    /\ \A b \in free : mem[b] = Blank
    /\ \A s \in ScopeId : Live(s) => HoldsNothingElse(s)

\* The scope implements the recorder: what a trip returns, what the budget lets
\* through and what a released scope refuses are all those of the promise.
R == INSTANCE Recorder WITH
        opened <- made,
        log <- appended,
        granted <- [s \in ScopeId |-> sc[s].postTrip],
        tripped <- [s \in ScopeId |-> sc[s].tripState],
        closed <- [s \in ScopeId |-> sc[s].closed]

ImplementsRecorder == R!Spec
=============================================================================
