------------------------------ MODULE Adapters ------------------------------
(* The slog handler (handler.go, scope.go) and the zap core (zapadapter/) on  *)
(* the same contexts: goroutines open, join, hand on and release scopes, bind *)
(* cores to them with For, and log and trip through either adapter.           *)
(*                                                                            *)
(* A record is two steps, for both libraries ask first (Enabled, Check) and   *)
(* log later (Handle, Write), and other goroutines run in between.  A call    *)
(* that trips a scope then flushes it one emission at a time, outside every   *)
(* lock.  The other steps inside a call are Handler's, and Carrier and Scope  *)
(* have what the carrier and its ring promise.  What is offered to an         *)
(* adapter's downstream counts as written: a downstream that declines an      *)
(* entry changes nothing in dllog.                                            *)
EXTENDS Integers, Sequences, SequencesExt, FiniteSets, TLC

CONSTANTS Proc,        \* the goroutines
          Options,     \* per adapter: the settings its options give, by name
          Defaults,    \* the settings of newConfig, the same in both packages
          DefaultCapacity,
          Level,       \* the levels records are logged at
          MaxScopes,   \* bound: scopes opened in one behaviour
          MaxOpen,     \* bound: calls of Scope open at once, over all goroutines
          MaxEvents    \* bound: scopes opened and records handled in one behaviour

Adapter == {"slog", "zap"}

\* Each option overrides one default; the engine normalizes the capacity.
Given(a) == Options[a] @@ Defaults
Config(a) ==
    [Given(a) EXCEPT !.capacity = IF @ <= 0 THEN DefaultCapacity ELSE @,
                     !.limit = IF @ < 0 THEN 0 ELSE @]
Setting == [a \in Adapter |-> Config(a)]

\* What resolve panics without.
Ordered(s) == s.floor <= s.level /\ s.level <= s.trip

ASSUME SettingsAssumption ==
    /\ Level \subseteq Int
    /\ DefaultCapacity \in Nat \ {0}
    /\ \A a \in Adapter :
        /\ Setting[a] \in [floor : Int, level : Int, trip : Int,
                           capacity : Nat \ {0}, limit : Nat]
        /\ Ordered(Setting[a])
    /\ MaxScopes \in Nat /\ MaxOpen \in Nat /\ MaxEvents \in Nat

VARIABLES
    opened,                     \* the scopes are numbered as they are opened
    closed, preTripped,         \* per scope, its Carrier's flags
    pool,                       \* per scope, the adapter whose pool made its ring
    tripped, granted, log,      \* per scope, that ring: trip, budget used, records
    stack,                      \* per goroutine, the calls of Scope it is inside of
    core,                       \* per goroutine, the scope its zap core is bound to
    admitted,                   \* per goroutine, the record it was told to log
    emitting,                   \* per goroutine, the scope it is flushing and the
                                \* record that follows, if there is one
    records,                    \* history: the records handled, by number
    flushed,                    \* per scope, what its flush has offered, in order
    passed                      \* the records offered when they were handled

carrierVars == <<closed, preTripped>>
ringVars == <<pool, tripped, granted, log>>
programVars == <<opened, stack, core>>
outputVars == <<flushed, passed>>
vars == <<carrierVars, ringVars, programVars, admitted, emitting, records, outputVars>>

ScopeId == 1 .. MaxScopes
NoScope == 0
NoRecord == [via |-> "none"]
NoFlush == [scope |-> NoScope, record |-> 0]

Live(c) == c # NoScope /\ ~closed[c]
HasTripped(c) == preTripped[c] \/ tripped[c]

Init ==
    /\ opened = 0
    /\ closed = [c \in ScopeId |-> FALSE]
    /\ preTripped = [c \in ScopeId |-> FALSE]
    /\ pool = [c \in ScopeId |-> "none"]
    /\ tripped = [c \in ScopeId |-> FALSE]
    /\ granted = [c \in ScopeId |-> 0]
    /\ log = [c \in ScopeId |-> <<>>]
    /\ stack = [p \in Proc |-> <<[ctx |-> NoScope, owns |-> FALSE]>>]
    /\ core = [p \in Proc |-> NoScope]
    /\ admitted = [p \in Proc |-> NoRecord]
    /\ emitting = [p \in Proc |-> NoFlush]
    /\ records = <<>>
    /\ flushed = [c \in ScopeId |-> <<>>]
    /\ passed = {}

-----------------------------------------------------------------------------
(* Contexts.  A context is the scope it carries, whichever adapter put it     *)
(* there: both resolve it through core.FromContext.                           *)

Idle(p) == admitted[p] = NoRecord /\ emitting[p] = NoFlush
Context(p) == Last(stack[p]).ctx

\* Bounds: past its last event a behaviour only trips and flushes.
Running == opened + Len(records) < MaxEvents
Room ==
    opened + Len(records) + Cardinality({p \in Proc : admitted[p] # NoRecord}) < MaxEvents
OpenCalls == FoldFunction(LAMBDA calls, n : n + Len(calls) - 1, 0, stack)

Enter(p, c, owns) ==
    /\ Running /\ OpenCalls < MaxOpen
    /\ stack' = [stack EXCEPT ![p] = Append(@, [ctx |-> c, owns |-> owns])]
    /\ UNCHANGED <<core, carrierVars, ringVars, admitted, emitting, records, outputVars>>

ScopeOpens(p) ==
    /\ Idle(p) /\ ~Live(Context(p)) /\ opened < MaxScopes /\ Room
    /\ opened' = opened + 1
    /\ Enter(p, opened + 1, TRUE)

JoinOwns(p) ==
    /\ Idle(p) /\ Live(Context(p))
    /\ Enter(p, Context(p), TRUE)
    /\ UNCHANGED opened
ScopeJoins(p) ==
    /\ Idle(p) /\ Live(Context(p))
    /\ Enter(p, Context(p), FALSE)
    /\ UNCHANGED opened

\* One done too many.
DoneAgain(p) ==
    /\ Idle(p) /\ Running
    /\ stack' = [stack EXCEPT ![p] = Front(@)]
    /\ UNCHANGED <<opened, core, carrierVars, ringVars, admitted, emitting, records,
                   outputVars>>
\* done: only the creator's releases.  The caller goes on with the context it had.
Done(p) ==
    /\ Idle(p) /\ Running /\ Len(stack[p]) > 1
    /\ stack' = [stack EXCEPT ![p] = Front(@)]
    /\ closed' = IF Last(stack[p]).owns THEN [closed EXCEPT ![Context(p)] = TRUE] ELSE closed
    /\ UNCHANGED <<opened, core, preTripped, ringVars, admitted, emitting, records,
                   outputVars>>

\* A goroutine is given another one's context and core, and may outlive both.
Hand(p, q) ==
    /\ p # q /\ Idle(p) /\ Idle(q) /\ Running /\ Len(stack[q]) = 1
    /\ stack' = [stack EXCEPT ![q] = <<[ctx |-> Context(p), owns |-> FALSE]>>]
    /\ core' = [core EXCEPT ![q] = core[p]]
    /\ UNCHANGED <<opened, carrierVars, ringVars, admitted, emitting, records,
                   outputVars>>

\* For, on the base core or on one bound before: without a live scope it returns
\* its receiver, bound as it was.
For(p) ==
    /\ Idle(p) /\ Running
    /\ \E receiver \in {NoScope, core[p]} :
        core' = [core EXCEPT ![p] = IF Live(Context(p)) THEN Context(p) ELSE receiver]
    /\ UNCHANGED <<opened, stack, carrierVars, ringVars, admitted, emitting, records,
                   outputVars>>

-----------------------------------------------------------------------------
(* The scope's ring. *)

\* Bind: the first adapter to need the ring makes it, from its own pool.
Binder(c, a) == IF pool[c] = "none" THEN a ELSE pool[c]
Bind(c, a) ==
    /\ pool' = [pool EXCEPT ![c] = Binder(c, a)]
    /\ tripped' = [tripped EXCEPT ![c] = HasTripped(c)]

CapacityOfNewest(c) ==
    Setting[IF log[c] = <<>> THEN pool[c] ELSE records[Last(log[c])].via].capacity
Capacity(c) == Setting[pool[c]].capacity

Lost(c) == IF Len(log[c]) > Capacity(c) THEN Len(log[c]) - Capacity(c) ELSE 0
Newest(c) == SubSeq(log[c], Lost(c) + 1, Len(log[c]))

LimitOfCaller(c, a) == Setting[a].limit > 0 /\ granted[c] >= Setting[a].limit
Spent(c, a) ==
    LET limit == Setting[Binder(c, a)].limit IN limit > 0 /\ granted[c] >= limit

\* What a flush offers: a buffered record, by its number, or the notice of n evicted.
Item(kind, via, n) == [kind |-> kind, via |-> via, n |-> n]
Replay(c) == [i \in 1 .. Len(Newest(c)) |->
                 Item("replay", records[Newest(c)[i]].via, Newest(c)[i])]
NoticeOfNewest(c) ==
    IF Lost(c) = 0 THEN <<>>
    ELSE <<Item("notice", records[Last(log[c])].via, Lost(c))>>
\* Notify, on the oldest record that is left.
Notice(c) ==
    IF Lost(c) = 0 THEN <<>>
    ELSE <<Item("notice", records[Head(Newest(c))].via, Lost(c))>>

\* What Flush emits: the notice, then the survivors.
Batch(c) == IF pool[c] = "none" THEN <<>> ELSE Notice(c) \o Replay(c)

\* MarkTripped and Trip, when this is the call that trips the scope: it has the
\* batch to emit, and after it the record that tripped, 0 for none.
FirstTrip(p, c, record) ==
    /\ ~HasTripped(c)
    /\ IF pool[c] = "none"
       THEN preTripped' = [preTripped EXCEPT ![c] = TRUE] /\ UNCHANGED tripped
       ELSE tripped' = [tripped EXCEPT ![c] = TRUE] /\ UNCHANGED preTripped
    /\ emitting' = [emitting EXCEPT ![p] = [scope |-> c, record |-> record]]
    /\ UNCHANGED <<closed, pool, granted, log, outputVars>>

\* The loop of Flush.
FlushNext(p) ==
    LET c == emitting[p].scope IN
    /\ c # NoScope /\ Len(flushed[c]) < Len(Batch(c))
    /\ flushed' = [flushed EXCEPT ![c] = Append(@, Batch(c)[Len(@) + 1])]
    /\ UNCHANGED <<carrierVars, ringVars, programVars, admitted, emitting, records,
                   passed>>

\* The record that tripped the scope follows its batch.
FlushEnds(p) ==
    LET c == emitting[p].scope IN
    /\ c # NoScope /\ Len(flushed[c]) = Len(Batch(c))
    /\ passed' = passed \cup ({emitting[p].record} \ {0})
    /\ emitting' = [emitting EXCEPT ![p] = NoFlush]
    /\ UNCHANGED <<carrierVars, ringVars, programVars, admitted, records, flushed>>

-----------------------------------------------------------------------------
(* Logging. *)

Target(p, a) == IF a = "slog" THEN Context(p) ELSE core[p]

\* Handler.Enabled and Core.Enabled.
Enabled(a, l, c) ==
    \/ l >= Setting[a].level
    \/ l >= Setting[a].floor /\ Live(c)

Check(p, a, l) ==
    /\ Idle(p) /\ Room
    /\ Enabled(a, l, Target(p, a))
    /\ admitted' = [admitted EXCEPT ![p] = [via |-> a, level |-> l, scope |-> Target(p, a)]]
    /\ UNCHANGED <<carrierVars, ringVars, programVars, emitting, records, outputVars>>

\* The record p was told to log is handled, as one that came before or after the
\* trip of its live scope, or met none.
Handled(p, when) ==
    /\ admitted[p] # NoRecord
    /\ admitted' = [admitted EXCEPT ![p] = NoRecord]
    /\ LET r == admitted[p] IN
       records' = Append(records, [via |-> r.via, level |-> r.level,
                                   scope |-> r.scope, when |-> when])
    /\ UNCHANGED programVars

This == Len(records) + 1
Offer == passed' = passed \cup {This}

AtTrip(r) == r.level >= Setting[r.via].trip
AtLevel(r) == r.level >= Setting[r.via].level

UnscopedKeepsTrip(p) ==
    LET r == admitted[p] IN
    /\ Handled(p, "alone")
    /\ ~Live(r.scope)
    /\ IF AtLevel(r) \/ (r.scope # NoScope /\ HasTripped(r.scope)) THEN Offer
                                                                 ELSE UNCHANGED passed
    /\ UNCHANGED <<carrierVars, ringVars, emitting, flushed>>
\* No scope, or a released one: the level alone decides.
HandleUnscoped(p) ==
    LET r == admitted[p] IN
    /\ Handled(p, "alone")
    /\ ~Live(r.scope)
    /\ IF AtLevel(r) THEN Offer ELSE UNCHANGED passed
    /\ UNCHANGED <<carrierVars, ringVars, emitting, flushed>>

HandleTrigger(p) ==
    LET r == admitted[p] IN
    /\ Handled(p, "before")
    /\ Live(r.scope) /\ AtTrip(r)
    /\ FirstTrip(p, r.scope, This)

HandleAtLevel(p) ==
    LET r == admitted[p] IN
    /\ Handled(p, "before")
    /\ Live(r.scope) /\ AtLevel(r) /\ ~AtTrip(r) /\ ~HasTripped(r.scope)
    /\ Offer
    /\ UNCHANGED <<carrierVars, ringVars, emitting, flushed>>

HandleBuffers(p) ==
    LET r == admitted[p] IN
    /\ Handled(p, "before")
    /\ Live(r.scope) /\ ~AtLevel(r) /\ ~HasTripped(r.scope)
    /\ Bind(r.scope, r.via)
    /\ log' = [log EXCEPT ![r.scope] = Append(@, This)]
    /\ UNCHANGED <<carrierVars, granted, emitting, outputVars>>

\* Any record of a tripped scope: Append's or suppressed's draw on the budget.
HandleTripped(p) ==
    LET r == admitted[p] IN
    /\ Handled(p, "after")
    /\ Live(r.scope) /\ HasTripped(r.scope)
    /\ Bind(r.scope, r.via)
    /\ IF Spent(r.scope, r.via)
       THEN UNCHANGED <<granted, passed>>
       ELSE granted' = [granted EXCEPT ![r.scope] = @ + 1] /\ Offer
    /\ UNCHANGED <<carrierVars, log, emitting, flushed>>

\* Trip(ctx), Handler.Trip and Core.Trip.
BareTrip(p, a) ==
    LET c == Target(p, a) IN
    /\ Idle(p) /\ Live(c)
    /\ FirstTrip(p, c, 0)
    /\ UNCHANGED <<programVars, admitted, records>>

-----------------------------------------------------------------------------
Contexts(p) ==
    \/ ScopeOpens(p) \/ ScopeJoins(p) \/ Done(p) \/ For(p)
    \/ \E q \in Proc : Hand(p, q)

Handle(p) ==
    \/ HandleUnscoped(p) \/ HandleTrigger(p) \/ HandleAtLevel(p)
    \/ HandleBuffers(p) \/ HandleTripped(p)

Next ==
    \E p \in Proc :
        \/ Contexts(p) \/ Handle(p) \/ FlushNext(p) \/ FlushEnds(p)
        \/ \E a \in Adapter : BareTrip(p, a) \/ \E l \in Level : Check(p, a, l)

Spec == Init /\ [][Next]_vars

-----------------------------------------------------------------------------
(* Properties. *)

Record == [via : Adapter, level : Level, scope : ScopeId \cup {NoScope},
           when : {"before", "after", "alone"}]

TypeOK ==
    /\ opened \in 0 .. MaxScopes
    /\ {closed, preTripped, tripped} \subseteq [ScopeId -> BOOLEAN]
    /\ pool \in [ScopeId -> Adapter \cup {"none"}]
    /\ granted \in [ScopeId -> 0 .. Len(records)]
    /\ records \in Seq(Record)
    /\ log \in [ScopeId -> Seq(DOMAIN records)]
    /\ stack \in [Proc -> Seq([ctx : 0 .. opened, owns : BOOLEAN])]
    /\ core \in [Proc -> 0 .. opened]
    /\ \A p \in Proc : stack[p] # <<>>
    /\ admitted \in [Proc -> [via : Adapter, level : Level, scope : 0 .. opened]
                              \cup {NoRecord}]
    /\ emitting \in [Proc -> [scope : ScopeId \cup {NoScope}, record : 0 .. Len(records)]]
    /\ flushed \in [ScopeId -> Seq([kind : {"replay", "notice"}, via : Adapter,
                                    n : Nat \ {0}])]
    /\ passed \subseteq DOMAIN records

\* The records a scope's ring has got, those that came after its trip, and the
\* places of the replayed ones in its flush, which has ended when no one is at it.
Buffered(c) ==
    {r \in DOMAIN records : records[r].scope = c /\ records[r].when = "before"
                            /\ ~AtLevel(records[r])}
After(c) == {r \in DOMAIN records : records[r].scope = c /\ records[r].when = "after"}
Replays(c) == {i \in DOMAIN flushed[c] : flushed[c][i].kind = "replay"}
FlushOver(c) == HasTripped(c) /\ \A p \in Proc : emitting[p].scope # c
Written(r) == r \in passed \/ \E c \in ScopeId : \E i \in Replays(c) : flushed[c][i].n = r

\* An operation has one scope, however often Scope is called inside it, and only
\* the done of the call that opened it ends it (scope.go:183-186): as long as that
\* call is open its scope is live, and the calls inside it joined it.
OneScopePerOperation ==
    \A p \in Proc : \A i \in DOMAIN stack[p] :
        stack[p][i].owns =>
            /\ Live(stack[p][i].ctx)
            /\ \A j \in i + 1 .. Len(stack[p]) :
                   stack[p][j] = [ctx |-> stack[p][i].ctx, owns |-> FALSE]

\* A trip replays what every adapter buffered in that scope and nothing else, in
\* the order it was logged (zapadapter/core.go:5-8), up to the capacity of the adapter
\* that made the ring (carrier.go:46-48): once the flush is over the replayed records
\* are the newest of those buffered, whichever library logged them.
ReplayIsOneSequence ==
    \A c \in ScopeId :
        /\ \A i, j \in Replays(c) : i < j => flushed[c][i].n < flushed[c][j].n
        /\ \A i \in Replays(c) :
               /\ flushed[c][i].n \in Buffered(c)
               /\ flushed[c][i].via = records[flushed[c][i].n].via
        /\ FlushOver(c) /\ Buffered(c) # {} =>
            /\ Cardinality(Replays(c)) <= Setting[pool[c]].capacity
            /\ \A r \in Buffered(c) :
                \/ \E i \in Replays(c) : flushed[c][i].n = r
                \/ /\ \A i \in Replays(c) : r < flushed[c][i].n
                   /\ Cardinality(Replays(c)) = Setting[pool[c]].capacity

\* Evicted records are announced "just before the batch [...], in the same stream"
\* (zapadapter/slot.go:48-49): of what a scope's flush offers only the first item can
\* be a notice, and it is one exactly when some buffered record is older than the first
\* replayed one; it tells how many, through the adapter of that one.  Records of
\* other calls may come in between in the output, for Flush emits outside every lock.
NoticePrecedesItsBatch ==
    \A c \in ScopeId :
        /\ DOMAIN flushed[c] \ {1} \subseteq Replays(c)
        /\ \A i \in Replays(c) : (\A j \in Replays(c) : i <= j) =>
               LET older == {r \in Buffered(c) : r < flushed[c][i].n} IN
               IF older = {} THEN i = 1
               ELSE /\ i = 2
                    /\ flushed[c][1] = Item("notice", flushed[c][i].via, Cardinality(older))

\* One budget for both adapters, that of the one whose pool made the ring: of the
\* records a live scope gets after its trip, the first `limit` are written.
BudgetIsShared ==
    \A c \in ScopeId : pool[c] # "none" /\ Setting[pool[c]].limit > 0 =>
        \A r \in After(c) :
            Written(r) <=> Cardinality({s \in After(c) : s <= r}) <= Setting[pool[c]].limit

\* A record below its adapter's level is written only once its own scope has
\* tripped, and never when it was handled without a live scope: not when the scope
\* was released after Enabled had said yes, nor through a core or a context kept
\* for later (scope.go:140-147, zapadapter/core.go:253-257, 294-295).
BelowLevelNeedsOwnTrip ==
    \A r \in DOMAIN records : ~AtLevel(records[r]) /\ Written(r) =>
        records[r].when # "alone" /\ HasTripped(records[r].scope)
=============================================================================
