------------------------------ MODULE Handler ------------------------------
(* The slog adapter on one context: goroutines log records of three kinds     *)
(* through Handler.Handle (handler.go), call the bare Trip and the scope's    *)
(* done (scope.go), and share the carrier (internal/core/carrier.go) and the  *)
(* engine (internal/core/scope.go) underneath.                                *)
(*                                                                            *)
(* The grain: one atomic load outside the mutexes, one critical section, or   *)
(* one record handed to the downstream is a step.  A critical section is one  *)
(* step here because module Carrier, which has the mutexes, shows that what   *)
(* others see of it is its single store; the ring is the recorder that module *)
(* Scope implements, so a trip returns the newest Capacity records of the     *)
(* log.  Two consecutive loads of closed with nothing in between, one in      *)
(* fromContext and one in the call it leads to, are one load: whichever of    *)
(* the two sees it set, the record is treated the same.                       *)
EXTENDS Integers, Sequences, SequencesExt, FiniteSets

CONSTANTS Proc,        \* the goroutines
          Capacity,    \* of the ring, normalised
          Limit,       \* the post-trip budget, 0 = unlimited
          MaxRecords   \* bound: records logged in one behaviour

ASSUME SizesAssumption ==
    /\ Capacity \in Nat \ {0}
    /\ Limit \in Nat
    /\ MaxRecords \in Nat

VARIABLES
    bound, preTripped, closed,  \* the Carrier: whether it has a scope, its flags
    tripped, shut, postTrip,    \* the Scope: tripState, closed, budget used
    log,                        \* the records it buffered
    batch, lost,                \* what its trip returned
    replayed,                   \* how much of the batch has been emitted
    out,                        \* what reached the downstream
    issued,                     \* records logged so far; they are numbered
    level, fate,                \* per record: its kind, and what became of it
    trigger,                    \* history: the records that tripped the scope
    wins,                       \* history: the calls told that theirs was the trip
    late,                       \* history: the records logged after the trip
    pc, rec                     \* where each goroutine is, with which record

carrierVars == <<bound, preTripped, closed>>
ringVars == <<tripped, shut, postTrip, log, batch, lost>>
recordVars == <<issued, level, late>>
vars == <<carrierVars, ringVars, replayed, out, recordVars, fate, trigger, wins, pc, rec>>

\* A record below the effective level (in the buffer band), at or above it, or
\* at or above the trip level.
Level == {"debug", "info", "error"}

Record == 1 .. MaxRecords
NoRecord == 0  \* a bare Trip, or done, has no record of its own

At == {"idle", "context", "tripContext", "markScope", "markSlow", "flush",
       "notify", "replay", "askPre", "askScope", "askRing", "bindClosed",
       "bindScope", "bindSlow", "offer", "emit", "shut"}

HasTripped == preTripped \/ tripped

Kept(n) == IF n > Capacity THEN Capacity ELSE n
Newest(records) ==
    SubSeq(records, Len(records) - Kept(Len(records)) + 1, Len(records))

Spent == Limit > 0 /\ postTrip >= Limit

Init ==
    /\ bound = FALSE /\ preTripped = FALSE /\ closed = FALSE
    /\ tripped = FALSE /\ shut = FALSE /\ postTrip = 0
    /\ log = <<>> /\ batch = <<>> /\ lost = 0
    /\ replayed = 0 /\ out = <<>>
    /\ issued = 0
    /\ level = [r \in Record |-> "debug"]
    /\ fate = [r \in Record |-> "pending"]
    /\ trigger = {} /\ late = {} /\ wins = 0
    /\ pc = [p \in Proc |-> "idle"]
    /\ rec = [p \in Proc |-> NoRecord]

-----------------------------------------------------------------------------
(* Moving along. *)

Goto(p, from, to) ==
    /\ pc[p] = from
    /\ pc' = [pc EXCEPT ![p] = to]
    /\ UNCHANGED rec

\* The call of p ends; its record, if it has one, ends up as f.
Return(p, from, f) ==
    /\ pc[p] = from
    /\ pc' = [pc EXCEPT ![p] = "idle"]
    /\ rec' = [rec EXCEPT ![p] = NoRecord]
    /\ fate' = [r \in Record |-> IF r = rec[p] THEN f ELSE fate[r]]

\* A trip is over for p: a bare Trip returns, a record goes on to `to`.
Continue(p, from, to) ==
    IF rec[p] = NoRecord
    THEN Return(p, from, "pending")
    ELSE Goto(p, from, to) /\ UNCHANGED fate

IsDebug(p) == rec[p] # NoRecord /\ level[rec[p]] = "debug"

Quiet == UNCHANGED <<replayed, out, recordVars, trigger, wins>>

-----------------------------------------------------------------------------
(* The calls a program makes. *)

\* Handle: the record enters with the level it was logged at.
Handle(p, l) ==
    /\ pc[p] = "idle" /\ issued < MaxRecords
    /\ issued' = issued + 1
    /\ level' = [level EXCEPT ![issued + 1] = l]
    /\ late' = IF HasTripped THEN late \cup {issued + 1} ELSE late
    /\ pc' = [pc EXCEPT ![p] = "context"]
    /\ rec' = [rec EXCEPT ![p] = issued + 1]
    /\ UNCHANGED <<carrierVars, ringVars, replayed, out, fate, trigger, wins>>

BareTrip(p) ==
    /\ Goto(p, "idle", "tripContext")
    /\ Quiet
    /\ UNCHANGED <<carrierVars, ringVars, fate>>

\* done: sync.Once lets one caller through to Carrier.Close, which notes the
\* scope there is and sets closed in one critical section ...
Done(p) ==
    /\ ~closed
    /\ Goto(p, "idle", IF bound THEN "shut" ELSE "idle")
    /\ closed' = TRUE
    /\ Quiet
    /\ UNCHANGED <<bound, preTripped, ringVars, fate>>

\* ... and closes that scope afterwards.
Shut(p) ==
    /\ Goto(p, "shut", "idle")
    /\ shut' = TRUE
    /\ Quiet
    /\ UNCHANGED <<carrierVars, tripped, postTrip, log, batch, lost, fate>>

-----------------------------------------------------------------------------
(* fromContext, and where each kind of record goes from there. *)

ContextReleased(p) ==
    /\ closed
    /\ IF IsDebug(p)
       THEN Return(p, "context", "dropped")
       ELSE Goto(p, "context", "emit") /\ UNCHANGED fate
    /\ Quiet
    /\ UNCHANGED <<carrierVars, ringVars>>

AfterContext(l) == CASE l = "debug" -> "bindScope"
                     [] l = "info" -> "askPre"
                     [] l = "error" -> "markScope"

ContextLive(p) ==
    /\ ~closed /\ rec[p] # NoRecord
    /\ Goto(p, "context", AfterContext(level[rec[p]]))
    /\ Quiet
    /\ UNCHANGED <<carrierVars, ringVars, fate>>

TripContext(p) ==
    /\ Goto(p, "tripContext", IF closed THEN "idle" ELSE "markScope")
    /\ Quiet
    /\ UNCHANGED <<carrierVars, ringVars, fate>>

-----------------------------------------------------------------------------
(* tripAndSuppress and the bare trip: MarkTripped, then flush. *)

MarkScope(p) ==
    /\ Goto(p, "markScope", IF bound THEN "flush" ELSE "markSlow")
    /\ Quiet
    /\ UNCHANGED <<carrierVars, ringVars, fate>>

\* MarkTripped under its mutex, when it does not record the trip: it found the
\* carrier closed, a scope to flush, or the trip already recorded.
MarkSlowClosed(p) ==
    /\ closed
    /\ Continue(p, "markSlow", "bindClosed")
    /\ Quiet
    /\ UNCHANGED <<carrierVars, ringVars>>

MarkSlowBound(p) ==
    /\ ~closed /\ bound
    /\ Goto(p, "markSlow", "flush")
    /\ Quiet
    /\ UNCHANGED <<carrierVars, ringVars, fate>>

MarkSlowRetries(p) ==
    /\ ~closed /\ ~bound /\ preTripped
    /\ Goto(p, "markSlow", "markScope")
    /\ Quiet
    /\ UNCHANGED <<carrierVars, ringVars, fate>>
MarkSlowAgain(p) ==
    /\ ~closed /\ ~bound /\ preTripped
    /\ Continue(p, "markSlow", "bindClosed")
    /\ Quiet
    /\ UNCHANGED <<carrierVars, ringVars>>

MarkFirstAfterDone(p) ==
    /\ ~bound /\ ~preTripped
    /\ Continue(p, "markSlow", "emit")
    /\ preTripped' = TRUE
    /\ trigger' = trigger \cup ({rec[p]} \cap Record)
    /\ wins' = wins + 1
    /\ UNCHANGED <<bound, closed, ringVars, replayed, out, recordVars>>
MarkFirstBudgeted(p) ==
    /\ ~closed /\ ~bound /\ ~preTripped
    /\ Continue(p, "markSlow", "bindClosed")
    /\ preTripped' = TRUE
    /\ trigger' = trigger \cup ({rec[p]} \cap Record)
    /\ wins' = wins + 1
    /\ UNCHANGED <<bound, closed, ringVars, replayed, out, recordVars>>
\* The trigger of a scope that never buffered: nothing to replay.
MarkFirst(p) ==
    /\ ~closed /\ ~bound /\ ~preTripped
    /\ Continue(p, "markSlow", "emit")
    /\ preTripped' = TRUE
    /\ trigger' = trigger \cup ({rec[p]} \cap Record)
    /\ wins' = wins + 1
    /\ UNCHANGED <<bound, closed, ringVars, replayed, out, recordVars>>

\* Flush lost the trip to another goroutine, or to done.
FlushRefused(p) ==
    /\ shut \/ tripped
    /\ Continue(p, "flush", "bindClosed")
    /\ Quiet
    /\ UNCHANGED <<carrierVars, ringVars>>

AfterFlushNotifies == "notify"
\* Flush won: the batch is p's to emit, after a notice if something was lost.
AfterFlush == IF Len(log) > Capacity THEN "notify" ELSE "replay"

FlushKeepsOldest(p) ==
    /\ ~shut /\ ~tripped
    /\ Goto(p, "flush", AfterFlush)
    /\ tripped' = TRUE
    /\ batch' = SubSeq(log, 1, Kept(Len(log)))
    /\ lost' = Len(log) - Kept(Len(log))
    /\ trigger' = trigger \cup ({rec[p]} \cap Record)
    /\ wins' = wins + 1
    /\ UNCHANGED <<carrierVars, shut, postTrip, log, replayed, out, recordVars, fate>>
FlushTrips(p) ==
    /\ ~shut /\ ~tripped
    /\ Goto(p, "flush", AfterFlush)
    /\ tripped' = TRUE
    /\ batch' = Newest(log)
    /\ lost' = Len(log) - Kept(Len(log))
    /\ trigger' = trigger \cup ({rec[p]} \cap Record)
    /\ wins' = wins + 1
    /\ UNCHANGED <<carrierVars, shut, postTrip, log, replayed, out, recordVars, fate>>

\* What is emitted: a record on the spot, a buffered record, or the notice that
\* n records were evicted.
Live(r) == [kind |-> "live", n |-> r]
Replay(r) == [kind |-> "replay", n |-> r]
Notice(n) == [kind |-> "notice", n |-> n]

Notify(p) ==
    /\ Goto(p, "notify", "replay")
    /\ out' = Append(out, Notice(lost))
    /\ UNCHANGED <<carrierVars, ringVars, replayed, recordVars, fate, trigger, wins>>

ReplayNext(p) ==
    /\ replayed < Len(batch)
    /\ Goto(p, "replay", "replay")
    /\ out' = Append(out, Replay(batch[replayed + 1]))
    /\ replayed' = replayed + 1
    /\ UNCHANGED <<carrierVars, ringVars, recordVars, fate, trigger, wins>>

ReplayAbandoned(p) ==
    /\ Continue(p, "replay", "emit")
    /\ Quiet
    /\ UNCHANGED <<carrierVars, ringVars>>
ReplayEnds(p) ==
    /\ replayed = Len(batch)
    /\ Continue(p, "replay", "emit")
    /\ Quiet
    /\ UNCHANGED <<carrierVars, ringVars>>

-----------------------------------------------------------------------------
(* A record at or above the level: Tripped. *)

AskPre(p) ==
    /\ Goto(p, "askPre", IF preTripped THEN "bindClosed" ELSE "askScope")
    /\ Quiet
    /\ UNCHANGED <<carrierVars, ringVars, fate>>

AskScope(p) ==
    /\ Goto(p, "askScope", IF bound THEN "askRing" ELSE "emit")
    /\ Quiet
    /\ UNCHANGED <<carrierVars, ringVars, fate>>

AskRing(p) ==
    /\ Goto(p, "askRing", IF tripped THEN "bindClosed" ELSE "emit")
    /\ Quiet
    /\ UNCHANGED <<carrierVars, ringVars, fate>>

-----------------------------------------------------------------------------
(* Bind, on the way to Append for a record below the level and to PassThrough *)
(* (in suppressed) for any other.                                             *)

\* Without a scope the level alone decides.
NoScope(p, from) ==
    IF IsDebug(p) THEN Return(p, from, "dropped")
                  ELSE Goto(p, from, "emit") /\ UNCHANGED fate

BindClosed(p) ==
    /\ IF closed THEN NoScope(p, "bindClosed")
                 ELSE Goto(p, "bindClosed", "bindScope") /\ UNCHANGED fate
    /\ Quiet
    /\ UNCHANGED <<carrierVars, ringVars>>

BindScope(p) ==
    /\ Goto(p, "bindScope", IF bound THEN "offer" ELSE "bindSlow")
    /\ Quiet
    /\ UNCHANGED <<carrierVars, ringVars, fate>>

BindSlowClosed(p) ==
    /\ closed
    /\ NoScope(p, "bindSlow")
    /\ Quiet
    /\ UNCHANGED <<carrierVars, ringVars>>

BindUntripped(p) ==
    /\ ~closed
    /\ Goto(p, "bindSlow", "offer")
    /\ bound' = TRUE
    /\ Quiet
    /\ UNCHANGED <<preTripped, closed, ringVars, fate>>
\* The first record to need a ring makes it, tripped if the scope already is.
BindSlow(p) ==
    /\ ~closed
    /\ Goto(p, "bindSlow", "offer")
    /\ bound' = TRUE
    /\ tripped' = (tripped \/ (~bound /\ preTripped))
    /\ Quiet
    /\ UNCHANGED <<preTripped, closed, shut, postTrip, log, batch, lost, fate>>

(* Append. *)

AppendShutPasses(p) ==
    /\ IsDebug(p) /\ shut
    /\ Goto(p, "offer", "emit")
    /\ Quiet
    /\ UNCHANGED <<carrierVars, ringVars, fate>>
AppendShut(p) ==
    /\ IsDebug(p) /\ shut
    /\ Return(p, "offer", "dropped")
    /\ Quiet
    /\ UNCHANGED <<carrierVars, ringVars>>

AppendBuffersAndPasses(p) ==
    /\ IsDebug(p) /\ ~shut /\ ~tripped
    /\ Goto(p, "offer", "emit")
    /\ log' = Append(log, rec[p])
    /\ Quiet
    /\ UNCHANGED <<carrierVars, tripped, shut, postTrip, batch, lost, fate>>
AppendBuffers(p) ==
    /\ IsDebug(p) /\ ~shut /\ ~tripped
    /\ Return(p, "offer", "buffered")
    /\ log' = Append(log, rec[p])
    /\ Quiet
    /\ UNCHANGED <<carrierVars, tripped, shut, postTrip, batch, lost>>

(* PassThrough of a scope that is not tripped, or no longer there. *)
PassFree(p) ==
    /\ ~IsDebug(p) /\ (shut \/ ~tripped)
    /\ Goto(p, "offer", "emit")
    /\ Quiet
    /\ UNCHANGED <<carrierVars, ringVars, fate>>

(* Both, after the trip: the budget is shared. *)
OfferSpent(p) ==
    /\ ~shut /\ tripped /\ Spent
    /\ Return(p, "offer", "suppressed")
    /\ Quiet
    /\ UNCHANGED <<carrierVars, ringVars>>

OfferUncharged(p) ==
    /\ ~shut /\ tripped /\ ~Spent
    /\ Goto(p, "offer", "emit")
    /\ Quiet
    /\ UNCHANGED <<carrierVars, ringVars, fate>>
OfferGranted(p) ==
    /\ ~shut /\ tripped /\ ~Spent
    /\ Goto(p, "offer", "emit")
    /\ postTrip' = postTrip + 1
    /\ Quiet
    /\ UNCHANGED <<carrierVars, tripped, shut, log, batch, lost, fate>>

\* The record itself goes downstream.
Emit(p) ==
    /\ Return(p, "emit", "emitted")
    /\ out' = Append(out, Live(rec[p]))
    /\ UNCHANGED <<carrierVars, ringVars, replayed, recordVars, trigger, wins>>

-----------------------------------------------------------------------------
Step(p) ==
    \/ Shut(p)
    \/ ContextReleased(p) \/ ContextLive(p) \/ TripContext(p)
    \/ MarkScope(p) \/ MarkSlowClosed(p) \/ MarkSlowBound(p)
    \/ MarkSlowAgain(p) \/ MarkFirst(p)
    \/ FlushRefused(p) \/ FlushTrips(p)
    \/ Notify(p) \/ ReplayNext(p) \/ ReplayEnds(p)
    \/ AskPre(p) \/ AskScope(p) \/ AskRing(p)
    \/ BindClosed(p) \/ BindScope(p) \/ BindSlowClosed(p) \/ BindSlow(p)
    \/ AppendShut(p) \/ AppendBuffers(p) \/ PassFree(p)
    \/ OfferSpent(p) \/ OfferGranted(p)
    \/ Emit(p)

Begin(p) == (\E l \in Level : Handle(p, l)) \/ BareTrip(p) \/ Done(p)

Next == \E p \in Proc : Begin(p) \/ Step(p)

Spec == Init /\ [][Next]_vars

\* Everything happens on the calling goroutine, and a running goroutine is
\* scheduled.  Nothing obliges a program to make another call.
FairSpec == Spec /\ \A p \in Proc : WF_vars(Step(p))

-----------------------------------------------------------------------------
(* Properties. *)

TypeOK ==
    /\ {bound, preTripped, closed, tripped, shut} \subseteq BOOLEAN
    /\ postTrip \in Nat /\ lost \in Nat /\ replayed \in 0 .. Len(batch)
    /\ log \in Seq(Record) /\ batch \in Seq(Record)
    /\ out \in Seq([kind : {"live", "replay", "notice"}, n : Nat \ {0}])
    /\ issued \in 0 .. MaxRecords
    /\ level \in [Record -> Level]
    /\ fate \in [Record -> {"pending", "buffered", "dropped", "suppressed", "emitted"}]
    /\ trigger \subseteq Record /\ late \subseteq Record /\ wins \in Nat
    /\ pc \in [Proc -> At]
    /\ rec \in [Proc -> Record \cup {NoRecord}]

\* What the flush is to emit, in order: what was lost, then what was kept.
Script ==
    (IF lost > 0 THEN <<Notice(lost)>> ELSE <<>>)
        \o [i \in 1 .. Len(batch) |-> Replay(batch[i])]

\* Where the output has what was flushed, and how much of that by place i.
Flushed == {i \in DOMAIN out : out[i].kind # "live"}
FlushedBy(i) == Cardinality({j \in Flushed : j <= i})

\* The replayed sequence reads in order, what was lost and then what was kept,
\* oldest first, each record once, however other goroutines' records fall in
\* between (carrier.go:274-281): the n-th item flushed is the n-th of the script
\* of the newest records buffered before the trip.
ReplayFollowsScript ==
    /\ \A i \in Flushed : FlushedBy(i) <= Len(Script) /\ out[i] = Script[FlushedBy(i)]
    /\ tripped => batch = Newest(log) /\ lost = Len(log) - Len(batch)

\* "The one thing the level promised never happens" (scope.go:121-125): a record
\* below the level is written, live or replayed, only if the scope tripped, even
\* when the logging races done.
BelowLevelNeedsTrip ==
    \A i \in DOMAIN out :
        out[i].kind # "notice" /\ level[out[i].n] = "debug" => HasTripped

\* No record is written twice: not buffered and passed, not replayed by two
\* flushes.
WrittenOnce ==
    \A i, j \in DOMAIN out :
        /\ i # j /\ out[i].kind # "notice" /\ out[j].kind # "notice"
        => out[i].n # out[j].n

\* The record that trips the scope follows its whole batch: it is "the error
\* line the replayed batch hangs from" (handler.go:257-259).
TriggerAfterBatch ==
    \A i \in DOMAIN out :
        out[i].kind = "live" /\ out[i].n \in trigger
            => \A k \in DOMAIN batch :
                   \E j \in 1 .. i - 1 : out[j] = Replay(batch[k])

\* A record at or above the level is withheld only after the trip and only once
\* the budget is spent, and the trigger never is (handler.go:257-261, 270-276).
OwedUnlessBudgetSpent ==
    \A r \in Record :
        /\ fate[r] = "suppressed" => HasTripped /\ Spent /\ r \notin trigger
        /\ level[r] # "debug" => fate[r] \notin {"buffered", "dropped"}

\* The budget bounds the scope's whole output (scope.go:152-157): of the records
\* logged after the trip, of any level, at most Limit are written while the
\* scope lives.
BudgetBoundsOutput ==
    Limit > 0 /\ ~closed => Cardinality({r \in late : fate[r] = "emitted"}) <= Limit

\* Nothing is buffered after the trip, where no one would replay it
\* (carrier.go:60-63, scope.go:207-210), not even when the ring is created
\* after it.
NothingBufferedLate == \A r \in late : fate[r] # "buffered"

\* Handle, Trip and done keep SharedScope's promise to the goroutines, although a
\* call decides on loads taken at different moments (handler.go:193-276,
\* carrier.go:96-160): at most one of them is told that it tripped the scope, none
\* after done unless it already had the ring in hand, no ring appears after done,
\* and the ring there was goes back once.  One ring is all an operation can have.
S == INSTANCE SharedScope WITH
        Ring <- {TRUE}, NoRing <- FALSE,
        ring <- bound, tripped <- HasTripped, triggers <- wins, released <- shut
KeepsSharedScope == S!Spec

\* Once the scope trips the whole batch is written (handler.go:198-201).
ReplayCompletes == tripped ~> Cardinality(Flushed) = Len(Script)

\* Every record logged is dealt with.
RecordsSettle ==
    \A r \in Record : r <= issued ~> fate[r] # "pending"
=============================================================================
