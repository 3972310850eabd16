# A verification of dllog

dllog is a Go logging library: an operation (a request, a job) opens a *scope* on its
context; records below the configured level are kept in a small ring instead of being
dropped, and written, oldest first, only if the operation *trips* (logs an error, calls
`Trip`, answers 5xx, panics). This directory holds TLA+ modules of the code, the TLC
configurations that check them, and TLAPS proofs of their main properties. Line numbers
refer to the Go sources beside it.

## The system

| Part | Source | State | Operations |
|---|---|---|---|
| Engine | `internal/core/scope.go` | ring, start, length, dropped, postTrip, tripped, tripState, closed, pool | NewScope, Append, PassThrough, Trip, Close |
| Ring pool | `internal/core/pool.go` | the free rings (a `sync.Pool`) | Get, put |
| Carrier | `internal/core/carrier.go` | mu, scope, preTripped, closed | Bind, MarkTripped, Bound, Tripped, Closed, Close |
| Flush | `internal/core/carrier.go`, `scope.go` | none: emits the batch of a trip | Notify, Emit of each entry |
| Context lookup | `internal/core/carrier.go`, `scope.go` | the context value | NewContext, FromContext, Scope (joins) |
| slog handler | `handler.go`, `options.go` | levels, pool, downstream | Enabled, Handle, WithAttrs, WithGroup, Trip |
| Middleware | `middleware.go` | the status writer of one request | the request's scope, recover, anchor |
| zap adapter | `zapadapter/` | a carrier bound once by For | Enabled, Check, Write, Trip, Scope |
| Release script | `scripts/release.sh` | branch, tags, working tree, here and on the remote | one run: checks, gate, stamps, commit, tag, pushes |
| Demo, CI scripts | `examples/`, `scripts/` | none | demo; the CI checks |

How they interact. An adapter finds the carrier on the record's context and branches on the
record's level. A record below the level binds the carrier's one engine, made on first use
from the adapter's pool, and is appended to its ring. A record at the trip level, or a bare
`Trip`, goes through `MarkTripped`: without an engine the trip is remembered on the carrier,
otherwise `Flush` trips the engine and emits what it returned, on the calling goroutine and
outside every lock. `done` closes the carrier and then the engine, whose ring goes back to
the pool. Everything may run on any number of goroutines at once; the carrier's fields are
atomics written under `c.mu` and read without it, the engine's are behind its own mutex, with
`tripped` mirrored in an atomic. The library has no I/O of its own, no persistence and no
timer; the only part that is interrupted and run again is the release script.

What is hard: the lock-free reads of the carrier against its transitions; a trip that arrives
before the ring; the release against late records and against recycling; one budget charged
from two places; a batch emitted outside the locks; contexts, cores and loggers that outlive
their scope; two libraries with different settings on one ring; a release that dies between
its commit, its tag and its pushes. `PROJECT.json` lists each such hazard
with its line and the properties that cover it.

What makes each part correct:

* Engine and pool: the ring holds the newest entries in order and counts the others; a trip
  happens once; the budget is exact; a ring belongs to one scope, holds nothing stale and
  comes back clean.
* Carrier: one ring, one trigger, no lost trip, no ring after the release, no deadlock.
* Handler: nothing below the level is written unless the operation failed; if it failed, the
  batch is written completely, in order, once, before the trigger; what may be withheld is
  bounded by the budget.
* Middleware: a failed request is replayed before its scope is released, and anchored once
  unless it has tripped already.
* Adapters: an operation has one scope, ended by its creator; two libraries on it behave as
  one, with the ring of whichever came first; nothing below a level escapes a released scope.
* Release: a published tag is a finished release; no version is stamped twice.

## The modules

| Module | Models | Against |
|---|---|---|
| `Recorder` | what an engine promises: a log, its newest entries, a budget | abstract |
| `Scope` (`ScopeProofs`) | `scope.go`, `pool.go` | `Recorder` |
| `SharedScope` | what a context's scope promises: one ring, one trip, a final release | abstract |
| `Carrier` (`CarrierProofs`) | `carrier.go`, with its two mutexes | `SharedScope` |
| `Handler` (`MCHandler`, `HandlerProofs`) | `handler.go`, `scope.go`, Flush's emission, on top of the two promises | its properties, `SharedScope` |
| `Middleware` (`MiddlewareProofs`) | `middleware.go`, one request on top of the same promises | its properties |
| `Adapters` (`MCAdapters`, `AdaptersProofs`) | `zapadapter/`, `handler.go`, `scope.go`, `options.go`: contexts, levels, two libraries on one ring | its properties |
| `Release` (`ReleaseProofs`) | `scripts/release.sh`, its crashes, its operator and its remote | its properties |

**Scope.** Each method body is one critical section, hence one action per way it answers.
Rings are arrays on the heap, so they have identity (`Box`) and their slots are in `mem`; a
scope holds a reference, and `free` is the pool. `GetFresh` is always possible, because a
`sync.Pool` may come back empty, and `Collect` drops a pooled ring. The engine's only
lock-free read is discussed in the module's header. `appended` is history; `batch`, `lost`
and `reply` are the results of the calls. The nil tests around the pool in `Close` and the
length test in `put` never decide anything on the paths of the code and are left out.

**Carrier.** Each atomic load outside the mutexes, each acquisition, and each critical
section up to its one store is a step, and a call is a sequence of them (`pc`). `got` is the
`*Scope` in hand, `answer` the boolean returned. Of the engine only the trip and the close are
kept, under its own mutex `smu`. `wins` and `began` are history. `Closed()` is the same single
load as the first step of the other calls.

**Handler.** Goroutines log records of three kinds (in the buffer band, at the level, at the
trip level), call `Trip` and `done`. A critical section is one step, which is what `Carrier`
justifies, and the ring is the log of `Recorder`, which is what `Scope` implements. `out` is
what the downstream received, `fate` what became of each record, `wins` counts the calls that
were told that theirs was the trip. Nothing calls the handler
for a record below the buffer floor: `Enabled` refuses it, in a scope and out of one.

**Middleware.** `main` is the goroutine of `ServeHTTP`; `phase` says how far its unwinding
is: the handler runs (`serve`), the deferred function decides (`recover`), `anchor` checks,
trips and logs (three steps, because other goroutines of the request log in between), and
`done` runs. With nested middleware `layer` counts the layers left: each one recovers, decides
and unwinds, the panic travelling on, and only the outermost opened the scope. Every call on
the response passes all layers' status writers, so one `recorded` stands for them; `sent` is
what the server has put on the wire. `backed` covers a `WithLogger` logger that is not dllog's.
What `Handle` or `Trip` decides is one step; what they write follows as one or two (the batch,
then the line). So this module shows the order within one goroutine and counts lines overall;
how a batch in progress meets other goroutines' lines is `Handler`'s matter. The predicate is the
default (5xx), and `500`, `404`, `200` and `103` stand for their classes.

**Adapters.** The composition: goroutines with a stack of open `Scope` calls (`stack`), a zap
core bound by `For` (`core`), and at most one record that `Enabled` or `Check` admitted and
`Handle` or `Write` has not handled yet (`admitted`). A context is the number of the scope it
carries, since both packages resolve any wrapper through `core.FromContext`; a handed-on
context may be of a scope that is released meanwhile. `Handle` and `Write` have the same
control, so their branches are one set of actions over the adapter's settings, which `Config`
makes of the defaults and the options and `SettingsAssumption` orders as `resolve` demands.
A call is one step (`Handler` has the steps inside), but for the batch of a trip, which goes out
one item at a time, outside every lock (`emitting`, `FlushNext`, `FlushEnds`), while others log,
release the scope or open the next one. `pool` is the adapter whose pool made a
scope's ring, and with it whose capacity and budget hold. `records` numbers what was handled
and says if it came `before` or `after` its scope's trip or `alone`, without a live scope.
`flushed` is what the flush of each scope has offered to the downstreams, in order, and
`passed` the records that were offered when they were handled. How the two fall into each other
on one stream is not kept: a live record may stand between the notice and the batch, as it may
inside the batch, and `Handler` has that order. A sampler or tee that declines an entry changes
nothing in dllog. Levels are fixed values here: a slog `Leveler` that changes after
construction is, as `resolve` says, the caller's contract.

**Release.** One clone and its remote. A branch is the sequence of its commits, so ancestry is
the prefix order. Each of the run's commands from the fetch to the last push is an action,
`Crash` ends a run after any of them, and `vcs` picks git's order (commit, tag, branch, tag
pushed) or jj's (commit, branch, tag, tag pushed). A version is a number and the caller may
override the proposed one, so the bump is a free choice among the versions the checks admit;
the branch that the fetch compared is not compared again, exactly as in the script. Between
runs the developer commits work with or without leftovers, cleans the tree, rebases as line 70
advises (or gives the clone's commits up when a heading conflicts), or drops or finishes the commit as line 107 advises; others push work or release at any
moment, a version that their branch does not carry. What the pins say is left out; that
they make the tree dirty is not.

The definitions named `...Without...`, `...Keeps...`, `Un...` and so on that stand just before
a definition of the model (and `JoinOwns`, `DoneAgain`, `CapacityOfNewest`, ... likewise) are
deliberately broken forms of it: each shows that the property
named for it in `PROJECT.json` fails when the code has that bug.

## The runs

| Run | Instance | Shows |
|---|---|---|
| `scope_pool` | 2 scopes, 2 rings, default capacity (2 here), budget 1, 3 entries per scope | ownership, cleanliness, content of recycled rings; refinement of `Recorder` |
| `carrier` | 3 goroutines, 2 rings | every safety property of the carrier; refinement of `SharedScope` |
| `carrier_live` | 2 goroutines, 2 rings, fair | every call returns |
| `carrier_locks` | 2 goroutines | the finding below |
| `handler` | 3 goroutines (symmetric), 3 records, capacity 2, budget 1 | what is written, in what order, what is withheld; refinement of `SharedScope` |
| `handler_live` | 2 goroutines, 3 records, fair | replay completes, every record settles |
| `middleware` | 2 layers, 2 helper goroutines, 4 calls, budget 1 | replay and anchor of a request |
| `middleware_headless` | 1 layer, `main` only | the second finding |
| `middleware_status` | 1 layer, `main` only | the third finding |
| `adapters` | 2 goroutines (symmetric), 2 `Scope` calls open, 4 events (one scope and 3 records, or two and 2); slog: capacity 1, budget 1; zap: floor and level one higher, default capacity (2), no budget | one scope per operation, one sequence per trip, whose settings hold, what a released scope still lets through |
| `release` | git or jj, 3 versions, 6 commits | what the remote has is a release; one stamp per version |
| `release_stacked` | the same | the fourth finding |

Bounds. Two scopes and two rings let one scope be closed and its ring be recycled by the other,
or the other ring be picked instead; no scope ever takes a second one. Three entries against capacity 2 evict and wrap.
`MaxPassed` is one more than the budget, so the refusal is reached. Longer fillings and other
capacities are the proofs' matter. The carrier has two rings so that a second one
could be made, and three goroutines because its races need two callers and a release. In
`handler` three records let one be evicted before a bare trip, or one be replayed, one trip and
one follow, while a third goroutine logs between the winner of a trip, still replaying, and a
loser; `handler_live` has capacity 1, so that a record trips a ring that evicted. A request of
two layers has an
inner anchor and an outer check that must see it; four calls let one goroutine buffer while
two trip and one spends the budget. In `adapters` two scopes are an operation and the next one,
met by the context, the core and the goroutines of the first; two open calls are a scope
and one that joins it, on one goroutine or two; three records in one
scope let each adapter's ring evict (capacity 1 and 2) or one budget be spent by both, and the
second scope leaves two, one logged through a core or context of each scope. In `release` six commits
let two releases, a rebase and others' commits meet. Records, goroutines and
entries beyond that repeat these cases, and the proofs below hold for any number of them;
liveness alone rests on the bounds. Deadlock is checked in every run but the
middleware's, whose request ends, and the adapters', where every scope may be released and
every record handled.

Fairness. A call is made of steps of one goroutine that the scheduler runs, so `Handler` has
weak fairness for each goroutine's steps. In `Carrier` a step can wait for a mutex that others
take again and again; Go's mutex enters a starvation mode that hands it to the waiter, so
each goroutine has strong fairness. No fairness is assumed of beginning a call.

Findings. `carrier_locks`: `carrier.go:208-209` says that closing the engine outside
`c.mu` "keeps the two from being held together anywhere in the package". `Bind`, on a carrier
that was tripped before it had a ring, calls `s.Trip()` with `c.mu` held (`carrier.go:110-112`),
so both are. It is harmless, since nobody else can reach that scope yet, and `CallsReturn`
holds, but the comment is no licence to take the two in the other order.

`middleware_headless`: `middleware.go:119-120` says an anchor is emitted "so a flush is never a
headless pile of Debug lines", and `anchor` skips it when the scope has tripped, "in which case
the request already has its error line" (`161-163`). A handler that calls `Trip` and then fails
has no error line. `HeadlessOnlyIfBareOrSpent` says when that can happen: after a bare trip, or
when goroutines of the request use up the budget between the middleware's trip and its anchor.

`middleware_status`: `statusCode` is not "the status the client will see" (`225`) after
`WriteHeader(103)`, which the server does not take for the final status. A 500 after it does
not trip and the buffer is discarded. A flush through `http.ResponseController`, which follows
`Unwrap`, sends a 200 the wrapper never records. `FailureIsReplayed` excepts the first case and
holds otherwise.

`release_stacked`: `release.sh:20-22` says leftovers are refused "so a re-run can never
double-stamp or stack a second release commit". The check (`103-108`) looks at the head only.
A run that died after its commit is forgotten once there is work on top, and one that died
after its tag, or whose push the moved remote refused, counts as history because the tag exists
in the clone. The next run, with any other version, stacks its commit on the first, whose tag
is never published. The other half of the claim holds: `StampedOnce`.

A comment no run is about: `zapadapter/core.go:364-366` says `Core.Trip` marks replayed entries
with that core's replay key; each entry carries the key of the core that logged it
(`slot.go:33-38`), as `docs/adr/0001-replay-key-per-entry.md` has it.

## The proofs

Every invariant of the passing runs, and both refinements that they check, is a theorem, for
every value of the constants that satisfies the named assumptions:

| Assumption | Says | Since |
|---|---|---|
| `SizesAssumption` (`Scope`, `Handler`) | sizes, limits and bounds are numbers; `Handler`'s capacity is not 0 | `NewScopePool` normalises them |
| `NilsAssumption`, `NilAssumption` | nil is no ring, no scope and no goroutine | |
| `RequestAssumption` | at least one layer; `main` is no helper | |
| `SettingsAssumption` | levels are integers with floor <= level <= trip for each adapter, capacities positive | `resolve` panics otherwise |
| `BoundsAssumption` | the bounds of `Release` are numbers | |

Each proof module has the same shape: the inductive invariant `IInv` as named parts, the facts
about the module's operators that several steps need, a lemma per action or group of actions,
`InitIInv` and `NextIInv`, and the theorems.

`ScopeProofs`: `TypeCorrect`, `RingOwnedOnce`, `RingHoldsNewest`, `RingRetainsNothingElse`,
`ScopeImplementsRecorder`. Its
inductive invariant joins the four state properties with two facts they need: a scope not yet
made has touched nothing (`Untouched`), and the flags fit each other (`Flags`: `tripped`
mirrors `tripState`, and a tripped or closed scope holds nothing). The heart is
arithmetic modulo the capacity: the slot after the last is free when the ring is not full and
is the oldest one when it is, so a write disturbs no kept entry.

`CarrierProofs`: `CarrierTypeCorrect`, `OneCallTrips`, `OneRingPerContext`, `EarlyTripIsKept`,
`TripHasEffect`, `NothingOutlivesRelease`, `CarrierImplementsSharedScope`. The inductive
invariant `IInv` says who holds each mutex by where each goroutine stands (`Holder`,
`RingHolder`), that there is no scope, one being built under `c.mu`, or the published one
(`OneMade`, `InHand`), and which flags may then be up (`RingFlags`). From it, a goroutine in
the carrier's critical section outside `Bind`'s building knows that nothing has been made
(`NothingMade`), which is why a trip recorded there is the first one. `OneMade` is needed
even for type correctness: it is what excludes a nil dereference.

`TripIsNotForgotten` and `ReleasedHasNoScope` are about what a call may answer, given what was
true when it began. Their invariant, `Remembered`, stands on `IInv` and speaks of each step of
a call: one that began after the trip and found the flag down will find the tripped ring
(`StillTripped`), and one that began after the release never gets past its first load
(`StillClosed`). This is why `Tripped` may load the flag and the ring at two moments: a trip is
either on the flag, for good, or on a ring that was already published.

`HandlerProofs`: `HandlerTypeCorrect`, `FlushKeepsOrder`, `LevelHoldsUntilTrip`, `NothingTwice`,
`BatchThenTrigger`, `OnlyBudgetWithholds`, `NoBufferAfterTrip`, `BudgetIsABound`. None of these
is inductive, because a goroutine decides in one step and writes in a later one. `Placed` says
what a goroutine at each place may rely on: one about to emit a debug record is in a tripped
scope, and one about to emit the record that tripped has put the whole batch out. `Apart` says
that no two goroutines hold one record or replay at once, which is why the batch keeps its
order although it is emitted outside every lock. `Flags`, `Recorded` and `Written` tie the
carrier, the fates and the output together. `Progress` and `Following` carry the order: what
has been flushed is counted by `replayed` and the notice, and its n-th item is the n-th of the
script. `Budgeted` counts the late records that are out or on their way, so the bound survives
a goroutine that was charged and has not written yet. `HandlerKeepsSharedScope` maps the handler
onto `SharedScope` as well (`KeepsSharedScope`, which the run `handler` checks): a call decides on
loads taken at different moments, and still attaches, trips, closes and releases only where the
abstract scope does. The steps of `MarkFirst` and `FlushTrips`, whose callers are told that they
are the trigger, are the abstract trip and are counted (`wins`), so there is one.

`MiddlewareProofs`: `MiddlewareTypeCorrect`, `FailuresAreReplayed`, `CleanRequestsAreSilent`,
`OneAnchor`, `HeadlessOnlyIfExcused`, `BatchLandsBeforeAnchor`. `Emitting`
is again what a goroutine between its decision and its lines relies on. `Unwinding` is the
heart: a layer gets past its anchor only if nothing failed or the scope has tripped, and the
scope ends with the outermost layer. (That the outermost layer is the scope's owner is how
`Middleware` is set up; who owns a scope is decided in `Adapters`, by `OneScopePerOperation`.) `Response` relates what the wrapper recorded to what the
client got, as long as no informational status was sent. `Caused` says that every trip has a
cause and what became of it: an error line, or an anchor written, pending or refused by a spent
budget. `Counted` bounds what can have been charged before the anchor. `Anchoring` says that an
anchor is written once, in a tripped scope, behind the batch of its own trip.

`AdaptersProofs`: `AdaptersTypeCorrect`, `ScopeIsOnes`, `BudgetCoversBoth`,
`LevelsHoldOutsideTrips`, `BatchIsOneSequence`, `NoticeLeadsItsBatch`. `Calls` is what makes a
scope one operation's: a context handed to a goroutine is not that goroutine's to end, and one
call at most owns a scope. `Rings` fits the flags to the log of each scope, and `Logged` makes
that log the records that were buffered, in the order they were handled, whichever adapter they
came by. `Passed` says that whatever was offered when it was handled was `Due` then and still
is. `Emitting` is what a goroutine at a flush relies on: its scope has tripped, and it handles
no record meanwhile. `Flushed` carries the batch over those steps: what has been offered is a
prefix of the batch, and the whole of it once nobody is at the flush. The batch is a function of
the log, which no step changes once the scope has tripped (`BatchKept`); `FlushFacts` then says
what stands at each place. `Charged` is the exact account of the shared budget, the records
after the trip up to the limit of the adapter that made the ring.

`ReleaseProofs`: `PublishedTagsAreReleases` and `StampedOnlyOnce`. Neither property is
inductive: each depends on what the run left behind it. `IInv` adds the types, with the fact
that a release commit adds the heading of its own version (`CommitSet`), and `Behind`, one line
per step of the run: a chosen version is not among the branch's headings, so the stamp is new
and the commit keeps the branch stamped once; from the commit to the end the run's version
heads the branch; when the tag is about to be published the clone has it there and the remote
has the branch, in git's order and in jj's, and also when the run was finished by hand. Others
only append to the remote, which keeps every ancestor (`PrefixAppend`).

Model-checked only: the liveness properties (`CallsReturn`, `ReplayCompletes`,
`RecordsSettle`), since fairness and ENABLED are outside what the proof system handles. The
modules use no recursive operator. `Handler`, `Middleware` and `Adapters` take a critical
section or a whole call of the layer below as one step. That the layer below keeps its promise
is `ScopeImplementsRecorder` and `CarrierImplementsSharedScope`, and that `Handler` asks no more
of the carrier is `HandlerKeepsSharedScope`; for the ring in `Handler`, and for `Middleware` and
`Adapters`, that correspondence is read in the modules and not proved.

## Plan

What is left:

1. The ring in `Handler` and a scope of `Adapters` as implementations of `Recorder`, which
   needs the ring's making and its early trip apart, so that the use of that promise is proved.
2. Lemmas that several proof modules state alike (the flags of a scope, what `Newest` keeps)
   in one place, and the longer case splits shortened.

Not modelled: the demo and the CI scripts (no state), releases of a repository without a remote
or with a `pyproject.toml`, a crash between jj's `describe`, `new` and `bookmark set`, the encoding of records and the replay
marker's place in a group (layout), attribute derivation (`WithAttrs`, `WithGroup`: immutable
copies), and the values records point to, which a caller may mutate (`docs/caveats.md`).
