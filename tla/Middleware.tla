----------------------------- MODULE Middleware -----------------------------
(* One request through the HTTP middleware (middleware.go): the handler's own *)
(* goroutine, main, serves it under one or more nested Middleware layers, and *)
(* goroutines it started log into the same context, perhaps after it is over. *)
(*                                                                            *)
(* The layers share one scope: the outermost opens it, the others join it.    *)
(* That scope is taken at its word (module SharedScope: a trip has one winner *)
(* and no record is buffered after it; module Recorder: the budget), so what  *)
(* Handle decides about a record is one step.  Emitting is a step of its own, *)
(* a batch being one item of the output, for module Handler shows how it is   *)
(* written.  The response is the server's, as the writer's calls drive it.    *)
EXTENDS Integers, Sequences, SequencesExt

CONSTANTS Helper,      \* the goroutines the handler started
          Layers,      \* Middleware around Middleware, at least once
          Limit,       \* the post-trip budget, 0 = unlimited
          MaxRecords   \* bound: records and bare trips in one behaviour

ASSUME RequestAssumption ==
    /\ "main" \notin Helper
    /\ Layers \in Nat \ {0}
    /\ Limit \in Nat
    /\ MaxRecords \in Nat

VARIABLES
    tripped, closed, held, spent,  \* the scope: its flags, its ring's length,
                                   \* the budget used
    at, line,                      \* what each goroutine is emitting
    phase, layer,                  \* where main is, under which layer
    panicked,                      \* the handler panicked
    recorded,                      \* statusWriter.status, alike in every layer
    sent,                          \* the final status on the wire, 0 = none yet
    backed,                        \* whether WithLogger's logger is dllog's
    out,                           \* what was written, in order
    records,                       \* bound: calls made so far
    cause, batch, discarded,       \* history: who tripped, what that replays,
                                   \* what the release threw away
    informed                       \* history: a 1xx status was written

scopeVars == <<tripped, closed, held, spent>>
emitVars == <<at, line>>
mainVars == <<phase, layer, panicked>>
responseVars == <<recorded, sent, informed>>
historyVars == <<cause, batch, discarded>>
vars == <<scopeVars, emitVars, mainVars, responseVars, historyVars, backed, out, records>>

Proc == Helper \cup {"main"}
Line == {"debug", "info", "error", "anchor"}
Status == {103, 200, 404, 500}

Informational(code) == code < 200

Init ==
    /\ tripped = FALSE /\ closed = FALSE /\ held = 0 /\ spent = 0
    /\ at = [p \in Proc |-> "free"]
    /\ line = [p \in Proc |-> "none"]
    /\ phase = "serve" /\ layer = Layers /\ panicked = FALSE
    /\ recorded = 0 /\ sent = 0 /\ informed = FALSE
    /\ backed \in BOOLEAN
    /\ out = <<>> /\ records = 0
    /\ cause = "none" /\ batch = 0 /\ discarded = 0

-----------------------------------------------------------------------------
(* A goroutine logs, or trips the scope. *)

\* p has something to write: the batch its trip won, and then line l.
Owes(p, won, l) ==
    /\ at' = [at EXCEPT ![p] = IF won /\ held > 0 THEN "replay"
                               ELSE IF l = "none" THEN "free" ELSE "emit"]
    /\ line' = [line EXCEPT ![p] = l]

\* The scope trips, by one of these causes.
TripBy(c) ==
    /\ tripped' = TRUE
    /\ cause' = c
    /\ batch' = held
    /\ held' = 0
    /\ UNCHANGED <<closed, spent, discarded>>

\* The post-trip budget: charged and passed, or refused.
Charge(p, l) ==
    /\ IF Limit > 0 /\ spent >= Limit
       THEN UNCHANGED <<emitVars, spent>>
       ELSE Owes(p, FALSE, l) /\ spent' = spent + 1
    /\ UNCHANGED <<tripped, closed, held, historyVars>>

\* A record the scope does not intercept.
Free(p, l) ==
    /\ Owes(p, FALSE, l)
    /\ UNCHANGED <<scopeVars, historyVars>>

\* Handle of a record below, at or above the level, at or above the trip level.
HandleDebug(p) ==
    \/ closed /\ UNCHANGED <<emitVars, scopeVars, historyVars>>
    \/ /\ ~closed /\ ~tripped
       /\ held' = held + 1
       /\ UNCHANGED <<emitVars, tripped, closed, spent, historyVars>>
    \/ ~closed /\ tripped /\ Charge(p, "debug")

HandleInfo(p) ==
    \/ (closed \/ ~tripped) /\ Free(p, "info")
    \/ ~closed /\ tripped /\ Charge(p, "info")

HandleError(p, l) ==
    \/ closed /\ Free(p, l)
    \/ ~closed /\ ~tripped /\ Owes(p, TRUE, l) /\ TripBy(l)
    \/ ~closed /\ tripped /\ Charge(p, l)

\* Trip(ctx): nothing to write but the batch.
BareTrip(p, c) ==
    IF closed \/ tripped
    THEN UNCHANGED <<emitVars, scopeVars, historyVars>>
    ELSE Owes(p, TRUE, "none") /\ TripBy(c)

\* The request's own code, on any goroutine.
Log(p) ==
    /\ at[p] = "free"
    /\ p = "main" => phase = "serve"
    /\ records < MaxRecords
    /\ records' = records + 1
    /\ HandleDebug(p) \/ HandleInfo(p) \/ HandleError(p, "error") \/ BareTrip(p, "bare")
    /\ UNCHANGED <<mainVars, responseVars, backed, out>>

Replay(p) ==
    /\ at[p] = "replay"
    /\ out' = Append(out, "batch")
    /\ at' = [at EXCEPT ![p] = IF line[p] = "none" THEN "free" ELSE "emit"]
    /\ UNCHANGED <<line, scopeVars, mainVars, responseVars, historyVars, backed, records>>

Emit(p) ==
    /\ at[p] = "emit"
    /\ out' = Append(out, line[p])
    /\ at' = [at EXCEPT ![p] = "free"]
    /\ line' = [line EXCEPT ![p] = "none"]
    /\ UNCHANGED <<scopeVars, mainVars, responseVars, historyVars, backed, records>>

-----------------------------------------------------------------------------
(* The response. *)

Serving == phase = "serve" /\ at["main"] = "free"
ResponseOnly ==
    UNCHANGED <<scopeVars, emitVars, mainVars, historyVars, backed, out, records>>

\* The server sends an informational status at once and waits for the final one;
\* it honours the first of those.
ServerStatus(code) ==
    sent' = IF sent = 0 /\ ~Informational(code) THEN code ELSE sent

WriteHeader(code) ==
    /\ Serving
    /\ recorded' = IF recorded = 0 THEN code ELSE recorded
    /\ informed' = (informed \/ Informational(code))
    /\ ServerStatus(code)
    /\ ResponseOnly

Write ==
    /\ Serving
    /\ recorded' = IF recorded = 0 THEN 200 ELSE recorded
    /\ ServerStatus(200)
    /\ ResponseOnly
    /\ UNCHANGED informed

\* http.ResponseController.Flush follows Unwrap past the wrapper.
FlushResponse ==
    /\ Serving
    /\ ServerStatus(200)
    /\ ResponseOnly
    /\ UNCHANGED <<recorded, informed>>

StatusCode == IF recorded = 0 THEN 200 ELSE recorded

FailingFrom400(status) == status >= 400
\* The default predicate of WithTripOn.
Failing(status) == status >= 500

-----------------------------------------------------------------------------
(* The handler ends, and each layer's deferred functions run, innermost layer *)
(* first, while a panic keeps travelling outward.                             *)

Advance(from, to) ==
    /\ phase = from /\ at["main"] = "free"
    /\ phase' = to
    /\ UNCHANGED <<responseVars, backed, out, records>>
\* A step that only moves main along.
Along == UNCHANGED <<scopeVars, emitVars, historyVars>>

Return ==
    /\ Advance("serve", "recover")
    /\ Along
    /\ UNCHANGED <<layer, panicked>>

Panic ==
    /\ Advance("serve", "recover")
    /\ panicked' = TRUE
    /\ Along
    /\ UNCHANGED layer

RecoverForgetsPanic ==
    /\ Advance("recover", IF Failing(StatusCode) THEN "check" ELSE "done")
    /\ Along
    /\ UNCHANGED <<layer, panicked>>
Recover ==
    /\ Advance("recover", IF panicked \/ Failing(StatusCode) THEN "check" ELSE "done")
    /\ Along
    /\ UNCHANGED <<layer, panicked>>

AlwaysAnchors ==
    /\ Advance("check", "trip")
    /\ Along
    /\ UNCHANGED <<layer, panicked>>
\* alreadyTripped: a released scope is not.
AnchorCheck ==
    /\ Advance("check", IF tripped /\ ~closed THEN "done" ELSE "trip")
    /\ Along
    /\ UNCHANGED <<layer, panicked>>

ChecksAfterTrip ==
    /\ Advance("trip", "check")
    /\ BareTrip("main", "anchor")
    /\ UNCHANGED <<layer, panicked>>
LogsBeforeTrip ==
    /\ phase = "trip" /\ at["main"] = "free"
    /\ phase' = "done"
    /\ out' = Append(out, "anchor")
    /\ BareTrip("main", "anchor")
    /\ UNCHANGED <<layer, panicked, responseVars, backed, records>>
AnchorTrip ==
    /\ Advance("trip", "log")
    /\ BareTrip("main", "anchor")
    /\ UNCHANGED <<layer, panicked>>

\* logger.ErrorContext: through a dllog Handler, or into some other logger.
AnchorLog ==
    /\ Advance("log", "done")
    /\ IF backed THEN HandleError("main", "anchor") ELSE Free("main", "anchor")
    /\ UNCHANGED <<layer, panicked>>

OneLayerLate == layer = 0
\* Only the layer that opened the scope has a done that does something.
Outermost == layer = 1

ReleaseScope ==
    /\ closed' = TRUE
    /\ held' = 0
    /\ discarded' = IF tripped THEN discarded ELSE held
    /\ UNCHANGED <<tripped, spent, emitVars, cause, batch>>

Done ==
    /\ Advance("done", IF Outermost THEN "over" ELSE "recover")
    /\ layer' = layer - 1
    /\ IF Outermost THEN ReleaseScope ELSE Along
    /\ UNCHANGED panicked

-----------------------------------------------------------------------------
Respond == (\E code \in Status : WriteHeader(code)) \/ Write \/ FlushResponse

Unwind ==
    \/ Return \/ Panic \/ Recover \/ AnchorCheck \/ AnchorTrip \/ AnchorLog \/ Done

Next ==
    \/ \E p \in Proc : Log(p) \/ Replay(p) \/ Emit(p)
    \/ Respond
    \/ Unwind

Spec == Init /\ [][Next]_vars

-----------------------------------------------------------------------------
(* Properties. *)

TypeOK ==
    /\ {tripped, closed, panicked, backed, informed} \subseteq BOOLEAN
    /\ held \in 0 .. MaxRecords /\ spent \in 0 .. MaxRecords + Layers
    /\ at \in [Proc -> {"free", "replay", "emit"}]
    /\ line \in [Proc -> Line \cup {"none"}]
    /\ phase \in {"serve", "recover", "check", "trip", "log", "done", "over"}
    /\ layer \in 0 .. Layers
    /\ recorded \in Status \cup {0} /\ sent \in {0, 200, 404, 500}
    /\ out \in Seq(Line \cup {"batch"})
    /\ records \in 0 .. MaxRecords
    /\ cause \in {"none", "bare", "error", "anchor"}
    /\ batch \in 0 .. MaxRecords /\ discarded \in 0 .. MaxRecords

Wrote(l) == \E i \in DOMAIN out : out[i] = l
Settled == phase = "over" /\ \A p \in Proc : at[p] = "free"
HasErrorLine == Wrote("error") \/ Wrote("anchor")

\* "A request that fails replays them" (middleware.go:108-109): when the handler
\* panicked, or the client was answered with a 5xx, the scope has tripped before
\* its release and nothing buffered was discarded, whatever other goroutines and
\* layers did meanwhile.  An informational status before the 5xx is excepted: see
\* StatusIsTheClients.
FailureIsReplayed ==
    phase = "over" /\ (panicked \/ (sent >= 500 /\ ~informed))
        => tripped /\ discarded = 0

\* "A request that succeeds discards its buffered records" (middleware.go:108):
\* nothing below the level is written unless something failed, and an anchor
\* only for a panic or a status the predicate names, never for a 4xx.
CleanIsSilent ==
    /\ Wrote("batch") \/ Wrote("debug") => cause # "none"
    /\ Wrote("anchor") \/ cause = "anchor" => panicked \/ recorded = 500

\* "One anchor Error record" per request (middleware.go:119): not one per layer,
\* and no second one for the panic that passes through them all.
AnchoredOnce ==
    \A i, j \in DOMAIN out : out[i] = "anchor" /\ out[j] = "anchor" => i = j

\* A request that tripped has an error line by the time everything is written,
\* unless it was tripped by a bare Trip, or its goroutines used up the budget
\* between the middleware's trip and its anchor (middleware.go:119-122).
HeadlessOnlyIfBareOrSpent ==
    Settled /\ tripped /\ ~HasErrorLine
        => cause = "bare" \/ (Limit > 0 /\ spent >= Limit)

\* "Trip first so the buffered records land before the anchor" (middleware.go:
\* 168-170): when the middleware tripped the scope, whichever logger it has.
BatchBeforeAnchor ==
    \A i \in DOMAIN out :
        out[i] = "anchor" /\ cause = "anchor" /\ batch > 0
            => \E j \in 1 .. i - 1 : out[j] = "batch"

-----------------------------------------------------------------------------
(* What two comments of the code say, and the code does not do. *)

\* middleware.go:119-120: "one anchor Error record ... is emitted, so a flush is
\* never a headless pile of Debug lines."
NeverHeadless ==
    Settled /\ Wrote("batch") /\ (panicked \/ sent >= 500) => HasErrorLine

\* middleware.go:225-226: "statusCode reports the status the client will see".
StatusIsTheClients ==
    phase # "serve" /\ ~panicked => StatusCode = IF sent = 0 THEN 200 ELSE sent
=============================================================================
