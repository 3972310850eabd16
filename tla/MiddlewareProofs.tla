------------------------- MODULE MiddlewareProofs --------------------------
(* Theorems about Middleware, for any number of layers, of goroutines and of  *)
(* records, and any budget.                                                   *)
EXTENDS Middleware, SequenceTheorems, TLAPS

-----------------------------------------------------------------------------
(* The inductive invariant, part by part.                                     *)

\* What makes a layer trip the scope, once the handler has ended.
Failed == panicked \/ recorded = 500

\* The anchor is written, or main is about to write it.
Anchored == Wrote("anchor") \/ line["main"] = "anchor"

\* What a goroutine is emitting: the batch before its line, nothing below the
\* level unless the scope tripped, and the anchor only on main.
Emitting ==
    \A p \in Proc :
        /\ at[p] = "free" => line[p] = "none"
        /\ at[p] = "emit" => line[p] # "none"
        /\ at[p] = "replay" \/ line[p] = "debug" => tripped
        /\ line[p] = "anchor" => p = "main"

\* How far the layers are: the scope ends with the outermost, and a layer is past
\* its deferred anchor only if nothing failed or the scope has tripped.
Unwinding ==
    /\ closed <=> phase = "over"
    /\ phase = "over" <=> layer = 0
    /\ phase \in {"check", "trip", "log"} => Failed
    /\ phase = "log" => tripped
    /\ phase \in {"done", "over"} /\ Failed => tripped

\* Every buffered or charged record was counted, and one anchor beyond them.
Counted ==
    /\ held <= records /\ batch <= records /\ discarded <= records
    /\ spent <= records + 1
    /\ phase \in {"trip", "log"} => spent <= records
    /\ ~tripped => spent = 0

\* Without an informational status the wrapper has seen what the client sees of
\* a failure.
Response ==
    ~informed =>
        /\ sent = 0 => recorded = 0
        /\ sent >= 500 => recorded = sent

\* The scope's trip has a cause; a release that threw something away had none.
Caused ==
    /\ tripped <=> cause # "none"
    /\ discarded > 0 => closed /\ ~tripped
    /\ Wrote("batch") \/ Wrote("debug") => tripped
    /\ cause = "anchor" \/ Anchored => Failed
    /\ cause = "error" => Wrote("error") \/ \E p \in Proc : line[p] = "error"
    /\ cause = "anchor" =>
           \/ phase = "log" \/ Anchored
           \/ Limit > 0 /\ spent >= Limit

\* The anchor: only once the scope has tripped, only once, and after the batch of
\* the trip it made itself.
Anchoring ==
    /\ Anchored => tripped /\ phase \notin {"serve", "trip", "log"}
    /\ line["main"] = "anchor" => ~Wrote("anchor")
    /\ cause = "anchor" /\ batch > 0 =>
           Wrote("batch") \/ (at["main"] = "replay" /\ line["main"] = "none")

IInv ==
    /\ TypeOK /\ Emitting /\ Unwinding /\ Counted /\ Response /\ Caused
    /\ Anchoring /\ AnchoredOnce /\ BatchBeforeAnchor
-----------------------------------------------------------------------------
(* Steps that write nothing and leave the scope alone. *)

\* What was written stays written.
LEMMA SameOut ==
    ASSUME UNCHANGED out
    PROVE  \A l : Wrote(l)' <=> Wrote(l)
BY DEF Wrote

\* What the wrapper and the server note of the response.
LEMMA ResponseNoted ==
    ASSUME IInv, Respond
    PROVE  /\ recorded' \in Status \cup {0} /\ sent' \in {0, 200, 404, 500}
           /\ informed' \in BOOLEAN
           /\ recorded' = recorded \/ recorded = 0
           /\ Response'
<1> DEFINE Noted == /\ recorded' \in Status \cup {0} /\ sent' \in {0, 200, 404, 500}
                    /\ informed' \in BOOLEAN
                    /\ recorded' = recorded \/ recorded = 0
                    /\ Response'
<1>1. /\ recorded \in {0, 103, 200, 404, 500} /\ sent \in {0, 200, 404, 500}
      /\ informed \in BOOLEAN
      /\ ~informed => (sent = 0 => recorded = 0) /\ (sent >= 500 => recorded = sent)
    BY DEF IInv, TypeOK, Status, Response
<1>2. ASSUME NEW code \in Status, WriteHeader(code) PROVE Noted
    <2>1. code \in {103, 200, 404, 500}
        BY DEF Status
    <2>2. /\ recorded' = IF recorded = 0 THEN code ELSE recorded
          /\ informed' = (informed \/ code < 200)
          /\ sent' = IF sent = 0 /\ ~(code < 200) THEN code ELSE sent
        BY <1>2 DEF WriteHeader, ServerStatus, Informational
    <2>3. recorded' \in Status \cup {0} /\ (recorded' = recorded \/ recorded = 0)
        BY <1>1, <2>2 DEF Status
    <2>4. sent' \in {0, 200, 404, 500} /\ informed' \in BOOLEAN
        BY <1>1, <2>1, <2>2
    <2>5. CASE informed' = FALSE
        <3>1. informed = FALSE /\ ~(code < 200)
            BY <1>1, <2>2, <2>5
        <3>2. (sent = 0 => recorded = 0) /\ (sent >= 500 => recorded = sent)
            BY <1>1, <3>1
        <3>3. (sent' = 0 => recorded' = 0) /\ (sent' >= 500 => recorded' = sent')
            BY <1>1, <2>1, <2>2, <3>1, <3>2
        <3> QED BY <2>3, <2>4, <3>3 DEF Response
    <2> QED BY <2>3, <2>4, <2>5 DEF Response
<1>3. ASSUME Write PROVE Noted
    <2>1. /\ recorded' = IF recorded = 0 THEN 200 ELSE recorded
          /\ informed' = informed
          /\ sent' = IF sent = 0 THEN 200 ELSE sent
        BY <1>3 DEF Write, ServerStatus, Informational
    <2> QED BY <1>1, <2>1 DEF Response, Status
<1>4. ASSUME FlushResponse PROVE Noted
    <2>1. /\ recorded' = recorded /\ informed' = informed
          /\ sent' = IF sent = 0 THEN 200 ELSE sent
        BY <1>4 DEF FlushResponse, ServerStatus, Informational
    <2> QED BY <1>1, <2>1 DEF Response, Status
<1> QED BY <1>2, <1>3, <1>4 DEF Respond

\* A call on the response touches nothing of the scope.
LEMMA RespondStep ==
    ASSUME IInv, Respond
    PROVE  IInv'
<1>1. /\ phase = "serve" /\ at["main"] = "free"
      /\ UNCHANGED <<scopeVars, emitVars, mainVars, historyVars, backed, out, records>>
    BY DEF Respond, WriteHeader, Write, FlushResponse, ResponseOnly, Serving
<1> USE <1>1, RequestAssumption DEF IInv, scopeVars, emitVars, mainVars, historyVars
<1>w. \A l : Wrote(l)' <=> Wrote(l)
    BY SameOut
<1>2. TypeOK'
    BY ResponseNoted DEF TypeOK
<1>3. Failed => Failed'
    BY ResponseNoted DEF Failed
<1>4. Emitting'
    BY DEF Emitting
<1>5. Unwinding'
    BY DEF Unwinding
<1>6. Counted'
    BY DEF Counted
<1>7. Caused'
    BY <1>w, <1>3 DEF Caused, Anchored
<1>8. Anchoring' /\ AnchoredOnce' /\ BatchBeforeAnchor'
    BY <1>w DEF Anchoring, Anchored, AnchoredOnce, BatchBeforeAnchor
<1> QED BY <1>2, <1>4, <1>5, <1>6, <1>7, <1>8, ResponseNoted

\* main moves along: the handler returns or panics, a layer recovers and looks
\* whether the scope has tripped.
LEMMA AlongStep ==
    ASSUME IInv, Return \/ Panic \/ Recover \/ AnchorCheck
    PROVE  IInv'
<1>1. /\ UNCHANGED <<scopeVars, emitVars, historyVars, responseVars, layer, backed, out, records>>
      /\ at["main"] = "free"
    BY DEF Return, Panic, Recover, AnchorCheck, Advance, Along
<1> USE <1>1, RequestAssumption DEF IInv, scopeVars, emitVars, responseVars, historyVars
<1>w. \A l : Wrote(l)' <=> Wrote(l)
    BY SameOut
<1>2. recorded \in {0, 103, 200, 404, 500}
    BY DEF TypeOK, Status
<1> DEFINE Moved ==
        /\ phase \in {"serve", "recover", "check"}
        /\ phase' \in {"recover", "check", "trip", "done"}
        /\ panicked' \in BOOLEAN /\ (panicked => panicked')
        /\ phase' \in {"check", "trip"} => Failed'
        /\ phase' = "trip" => ~tripped
        /\ phase' = "done" => ~Failed' \/ tripped
<1>3. Moved
    <2>0. panicked \in BOOLEAN
        BY DEF TypeOK
    <2>1. ASSUME Return PROVE Moved
        BY <2>0, <2>1 DEF Return, Advance
    <2>4. ASSUME Panic PROVE Moved
        BY <2>0, <2>4 DEF Panic, Advance
    <2>2. ASSUME Recover PROVE Moved
        <3>1. Failed <=> panicked \/ Failing(StatusCode)
            BY <1>2 DEF Failed, Failing, StatusCode
        <3>2. Failed' <=> Failed
            BY <2>2 DEF Recover, Failed
        <3> QED BY <2>2, <3>1, <3>2 DEF Recover, Advance, TypeOK
    <2>3. ASSUME AnchorCheck PROVE Moved
        BY <2>3 DEF AnchorCheck, Advance, TypeOK, Failed, Unwinding
    <2> QED BY <2>1, <2>2, <2>3, <2>4
<1>4. TypeOK'
    BY <1>3 DEF TypeOK
<1>5. Failed => Failed'
    BY <1>3 DEF Failed
<1>6. Emitting'
    BY DEF Emitting
<1>7. Unwinding'
    BY <1>3 DEF Unwinding
<1>8. Counted'
    <2>1. phase' = "trip" => spent <= records
        BY <1>3 DEF Counted, TypeOK
    <2> QED BY <1>3, <2>1 DEF Counted
<1>9. Response'
    BY DEF Response
<1>10. Caused'
    BY <1>3, <1>5, <1>w DEF Caused, Anchored
<1>11. Anchoring' /\ AnchoredOnce' /\ BatchBeforeAnchor'
    BY <1>3, <1>w DEF Anchoring, Anchored, AnchoredOnce, BatchBeforeAnchor
<1> QED BY <1>4, <1>6, <1>7, <1>8, <1>9, <1>10, <1>11

\* A layer's done: the outermost ends the scope.
LEMMA DoneStep ==
    ASSUME IInv, Done
    PROVE  IInv'
<1>1. /\ UNCHANGED <<emitVars, responseVars, backed, out, records, tripped, spent,
                     cause, batch, panicked>>
      /\ at["main"] = "free" /\ phase = "done" /\ layer' = layer - 1
      /\ layer = 1 => /\ phase' = "over" /\ closed' = TRUE /\ held' = 0
                      /\ discarded' = IF tripped THEN discarded ELSE held
      /\ layer # 1 => phase' = "recover" /\ UNCHANGED <<closed, held, discarded>>
    BY DEF Done, Advance, Along, Outermost, ReleaseScope, scopeVars, historyVars, emitVars
<1> USE <1>1, RequestAssumption DEF IInv, emitVars, responseVars
<1>w. \A l : Wrote(l)' <=> Wrote(l)
    BY SameOut
<1>2. layer \in 1 .. Layers /\ layer' \in 0 .. Layers /\ (layer' = 0 <=> layer = 1)
    BY DEF TypeOK, Unwinding
<1>3. ~closed /\ discarded = 0
    BY DEF Unwinding, Caused, TypeOK
<1>4. TypeOK'
    <2>1. held' \in 0 .. MaxRecords /\ discarded' \in 0 .. MaxRecords
        BY DEF TypeOK
    <2>2. phase' \in {"recover", "over"} /\ closed' \in BOOLEAN
        BY ZenonT(60) DEF TypeOK
    <2> QED BY <1>2, <2>1, <2>2 DEF TypeOK
<1>5. Emitting'
    BY DEF Emitting
<1>6. Unwinding'
    BY <1>2, <1>3 DEF Unwinding, Failed
<1>7. Counted'
    BY <1>3 DEF Counted, TypeOK
<1>8. Response'
    BY DEF Response
<1>9. Caused'
    BY <1>2, <1>3, <1>w DEF Caused, Anchored, Failed
<1>10. Anchoring' /\ AnchoredOnce' /\ BatchBeforeAnchor'
    BY <1>2, <1>w DEF Anchoring, Anchored, AnchoredOnce, BatchBeforeAnchor
<1> QED BY <1>4, <1>5, <1>6, <1>7, <1>8, <1>9, <1>10

-----------------------------------------------------------------------------
(* What Handle and Trip do to the scope, with the record counted by Log.      *)

\* Log's part: the request's code calls, and the call is counted.
Called(p) ==
    /\ at[p] = "free"
    /\ p = "main" => phase = "serve"
    /\ records < MaxRecords /\ records' = records + 1
    /\ UNCHANGED <<mainVars, responseVars, backed, out>>

\* A record that is buffered, dropped, or refused by the budget.
LEMMA SilentStep ==
    ASSUME IInv, NEW p \in Proc, Called(p),
           UNCHANGED <<emitVars, tripped, closed, spent, historyVars>>,
           held' = held \/ (held' = held + 1)
    PROVE  IInv'
<1> USE RequestAssumption
       DEF IInv, Called, mainVars, responseVars, emitVars, historyVars
<1>w. \A l : Wrote(l)' <=> Wrote(l)
    BY SameOut
<1>1. /\ held \in Nat /\ batch \in Nat /\ discarded \in Nat /\ spent \in Nat
      /\ records \in Nat /\ MaxRecords \in Nat
      /\ held <= records /\ batch <= records /\ discarded <= records
      /\ spent <= records + 1
      /\ phase \in {"trip", "log"} => spent <= records
      /\ ~tripped => spent = 0
    BY DEF TypeOK, Counted
<1>2. Counted'
    BY <1>1 DEF Counted
<1>3. held' \in 0 .. MaxRecords /\ records' \in 0 .. MaxRecords
    BY <1>1
<1>4. TypeOK'
    BY <1>3 DEF TypeOK
<1>5. Emitting' /\ Unwinding' /\ Response'
    BY DEF Emitting, Unwinding, Failed, Response
<1>6. Caused'
    BY <1>w DEF Caused, Anchored, Failed
<1>7. Anchoring' /\ AnchoredOnce' /\ BatchBeforeAnchor'
    BY <1>w DEF Anchoring, Anchored, AnchoredOnce, BatchBeforeAnchor
<1> QED BY <1>2, <1>4, <1>5, <1>6, <1>7

\* A record that goes to the output at once, charged or not.
LEMMA WritingStep ==
    ASSUME IInv, NEW p \in Proc, Called(p),
           NEW l \in {"debug", "info", "error"}, Owes(p, FALSE, l),
           UNCHANGED <<tripped, closed, held, historyVars>>,
           spent' = spent \/ (tripped /\ spent' = spent + 1),
           l = "debug" => tripped
    PROVE  IInv'
<1> USE RequestAssumption
       DEF IInv, Called, mainVars, responseVars, historyVars
<1>w. \A x : Wrote(x)' <=> Wrote(x)
    BY SameOut
<1>0. /\ at' = [at EXCEPT ![p] = "emit"] /\ line' = [line EXCEPT ![p] = l]
      /\ at \in [Proc -> {"free", "replay", "emit"}]
      /\ line \in [Proc -> Line \cup {"none"}]
    BY DEF Owes, TypeOK
<1>1. /\ at'[p] = "emit" /\ line'[p] = l /\ line[p] = "none"
      /\ \A q \in Proc : q # p => at'[q] = at[q] /\ line'[q] = line[q]
      /\ at' \in [Proc -> {"free", "replay", "emit"}]
      /\ line' \in [Proc -> Line \cup {"none"}]
    BY <1>0 DEF Line, Emitting
<1>2. "main" \in Proc
    BY DEF Proc
<1>3. /\ held \in Nat /\ batch \in Nat /\ discarded \in Nat /\ spent \in Nat
      /\ records \in Nat /\ MaxRecords \in Nat /\ Layers \in Nat /\ Layers >= 1
      /\ held <= records /\ batch <= records /\ discarded <= records
      /\ spent <= records + 1
      /\ phase \in {"trip", "log"} => spent <= records
      /\ ~tripped => spent = 0
    BY DEF TypeOK, Counted
<1>4. Counted'
    BY <1>3 DEF Counted
<1>5. spent' \in 0 .. MaxRecords + Layers /\ records' \in 0 .. MaxRecords
    BY <1>3
<1>6. TypeOK'
    BY <1>1, <1>5 DEF TypeOK
<1>7. Emitting'
    BY <1>1 DEF Emitting
<1>8. Unwinding' /\ Response'
    BY DEF Unwinding, Failed, Response
<1>9. Anchored' <=> Anchored
    BY <1>1, <1>2, <1>w DEF Anchored
<1>10. Caused'
    <2>1. cause = "error" => Wrote("error")' \/ \E q \in Proc : line'[q] = "error"
        BY <1>1, <1>w DEF Caused
    <2>2. Limit > 0 /\ spent >= Limit => Limit > 0 /\ spent' >= Limit
        BY <1>3
    <2> QED BY <1>9, <1>w, <2>1, <2>2 DEF Caused, Failed
<1>11. Anchoring'
    <2>1. phase \in {"serve", "trip", "log"} => ~Anchored
        BY DEF Anchoring
    <2>2. line'["main"] = "anchor" => ~Wrote("anchor")
        BY <1>1, <1>2 DEF Anchoring
    <2>3. at["main"] = "replay" => at'["main"] = "replay" /\ line'["main"] = line["main"]
        BY <1>1, <1>2
    <2> QED BY <1>9, <1>w, <2>1, <2>2, <2>3 DEF Anchoring
<1>12. AnchoredOnce' /\ BatchBeforeAnchor'
    BY DEF AnchoredOnce, BatchBeforeAnchor
<1> QED BY <1>4, <1>6, <1>7, <1>8, <1>10, <1>11, <1>12

\* A record, or a bare Trip, that trips the scope.
LEMMA TrippingStep ==
    ASSUME IInv, NEW p \in Proc, Called(p), ~tripped, ~closed,
           NEW c \in {"error", "bare"}, NEW l \in {"error", "none"},
           c = "error" => l = "error",
           Owes(p, TRUE, l), TripBy(c)
    PROVE  IInv'
<1> USE RequestAssumption
       DEF IInv, Called, mainVars, responseVars
<1>w. \A x : Wrote(x)' <=> Wrote(x)
    BY SameOut
<1>0. /\ at' = [at EXCEPT ![p] = IF held > 0 THEN "replay"
                                 ELSE IF l = "none" THEN "free" ELSE "emit"]
      /\ line' = [line EXCEPT ![p] = l]
      /\ tripped' = TRUE /\ cause' = c /\ batch' = held /\ held' = 0
      /\ UNCHANGED <<closed, spent, discarded>>
      /\ at \in [Proc -> {"free", "replay", "emit"}]
      /\ line \in [Proc -> Line \cup {"none"}]
    BY DEF Owes, TypeOK, TripBy
<1>1. /\ at'[p] = (IF held > 0 THEN "replay" ELSE IF l = "none" THEN "free" ELSE "emit")
      /\ line'[p] = l /\ line[p] = "none"
      /\ \A q \in Proc : q # p => at'[q] = at[q] /\ line'[q] = line[q]
      /\ at' \in [Proc -> {"free", "replay", "emit"}]
      /\ line' \in [Proc -> Line \cup {"none"}]
    BY <1>0 DEF Line, Emitting
<1>2. "main" \in Proc
    BY DEF Proc
<1>3. /\ held \in Nat /\ discarded \in Nat /\ spent \in Nat
      /\ records \in Nat /\ MaxRecords \in Nat
      /\ held <= records /\ discarded <= records /\ spent = 0
    BY DEF TypeOK, Counted
<1>4. Counted'
    BY <1>0, <1>3 DEF Counted
<1>5. held' \in 0 .. MaxRecords /\ batch' \in 0 .. MaxRecords /\ records' \in 0 .. MaxRecords
    BY <1>0, <1>3
<1>6. TypeOK'
    BY <1>0, <1>1, <1>5 DEF TypeOK
<1>7. Emitting'
    BY <1>0, <1>1 DEF Emitting
<1>8. Unwinding' /\ Response'
    BY <1>0 DEF Unwinding, Failed, Response
<1>9. ~Anchored /\ ~Anchored'
    BY <1>1, <1>2, <1>w DEF Anchoring, Anchored
<1>10. Caused'
    <2>1. cause' = "error" => \E q \in Proc : line'[q] = "error"
        BY <1>0, <1>1
    <2>2. discarded = 0
        BY <1>3 DEF Caused
    <2> QED BY <1>0, <1>9, <1>w, <2>1, <2>2 DEF Caused, Failed
<1>11. Anchoring'
    <2>1. line'["main"] # "anchor"
        BY <1>9 DEF Anchored
    <2> QED BY <1>0, <1>9, <2>1 DEF Anchoring
<1>12. AnchoredOnce' /\ BatchBeforeAnchor'
    BY <1>0 DEF AnchoredOnce, BatchBeforeAnchor
<1> QED BY <1>4, <1>6, <1>7, <1>8, <1>10, <1>11, <1>12

\* The request's own code logs a record or trips the scope.
LEMMA LogStep ==
    ASSUME IInv, NEW p \in Proc, Log(p)
    PROVE  IInv'
<1>1. Called(p)
    BY DEF Log, Called
<1>2. spent \in Nat /\ held \in Nat
    BY DEF IInv, TypeOK
<1>3. ASSUME NEW l \in {"debug", "info", "error"}, tripped, Charge(p, l)
      PROVE  IInv'
    <2>1. CASE Limit > 0 /\ spent >= Limit
        BY <1>1, <1>3, <2>1, SilentStep DEF Charge
    <2>2. CASE ~(Limit > 0 /\ spent >= Limit)
        BY <1>1, <1>3, <2>2, WritingStep DEF Charge
    <2> QED BY <2>1, <2>2
<1>4. ASSUME HandleDebug(p) PROVE IInv'
    <2>1. CASE closed /\ UNCHANGED <<emitVars, scopeVars, historyVars>>
        BY <1>1, <2>1, SilentStep DEF scopeVars
    <2>2. CASE /\ held' = held + 1
               /\ UNCHANGED <<emitVars, tripped, closed, spent, historyVars>>
        BY <1>1, <2>2, SilentStep
    <2> QED BY <1>3, <1>4, <2>1, <2>2 DEF HandleDebug
<1>5. ASSUME NEW l \in {"info", "error"}, Free(p, l) PROVE IInv'
    BY <1>1, <1>5, WritingStep DEF Free, scopeVars
<1>6. ASSUME HandleInfo(p) PROVE IInv'
    BY <1>3, <1>5, <1>6 DEF HandleInfo
<1>7. ASSUME HandleError(p, "error") PROVE IInv'
    <2>1. CASE ~closed /\ ~tripped /\ Owes(p, TRUE, "error") /\ TripBy("error")
        BY <1>1, <2>1, TrippingStep
    <2> QED BY <1>3, <1>5, <1>7, <2>1 DEF HandleError
<1>8. ASSUME BareTrip(p, "bare") PROVE IInv'
    <2>1. CASE closed \/ tripped
        BY <1>1, <1>8, <2>1, SilentStep DEF BareTrip, scopeVars
    <2>2. CASE ~(closed \/ tripped)
        BY <1>1, <1>8, <2>2, TrippingStep DEF BareTrip
    <2> QED BY <2>1, <2>2
<1> QED BY <1>4, <1>6, <1>7, <1>8 DEF Log

-----------------------------------------------------------------------------
(* The middleware's own trip and anchor. *)

\* A layer's own trip: it trips the scope with nothing spent, or finds it tripped.
LEMMA AnchorTripStep ==
    ASSUME IInv, AnchorTrip
    PROVE  IInv'
<1> USE RequestAssumption DEF IInv, mainVars, responseVars
<1>1. /\ phase = "trip" /\ at["main"] = "free" /\ phase' = "log"
      /\ UNCHANGED <<responseVars, backed, out, records, layer, panicked>>
      /\ BareTrip("main", "anchor")
    BY DEF AnchorTrip, Advance
<1>w. \A x : Wrote(x)' <=> Wrote(x)
    BY <1>1, SameOut
<1>2. "main" \in Proc /\ ~closed /\ Failed /\ Failed' /\ ~Anchored
      /\ line["main"] = "none"
    BY <1>1 DEF Proc, Unwinding, Failed, Anchoring, Emitting
<1>3. CASE tripped
    <2>1. UNCHANGED <<emitVars, scopeVars, historyVars>>
        BY <1>1, <1>3 DEF BareTrip
    <2> USE <1>1, <2>1 DEF emitVars, scopeVars, historyVars
    <2>2. TypeOK'
        BY DEF TypeOK
    <2>3. Emitting' /\ Response'
        BY DEF Emitting, Response
    <2>4. Unwinding'
        BY <1>2, <1>3 DEF Unwinding
    <2>5. Counted'
        BY DEF Counted
    <2>6. Caused'
        BY <1>2, <1>3, <1>w DEF Caused, Anchored
    <2>7. Anchoring' /\ AnchoredOnce' /\ BatchBeforeAnchor'
        BY <1>2, <1>w DEF Anchoring, Anchored, AnchoredOnce, BatchBeforeAnchor
    <2> QED BY <2>2, <2>3, <2>4, <2>5, <2>6, <2>7
<1>4. CASE ~tripped
    <2>1. /\ at' = [at EXCEPT !["main"] = IF held > 0 THEN "replay" ELSE "free"]
          /\ line' = [line EXCEPT !["main"] = "none"]
          /\ tripped' = TRUE /\ cause' = "anchor" /\ batch' = held /\ held' = 0
          /\ UNCHANGED <<closed, spent, discarded>>
          /\ at \in [Proc -> {"free", "replay", "emit"}]
          /\ line \in [Proc -> Line \cup {"none"}]
        BY <1>1, <1>2, <1>4 DEF BareTrip, Owes, TripBy, TypeOK
    <2>2. /\ at'["main"] = (IF held > 0 THEN "replay" ELSE "free") /\ line'["main"] = "none"
          /\ \A q \in Proc : q # "main" => at'[q] = at[q] /\ line'[q] = line[q]
          /\ at' \in [Proc -> {"free", "replay", "emit"}]
          /\ line' \in [Proc -> Line \cup {"none"}]
        BY <1>2, <2>1
    <2> USE <1>1, <2>1
    <2>3. /\ held \in Nat /\ discarded \in Nat /\ spent = 0 /\ discarded = 0
          /\ records \in Nat /\ MaxRecords \in Nat /\ held <= records
          /\ records <= MaxRecords
        BY <1>2, <1>4 DEF TypeOK, Counted, Caused
    <2>4. Counted'
        BY <2>3 DEF Counted
    <2>5. held' \in 0 .. MaxRecords /\ batch' \in 0 .. MaxRecords
        BY <2>3
    <2>6. TypeOK'
        BY <2>2, <2>5 DEF TypeOK
    <2>7. Emitting'
        BY <2>2 DEF Emitting
    <2>8. Unwinding' /\ Response'
        BY <1>2 DEF Unwinding, Response
    <2>9. ~Anchored'
        BY <1>2, <1>w, <2>2 DEF Anchored
    <2>10. Caused'
        BY <1>2, <1>4, <1>w, <2>3 DEF Caused
    <2>11. Anchoring'
        BY <2>2, <2>9 DEF Anchoring
    <2>12. AnchoredOnce' /\ BatchBeforeAnchor'
        BY <1>2, <1>w DEF AnchoredOnce, BatchBeforeAnchor, Anchored, Wrote
    <2> QED BY <2>4, <2>6, <2>7, <2>8, <2>10, <2>11, <2>12
<1> QED BY <1>3, <1>4

\* By the time the anchor is logged the scope has tripped, so a dllog logger
\* charges it and any other writes it.
LEMMA AnchorLogStep ==
    ASSUME IInv, AnchorLog
    PROVE  IInv'
<1> USE RequestAssumption DEF IInv, responseVars, historyVars
<1>1. /\ phase = "log" /\ at["main"] = "free" /\ phase' = "done"
      /\ UNCHANGED <<responseVars, backed, out, records, layer, panicked>>
      /\ tripped /\ ~closed /\ Failed
    BY DEF AnchorLog, Advance, Unwinding
<1>w. \A x : Wrote(x)' <=> Wrote(x)
    BY <1>1, SameOut
<1>2. "main" \in Proc /\ ~Anchored /\ line["main"] = "none" /\ Failed'
    BY <1>1 DEF Proc, Anchoring, Emitting, Failed
<1>3. /\ records \in Nat /\ spent \in Nat /\ Limit \in Nat /\ MaxRecords \in Nat
      /\ Layers \in Nat /\ Layers >= 1 /\ spent <= records /\ records <= MaxRecords
    BY <1>1 DEF TypeOK, Counted
<1>4. \/ Charge("main", "anchor")
      \/ Free("main", "anchor")
    BY <1>1 DEF AnchorLog, HandleError
<1>5. CASE Limit > 0 /\ spent >= Limit /\ UNCHANGED <<emitVars, scopeVars, historyVars>>
    <2> USE <1>1, <1>5 DEF emitVars, scopeVars
    <2>1. TypeOK'
        BY DEF TypeOK
    <2>2. Emitting' /\ Response' /\ Unwinding'
        BY DEF Emitting, Response, Unwinding
    <2>3. Counted'
        BY <1>3 DEF Counted
    <2>4. Caused'
        BY <1>2, <1>w DEF Caused, Anchored
    <2>5. Anchoring' /\ AnchoredOnce' /\ BatchBeforeAnchor'
        BY <1>2, <1>w DEF Anchoring, Anchored, AnchoredOnce, BatchBeforeAnchor
    <2> QED BY <2>1, <2>2, <2>3, <2>4, <2>5
<1>6. CASE /\ Owes("main", FALSE, "anchor")
           /\ spent' = spent \/ spent' = spent + 1
           /\ UNCHANGED <<tripped, closed, held, historyVars>>
    <2>1. /\ at' = [at EXCEPT !["main"] = "emit"] /\ line' = [line EXCEPT !["main"] = "anchor"]
          /\ at \in [Proc -> {"free", "replay", "emit"}]
          /\ line \in [Proc -> Line \cup {"none"}]
        BY <1>6 DEF Owes, TypeOK
    <2>2. /\ at'["main"] = "emit" /\ line'["main"] = "anchor"
          /\ \A q \in Proc : q # "main" => at'[q] = at[q] /\ line'[q] = line[q]
          /\ at' \in [Proc -> {"free", "replay", "emit"}]
          /\ line' \in [Proc -> Line \cup {"none"}]
        BY <1>2, <2>1 DEF Line
    <2> USE <1>1, <1>6
    <2>3. spent' \in 0 .. MaxRecords + Layers /\ spent' <= records + 1
        BY <1>3
    <2>4. TypeOK'
        BY <2>2, <2>3 DEF TypeOK
    <2>5. Counted'
        BY <2>3 DEF Counted
    <2>6. Emitting'
        BY <2>2 DEF Emitting
    <2>7. Response' /\ Unwinding'
        BY DEF Response, Unwinding
    <2>8. Anchored'
        BY <2>2 DEF Anchored
    <2>9. Caused'
        <3>1. cause = "error" => Wrote("error")' \/ \E q \in Proc : line'[q] = "error"
            BY <1>2, <1>w, <2>2 DEF Caused
        <3> QED BY <1>2, <1>w, <2>8, <3>1 DEF Caused
    <2>10. Anchoring'
        <3>1. cause = "anchor" /\ batch > 0 => Wrote("batch")'
            BY <1>w DEF Anchoring
        <3> QED BY <1>2, <1>w, <2>8, <3>1 DEF Anchoring, Anchored
    <2>11. AnchoredOnce' /\ BatchBeforeAnchor'
        BY DEF AnchoredOnce, BatchBeforeAnchor
    <2> QED BY <2>4, <2>5, <2>6, <2>7, <2>9, <2>10, <2>11
<1> QED BY <1>4, <1>5, <1>6 DEF Charge, Free, emitVars, scopeVars

-----------------------------------------------------------------------------
(* Output. *)

\* One more item of output: what was written stays where it is.
LEMMA OutGrows ==
    ASSUME TypeOK, NEW x \in Line \cup {"batch"}, out' = Append(out, x)
    PROVE  /\ out' \in Seq(Line \cup {"batch"})
           /\ Len(out) \in Nat /\ Len(out') = Len(out) + 1
           /\ DOMAIN out = 1 .. Len(out) /\ DOMAIN out' = 1 .. Len(out) + 1
           /\ \A i \in 1 .. Len(out) : out'[i] = out[i]
           /\ out'[Len(out) + 1] = x
           /\ \A l : Wrote(l)' <=> Wrote(l) \/ l = x
<1>1. out \in Seq(Line \cup {"batch"})
    BY DEF TypeOK
<1>2. /\ out' \in Seq(Line \cup {"batch"}) /\ Len(out') = Len(out) + 1
      /\ \A i \in 1 .. Len(out) : out'[i] = out[i]
      /\ out'[Len(out) + 1] = x
    BY <1>1, AppendProperties
<1>3. Len(out) \in Nat /\ DOMAIN out = 1 .. Len(out) /\ DOMAIN out' = 1 .. Len(out) + 1
    BY <1>1, <1>2, LenProperties
<1>4. \A l : Wrote(l)' <=> Wrote(l) \/ l = x
    BY <1>2, <1>3 DEF Wrote
<1> QED BY <1>2, <1>3, <1>4

\* The batch goes out, and main's own batch before main moves on.
LEMMA ReplayStep ==
    ASSUME IInv, NEW p \in Proc, Replay(p)
    PROVE  IInv'
<1> USE RequestAssumption DEF IInv, scopeVars, mainVars, responseVars, historyVars
<1>1. /\ at[p] = "replay" /\ out' = Append(out, "batch") /\ tripped
      /\ at' = [at EXCEPT ![p] = IF line[p] = "none" THEN "free" ELSE "emit"]
      /\ UNCHANGED <<line, scopeVars, mainVars, responseVars, historyVars, backed, records>>
      /\ at \in [Proc -> {"free", "replay", "emit"}]
    BY DEF Replay, Emitting, TypeOK
<1>2. /\ at'[p] = IF line[p] = "none" THEN "free" ELSE "emit"
      /\ \A q \in Proc : q # p => at'[q] = at[q]
      /\ at' \in [Proc -> {"free", "replay", "emit"}]
    BY <1>1
<1>o. /\ out' \in Seq(Line \cup {"batch"})
      /\ Len(out) \in Nat /\ Len(out') = Len(out) + 1
      /\ DOMAIN out = 1 .. Len(out) /\ DOMAIN out' = 1 .. Len(out) + 1
      /\ \A i \in 1 .. Len(out) : out'[i] = out[i]
      /\ out'[Len(out) + 1] = "batch"
      /\ \A l : Wrote(l)' <=> Wrote(l) \/ l = "batch"
    BY <1>1, OutGrows
<1> USE <1>1
<1>3. TypeOK'
    BY <1>2, <1>o DEF TypeOK
<1>4. Emitting'
    BY <1>2 DEF Emitting
<1>5. Unwinding' /\ Counted' /\ Response'
    BY DEF Unwinding, Failed, Counted, Response
<1>6. Anchored' <=> Anchored
    BY <1>o DEF Anchored
<1>7. Caused'
    BY <1>6, <1>o DEF Caused, Failed
<1>8. Anchoring'
    BY <1>6, <1>o DEF Anchoring
<1>9. AnchoredOnce'
    BY <1>o DEF AnchoredOnce
<1>10. BatchBeforeAnchor'
    <2> SUFFICES ASSUME NEW i \in DOMAIN out', out'[i] = "anchor",
                        cause = "anchor", batch > 0
                 PROVE  \E j \in 1 .. i - 1 : out'[j] = "batch"
        BY DEF BatchBeforeAnchor
    <2>1. i \in DOMAIN out /\ out[i] = "anchor"
        BY <1>o
    <2>2. PICK j \in 1 .. i - 1 : out[j] = "batch"
        BY <2>1 DEF BatchBeforeAnchor
    <2> QED BY <1>o, <2>1, <2>2
<1> QED BY <1>3, <1>4, <1>5, <1>7, <1>8, <1>9, <1>10

\* A line goes out.  When it is the anchor, it is the only one, and the batch of the
\* middleware's own trip has been written.
LEMMA EmitStep ==
    ASSUME IInv, NEW p \in Proc, Emit(p)
    PROVE  IInv'
<1> USE RequestAssumption DEF IInv, scopeVars, mainVars, responseVars, historyVars
<1>1. /\ at[p] = "emit" /\ line[p] # "none" /\ out' = Append(out, line[p])
      /\ at' = [at EXCEPT ![p] = "free"]
      /\ line' = [line EXCEPT ![p] = "none"]
      /\ UNCHANGED <<scopeVars, mainVars, responseVars, historyVars, backed, records>>
      /\ at \in [Proc -> {"free", "replay", "emit"}]
      /\ line \in [Proc -> Line \cup {"none"}]
    BY DEF Emit, Emitting, TypeOK
<1>2. /\ at'[p] = "free" /\ line'[p] = "none"
      /\ \A q \in Proc : q # p => at'[q] = at[q] /\ line'[q] = line[q]
      /\ at' \in [Proc -> {"free", "replay", "emit"}]
      /\ line' \in [Proc -> Line \cup {"none"}]
    BY <1>1
<1>3. line[p] \in Line /\ line[p] # "batch" /\ "main" \in Proc
    BY <1>1 DEF Line, Proc
<1>o. /\ out' \in Seq(Line \cup {"batch"})
      /\ Len(out) \in Nat /\ Len(out') = Len(out) + 1
      /\ DOMAIN out = 1 .. Len(out) /\ DOMAIN out' = 1 .. Len(out) + 1
      /\ \A i \in 1 .. Len(out) : out'[i] = out[i]
      /\ out'[Len(out) + 1] = line[p]
      /\ \A l : Wrote(l)' <=> Wrote(l) \/ l = line[p]
    BY <1>1, <1>3, OutGrows
<1>4. TypeOK'
    BY <1>1, <1>2, <1>o DEF TypeOK
<1>5. Emitting'
    BY <1>1, <1>2 DEF Emitting
<1>6. Unwinding' /\ Counted' /\ Response'
    BY <1>1 DEF Unwinding, Failed, Counted, Response
<1>7. line[p] = "anchor" => p = "main"
    BY DEF Emitting
<1>8. Anchored' <=> Anchored
    BY <1>2, <1>3, <1>7, <1>o DEF Anchored
<1>9. Caused'
    <2>1. line[p] = "debug" => tripped
        BY DEF Emitting
    <2>2. cause = "error" => Wrote("error")' \/ \E q \in Proc : line'[q] = "error"
        BY <1>2, <1>o DEF Caused
    <2> QED BY <1>1, <1>3, <1>8, <1>o, <2>1, <2>2 DEF Caused, Failed
<1>10. Anchoring'
    <2>1. line'["main"] = "anchor" => ~Wrote("anchor")'
        <3>1. CASE p = "main"
            BY <1>2, <3>1
        <3>2. CASE p # "main"
            <4>1. line[p] # "anchor" /\ line'["main"] = line["main"]
                BY <1>2, <1>3, <1>7, <3>2
            <4> QED BY <1>o, <4>1 DEF Anchoring
        <3> QED BY <3>1, <3>2
    <2>2. at["main"] = "replay" => at'["main"] = "replay" /\ line'["main"] = line["main"]
        BY <1>1, <1>2, <1>3
    <2> QED BY <1>1, <1>8, <1>o, <2>1, <2>2 DEF Anchoring
<1>11. AnchoredOnce'
    <2>1. line[p] = "anchor" => ~Wrote("anchor")
        BY <1>7 DEF Anchoring
    <2> QED BY <1>o, <2>1 DEF AnchoredOnce, Wrote
<1>12. BatchBeforeAnchor'
    <2> SUFFICES ASSUME NEW i \in DOMAIN out', out'[i] = "anchor",
                        cause = "anchor", batch > 0
                 PROVE  \E j \in 1 .. i - 1 : out'[j] = "batch"
        BY <1>1 DEF BatchBeforeAnchor
    <2>1. CASE i \in DOMAIN out
        <3>1. PICK j \in 1 .. i - 1 : out[j] = "batch"
            BY <1>o, <2>1 DEF BatchBeforeAnchor
        <3> QED BY <1>o, <2>1, <3>1
    <2>2. CASE i = Len(out) + 1
        <3>1. p = "main" /\ at["main"] = "emit"
            BY <1>1, <1>7, <1>o, <2>2
        <3>2. Wrote("batch")
            BY <3>1 DEF Anchoring
        <3>3. PICK j \in DOMAIN out : out[j] = "batch"
            BY <3>2 DEF Wrote
        <3> QED BY <1>o, <2>2, <3>3
    <2> QED BY <1>o, <2>1, <2>2
<1> QED BY <1>4, <1>5, <1>6, <1>9, <1>10, <1>11, <1>12

-----------------------------------------------------------------------------
\* A request starts with an open scope, a fresh writer and nothing written.
LEMMA InitIInv == Init => IInv
<1> SUFFICES ASSUME Init PROVE IInv
    OBVIOUS
<1> USE RequestAssumption DEF Init
<1>1. \A l : ~Wrote(l)
    BY DEF Wrote
<1>2. "main" \in Proc /\ Layers > 0 /\ <<>> \in Seq(Line \cup {"batch"})
    BY DEF Proc
<1>3. TypeOK
    <2>1. at \in [Proc -> {"free", "replay", "emit"}] /\ line \in [Proc -> Line \cup {"none"}]
        BY DEF Line
    <2>2. 0 \in 0 .. MaxRecords /\ 0 \in 0 .. MaxRecords + Layers /\ Layers \in 0 .. Layers
        OBVIOUS
    <2>3. {tripped, closed, panicked, backed, informed} \subseteq BOOLEAN
        OBVIOUS
    <2> QED BY <1>2, <2>1, <2>2, <2>3 DEF TypeOK
<1>4. Emitting /\ Unwinding /\ Counted /\ Response
    BY <1>2 DEF Emitting, Unwinding, Counted, Response
<1>5. Caused /\ Anchoring /\ AnchoredOnce /\ BatchBeforeAnchor
    BY <1>1, <1>2 DEF Caused, Anchoring, Anchored, AnchoredOnce, BatchBeforeAnchor
<1> QED BY <1>3, <1>4, <1>5 DEF IInv

\* Every step of a request keeps the invariant.
LEMMA NextIInv == IInv /\ [Next]_vars => IInv'
<1> SUFFICES ASSUME IInv, [Next]_vars PROVE IInv'
    OBVIOUS
<1>1. CASE UNCHANGED vars
    <2>1. \A l : Wrote(l)' <=> Wrote(l)
        BY <1>1 DEF vars, Wrote
    <2> QED BY <1>1, <2>1
            DEF vars, scopeVars, emitVars, mainVars, responseVars, historyVars, IInv,
                TypeOK, Emitting, Unwinding, Failed, Counted, Response, Caused,
                Anchoring, Anchored, AnchoredOnce, BatchBeforeAnchor
<1>2. ASSUME NEW p \in Proc, Log(p) \/ Replay(p) \/ Emit(p) PROVE IInv'
    BY <1>2, LogStep, ReplayStep, EmitStep
<1>3. CASE Respond
    BY <1>3, RespondStep
<1>4. CASE Unwind
    BY <1>4, AlongStep, AnchorTripStep, AnchorLogStep, DoneStep DEF Unwind
<1> QED BY <1>1, <1>2, <1>3, <1>4 DEF Next

\* The invariant holds throughout every request.
LEMMA Invariance == Spec => []IInv
BY InitIInv, NextIInv, PTL DEF Spec

-----------------------------------------------------------------------------
\* Type correctness, with what the scope was charged bounded by the calls that
\* were made.
THEOREM MiddlewareTypeCorrect == Spec => []TypeOK
<1>1. IInv => TypeOK
    BY DEF IInv
<1> QED BY <1>1, Invariance, PTL

\* A request that panicked or was answered with a 5xx has tripped its scope before
\* the release, and nothing it buffered was thrown away (middleware.go:108-109).
THEOREM FailuresAreReplayed == Spec => []FailureIsReplayed
<1>1. IInv => FailureIsReplayed
    <2> SUFFICES ASSUME IInv, phase = "over", panicked \/ (sent >= 500 /\ ~informed)
                 PROVE  tripped /\ discarded = 0
        BY DEF FailureIsReplayed
    <2>1. /\ sent \in {0, 200, 404, 500} /\ recorded \in {0, 103, 200, 404, 500}
          /\ discarded \in Nat
        BY RequestAssumption DEF IInv, TypeOK, Status
    <2>2. Failed
        BY <2>1 DEF IInv, Response, Failed
    <2>3. tripped
        BY <2>2 DEF IInv, Unwinding
    <2> QED BY <2>1, <2>3 DEF IInv, Caused
<1> QED BY <1>1, Invariance, PTL

\* A request in which nothing failed writes nothing below the level and no anchor
\* (middleware.go:108).
THEOREM CleanRequestsAreSilent == Spec => []CleanIsSilent
<1>1. IInv => CleanIsSilent
    BY DEF IInv, CleanIsSilent, Caused, Anchored, Failed
<1> QED BY <1>1, Invariance, PTL

\* However many layers a panic or a failing status passes through, one anchor record
\* is written at most (middleware.go:119, 161-176).
THEOREM OneAnchor == Spec => []AnchoredOnce
<1>1. IInv => AnchoredOnce
    BY DEF IInv
<1> QED BY <1>1, Invariance, PTL

\* A request that tripped has an error line in the end, unless a bare Trip tripped it
\* or the budget was spent before the anchor (middleware.go:119-122).
THEOREM HeadlessOnlyIfExcused == Spec => []HeadlessOnlyIfBareOrSpent
<1>1. IInv => HeadlessOnlyIfBareOrSpent
    <2> SUFFICES ASSUME IInv, Settled, tripped, ~HasErrorLine
                 PROVE  cause = "bare" \/ (Limit > 0 /\ spent >= Limit)
        BY DEF HeadlessOnlyIfBareOrSpent
    <2>1. \A p \in Proc : line[p] = "none"
        BY DEF IInv, Settled, Emitting
    <2>2. line["main"] = "none"
        BY <2>1 DEF Proc
    <2>3. ~Wrote("error") /\ ~Anchored /\ phase = "over"
        BY <2>2 DEF HasErrorLine, Anchored, Settled
    <2>4. cause \in {"bare", "error", "anchor"}
        BY DEF IInv, TypeOK, Caused
    <2> QED BY <2>1, <2>3, <2>4 DEF IInv, Caused
<1> QED BY <1>1, Invariance, PTL

\* When the middleware trips the scope, the buffered records land before its anchor,
\* through whichever logger it goes (middleware.go:168-170).
THEOREM BatchLandsBeforeAnchor == Spec => []BatchBeforeAnchor
<1>1. IInv => BatchBeforeAnchor
    BY DEF IInv
<1> QED BY <1>1, Invariance, PTL
=============================================================================
