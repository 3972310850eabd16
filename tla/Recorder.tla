------------------------------ MODULE Recorder ------------------------------
(* What a scope promises to the adapter that logs into it, with no ring, no   *)
(* indices and no pool: it remembers everything it was asked to buffer, gives *)
(* the newest Capacity entries back once, in order, with the number of older  *)
(* ones it lost, bounds what it lets through after that, and after its        *)
(* release keeps nothing and lets through only what it would not have         *)
(* buffered.  Module Scope implements it (Scope!ImplementsRecorder).          *)
EXTENDS Integers, Sequences

CONSTANTS ScopeId,   \* the scopes a program may open
          Entry,     \* what an adapter buffers
          Capacity,  \* the entries a scope can give back, at least 1
          Limit      \* the entries let through after the trip, 0 = unlimited

VARIABLES opened,   \* the scopes that exist
          log,      \* per scope, every entry it accepted for buffering
          batch,    \* per scope, what its trip returned
          lost,     \* per scope, the evictions its trip reported
          granted,  \* per scope, the entries let through after the trip
          tripped,
          closed,
          reply     \* the answer of the latest call

vars == <<opened, log, batch, lost, granted, tripped, closed, reply>>

Kept(n) == IF n > Capacity THEN Capacity ELSE n

\* The newest Capacity entries of a log, oldest first.
Newest(entries) ==
    [i \in 1 .. Kept(Len(entries)) |->
        entries[Len(entries) - Kept(Len(entries)) + i]]

Spent(s) == Limit > 0 /\ granted[s] >= Limit

Answer(s, call, action) == [scope |-> s, call |-> call, action |-> action]

Init ==
    /\ opened = {}
    /\ log = [s \in ScopeId |-> <<>>]
    /\ batch = [s \in ScopeId |-> <<>>]
    /\ lost = [s \in ScopeId |-> 0]
    /\ granted = [s \in ScopeId |-> 0]
    /\ tripped = [s \in ScopeId |-> FALSE]
    /\ closed = [s \in ScopeId |-> FALSE]
    /\ reply \in [scope : ScopeId, call : {"Open"}, action : {"Done"}]

Open(s) ==
    /\ s \notin opened
    /\ opened' = opened \cup {s}
    /\ reply' = Answer(s, "Open", "Done")
    /\ UNCHANGED <<log, batch, lost, granted, tripped, closed>>

\* An entry the scope may withhold is accepted while it still records.
Buffer(s, e) ==
    /\ ~closed[s] /\ ~tripped[s]
    /\ log' = [log EXCEPT ![s] = Append(@, e)]
    /\ reply' = Answer(s, "Append", "Buffered")
    /\ UNCHANGED <<opened, batch, lost, granted, tripped, closed>>

\* After the trip any entry, withheld or not, draws on one budget.
Grant(s, call) ==
    /\ ~closed[s] /\ tripped[s] /\ ~Spent(s)
    /\ granted' = [granted EXCEPT ![s] = @ + 1]
    /\ reply' = Answer(s, call, "PassThrough")
    /\ UNCHANGED <<opened, log, batch, lost, tripped, closed>>

Suppress(s, call) ==
    /\ \/ ~closed[s] /\ tripped[s] /\ Spent(s)
       \/ closed[s] /\ call = "Append"
    /\ reply' = Answer(s, call, "Suppressed")
    /\ UNCHANGED <<opened, log, batch, lost, granted, tripped, closed>>

\* An entry that is never withheld passes freely outside the budget's reach.
PassFree(s) ==
    /\ closed[s] \/ ~tripped[s]
    /\ reply' = Answer(s, "PassThrough", "PassThrough")
    /\ UNCHANGED <<opened, log, batch, lost, granted, tripped, closed>>

Trip(s) ==
    /\ ~closed[s] /\ ~tripped[s]
    /\ tripped' = [tripped EXCEPT ![s] = TRUE]
    /\ batch' = [batch EXCEPT ![s] = Newest(log[s])]
    /\ lost' = [lost EXCEPT ![s] = Len(log[s]) - Kept(Len(log[s]))]
    /\ reply' = Answer(s, "Trip", "Tripped")
    /\ UNCHANGED <<opened, log, granted, closed>>

TripAgain(s) ==
    /\ closed[s] \/ tripped[s]
    /\ reply' = Answer(s, "Trip", "Refused")
    /\ UNCHANGED <<opened, log, batch, lost, granted, tripped, closed>>

Close(s) ==
    /\ closed' = [closed EXCEPT ![s] = TRUE]
    /\ reply' = Answer(s, "Close", "Done")
    /\ UNCHANGED <<opened, log, batch, lost, granted, tripped>>

Calls(s) ==
    \/ \E e \in Entry : Buffer(s, e)
    \/ \E call \in {"Append", "PassThrough"} : Grant(s, call) \/ Suppress(s, call)
    \/ PassFree(s)
    \/ Trip(s)
    \/ TripAgain(s)
    \/ Close(s)

Next ==
    \/ \E s \in ScopeId : Open(s)
    \/ \E s \in opened : Calls(s)

Spec == Init /\ [][Next]_vars
=============================================================================
