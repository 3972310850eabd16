--------------------------- MODULE AdaptersProofs ---------------------------
(* Theorems about Adapters, for any number of goroutines, scopes and records, *)
(* and any settings of the two adapters that resolve accepts.                 *)
EXTENDS Adapters, FiniteSetTheorems, SequenceTheorems, TLAPS

-----------------------------------------------------------------------------
(* The inductive invariant, part by part.                                     *)

\* The calls of Scope: the context a goroutine was given is not its own to end,
\* one call at most has opened a scope, and a scope not yet opened is untouched.
Calls ==
    /\ \A p \in Proc : stack[p][1].owns = FALSE
    /\ \A p, q \in Proc : \A i \in DOMAIN stack[p], j \in DOMAIN stack[q] :
           stack[p][i].owns /\ stack[q][j].owns /\ stack[p][i].ctx = stack[q][j].ctx
               => p = q /\ i = j
    /\ \A c \in ScopeId : c > opened => ~closed[c]

\* How a scope's flags, its ring and its log fit each other.
Rings ==
    \A c \in ScopeId :
        /\ pool[c] = "none" => log[c] = <<>> /\ ~tripped[c] /\ granted[c] = 0
        /\ preTripped[c] => log[c] = <<>>
        /\ preTripped[c] /\ pool[c] # "none" => tripped[c]

\* A log is the buffered records of its scope, in the order they were handled.
Logged ==
    \A c \in ScopeId :
        /\ \A r \in Nat : r \in Buffered(c) <=> \E i \in DOMAIN log[c] : log[c][i] = r
        /\ \A i, j \in DOMAIN log[c] : i < j => log[c][i] < log[c][j]

\* What was offered of the records when they were handled was due: they are at
\* their adapter's level or came after the trip of their live scope.
Due(r) ==
    ~AtLevel(records[r]) =>
        /\ records[r].when = "after"
        /\ \E c \in ScopeId : c = records[r].scope /\ HasTripped(c)
Passed == \A r \in passed : Due(r)

\* Only a tripped scope is flushed, by a goroutine that does nothing else, and what
\* follows the batch is the record that tripped it.
Flushing(p) ==
    emitting[p].scope # NoScope =>
        /\ admitted[p] = NoRecord /\ HasTripped(emitting[p].scope)
        /\ emitting[p].record # 0 =>
               /\ AtLevel(records[emitting[p].record])
               /\ records[emitting[p].record].when = "before"
Emitting == \A p \in Proc : Flushing(p)

\* What a flush has offered begins the batch, and is all of it once the flush is over.
Flushed ==
    \A c \in ScopeId :
        /\ ~HasTripped(c) => flushed[c] = <<>>
        /\ \A i \in DOMAIN flushed[c] :
               i \in DOMAIN Batch(c) /\ flushed[c][i] = Batch(c)[i]
        /\ FlushOver(c) => Len(flushed[c]) = Len(Batch(c))

\* The budget of the ring is charged for the records after the trip, and for no
\* other, up to its limit: the first of them are the ones that pass.
Charged ==
    \A c \in ScopeId :
        /\ pool[c] = "none" => After(c) = {}
        /\ pool[c] # "none" /\ Setting[pool[c]].limit > 0 =>
               /\ granted[c] = IF Cardinality(After(c)) <= Setting[pool[c]].limit
                               THEN Cardinality(After(c)) ELSE Setting[pool[c]].limit
               /\ \A r \in After(c) :
                      r \in passed <=> Cardinality({s \in After(c) : s <= r})
                                         <= Setting[pool[c]].limit

IInv ==
    /\ TypeOK /\ Calls /\ OneScopePerOperation
    /\ Rings /\ Logged /\ Passed /\ Emitting /\ Flushed /\ Charged

-----------------------------------------------------------------------------
(* Facts about the operators the steps are made of.                           *)

\* What resolve and the engine make sure of an adapter's settings.
LEMMA SettingFacts ==
    ASSUME NEW a \in Adapter
    PROVE  /\ Setting[a].level \in Int /\ Setting[a].trip \in Int
           /\ Setting[a].level <= Setting[a].trip
           /\ Setting[a].capacity \in Nat \ {0} /\ Setting[a].limit \in Nat
BY SettingsAssumption DEF Ordered

\* A goroutine's calls of Scope, the innermost last.
LEMMA StackFacts ==
    ASSUME TypeOK, NEW p \in Proc
    PROVE  /\ stack[p] \in Seq([ctx : 0 .. opened, owns : BOOLEAN])
           /\ Len(stack[p]) \in Nat \ {0} /\ DOMAIN stack[p] = 1 .. Len(stack[p])
           /\ \A i \in DOMAIN stack[p] :
                  stack[p][i] = [ctx |-> stack[p][i].ctx, owns |-> stack[p][i].owns]
                  /\ stack[p][i].ctx \in 0 .. opened /\ stack[p][i].owns \in BOOLEAN
           /\ Last(stack[p]) = stack[p][Len(stack[p])]
           /\ Context(p) = stack[p][Len(stack[p])].ctx
           /\ Context(p) \in 0 .. opened
<1> DEFINE Frame == [ctx : 0 .. opened, owns : BOOLEAN]
<1>1. stack[p] \in Seq(Frame) /\ stack[p] # <<>>
    BY DEF TypeOK
<1>2. \A f \in Frame : f = [ctx |-> f.ctx, owns |-> f.owns]
                       /\ f.ctx \in 0 .. opened /\ f.owns \in BOOLEAN
    OBVIOUS
<1> HIDE DEF Frame
<1>3. /\ Len(stack[p]) \in Nat \ {0} /\ DOMAIN stack[p] = 1 .. Len(stack[p])
      /\ \A i \in 1 .. Len(stack[p]) : stack[p][i] \in Frame
    BY <1>1, EmptySeq, LenProperties, ElementOfSeq
<1>4. Last(stack[p]) = stack[p][Len(stack[p])]
    BY DEF Last
<1>5. Len(stack[p]) \in 1 .. Len(stack[p])
    BY <1>3
<1>6. Context(p) = stack[p][Len(stack[p])].ctx
    BY <1>4 DEF Context
<1>7. Context(p) \in 0 .. opened
    BY <1>2, <1>3, <1>5, <1>6
<1> QED BY <1>1, <1>2, <1>3, <1>4, <1>6, <1>7 DEF Frame

\* A live context has been opened.
LEMMA LiveIsOpened ==
    ASSUME TypeOK, NEW c \in 0 .. opened, Live(c)
    PROVE  c \in ScopeId /\ ~closed[c] /\ c # NoScope
BY SettingsAssumption DEF TypeOK, Live, ScopeId, NoScope

\* What a goroutine may have been told to log.
LEMMA AdmittedFacts ==
    ASSUME TypeOK, NEW p \in Proc, admitted[p] # NoRecord
    PROVE  /\ admitted[p].via \in Adapter /\ admitted[p].level \in Level
           /\ admitted[p].scope \in 0 .. opened
           /\ opened \in Nat
BY SettingsAssumption DEF TypeOK

\* Scopes are only opened, never forgotten.
LEMMA TypesGrow ==
    ASSUME TypeOK, opened' \in Int, opened <= opened', opened' <= MaxScopes,
           closed' \in [ScopeId -> BOOLEAN],
           stack' \in [Proc -> Seq([ctx : 0 .. opened', owns : BOOLEAN])],
           \A p \in Proc : stack'[p] # <<>>,
           core' \in [Proc -> 0 .. opened'],
           admitted' \in [Proc -> [via : Adapter, level : Level, scope : 0 .. opened']
                                   \cup {NoRecord}],
           UNCHANGED <<preTripped, ringVars, emitting, records, outputVars>>
    PROVE  TypeOK'
<1>1. opened' \in 0 .. MaxScopes
    BY SettingsAssumption DEF TypeOK
<1> QED BY <1>1 DEF TypeOK, ringVars, outputVars

-----------------------------------------------------------------------------
(* Contexts: opening, joining, ending and handing on.                         *)

\* A scope opened or joined is one more frame on the goroutine's own stack.
LEMMA EnterStep ==
    ASSUME TypeOK, NEW p \in Proc, NEW c \in 0 .. opened', NEW owns \in BOOLEAN,
           Enter(p, c, owns), opened' \in Int, opened <= opened', opened' <= MaxScopes
    PROVE  /\ TypeOK'
           /\ \A q \in Proc : q # p => stack'[q] = stack[q]
           /\ DOMAIN stack'[p] = 1 .. Len(stack[p]) + 1
           /\ Len(stack'[p]) = Len(stack[p]) + 1
           /\ \A i \in 1 .. Len(stack[p]) : stack'[p][i] = stack[p][i]
           /\ stack'[p][Len(stack[p]) + 1] = [ctx |-> c, owns |-> owns]
           /\ UNCHANGED <<core, carrierVars, ringVars, admitted, emitting, records,
                          outputVars>>
<1> DEFINE Frame(n) == [ctx : 0 .. n, owns : BOOLEAN]
           frame == [ctx |-> c, owns |-> owns]
<1>1. opened \in 0 .. MaxScopes /\ MaxScopes \in Nat
      /\ stack \in [Proc -> Seq(Frame(opened))]
    BY SettingsAssumption DEF TypeOK
<1>2. /\ stack' = [stack EXCEPT ![p] = Append(@, frame)]
      /\ UNCHANGED <<core, carrierVars, ringVars, admitted, emitting, records,
                     outputVars>>
    BY DEF Enter
<1>3. Frame(opened) \subseteq Frame(opened') /\ frame \in Frame(opened')
    BY <1>1
<1> HIDE DEF Frame, frame
<1>4. \A q \in Proc : stack[q] \in Seq(Frame(opened'))
    BY <1>1, <1>3, SeqMonotonic
<1>5. /\ Append(stack[p], frame) \in Seq(Frame(opened'))
      /\ Len(Append(stack[p], frame)) = Len(stack[p]) + 1
      /\ \A i \in 1 .. Len(stack[p]) : Append(stack[p], frame)[i] = stack[p][i]
      /\ Append(stack[p], frame)[Len(stack[p]) + 1] = frame
      /\ DOMAIN Append(stack[p], frame) = 1 .. Len(stack[p]) + 1
      /\ Append(stack[p], frame) # <<>>
    <2>1. Len(stack[p]) \in Nat
        BY <1>4, LenProperties
    <2>2. /\ Append(stack[p], frame) \in Seq(Frame(opened'))
          /\ Len(Append(stack[p], frame)) = Len(stack[p]) + 1
          /\ \A i \in 1 .. Len(stack[p]) : Append(stack[p], frame)[i] = stack[p][i]
          /\ Append(stack[p], frame)[Len(stack[p]) + 1] = frame
        BY <1>3, <1>4, AppendProperties
    <2>3. Append(stack[p], frame) # <<>>
        BY <2>1, <2>2, EmptySeq
    <2>4. DOMAIN Append(stack[p], frame) = 1 .. Len(stack[p]) + 1
        BY <2>2, LenProperties
    <2> QED BY <2>2, <2>3, <2>4
<1>6. /\ stack'[p] = Append(stack[p], frame)
      /\ \A q \in Proc : q # p => stack'[q] = stack[q]
      /\ stack' \in [Proc -> Seq(Frame(opened'))]
    BY <1>1, <1>2, <1>4, <1>5
<1>7. \A q \in Proc : stack'[q] # <<>>
    BY <1>5, <1>6 DEF TypeOK
<1>8. /\ closed' \in [ScopeId -> BOOLEAN] /\ core' \in [Proc -> 0 .. opened']
      /\ admitted' \in [Proc -> [via : Adapter, level : Level, scope : 0 .. opened']
                                \cup {NoRecord}]
      /\ UNCHANGED <<preTripped, ringVars, emitting, records, outputVars>>
    <2>1. closed' \in [ScopeId -> BOOLEAN]
        BY <1>2 DEF TypeOK, carrierVars
    <2>2. 0 .. opened \subseteq 0 .. opened'
        BY <1>1
    <2>3. [via : Adapter, level : Level, scope : 0 .. opened]
          \subseteq [via : Adapter, level : Level, scope : 0 .. opened']
        BY <2>2
    <2>4. core' \in [Proc -> 0 .. opened']
        BY <1>2, <2>2 DEF TypeOK
    <2>5. admitted' \in [Proc -> [via : Adapter, level : Level, scope : 0 .. opened']
                                \cup {NoRecord}]
        BY <1>2, <2>3 DEF TypeOK
    <2> QED BY <1>2, <2>1, <2>4, <2>5 DEF carrierVars
<1>9. TypeOK'
    BY <1>6, <1>7, <1>8, TypesGrow DEF Frame
<1> QED BY <1>2, <1>5, <1>6, <1>9 DEF frame

\* A new scope belongs to the call that opened it, and its caller had none.
LEMMA ScopeOpensStep ==
    ASSUME TypeOK, Calls, OneScopePerOperation, NEW p \in Proc, ScopeOpens(p)
    PROVE  /\ TypeOK' /\ Calls' /\ OneScopePerOperation'
           /\ UNCHANGED <<preTripped, ringVars, emitting, records, outputVars>>
<1>1. /\ ~Live(Context(p)) /\ opened < MaxScopes
      /\ opened' = opened + 1 /\ Enter(p, opened + 1, TRUE)
    BY DEF ScopeOpens
<1>2. opened \in 0 .. MaxScopes /\ MaxScopes \in Nat
    BY SettingsAssumption DEF TypeOK
<1>3. opened' \in Int /\ opened <= opened' /\ opened' <= MaxScopes
      /\ opened + 1 \in 0 .. opened'
    BY <1>1, <1>2
<1>4. /\ TypeOK'
      /\ \A q \in Proc : q # p => stack'[q] = stack[q]
      /\ DOMAIN stack'[p] = 1 .. Len(stack[p]) + 1
      /\ Len(stack'[p]) = Len(stack[p]) + 1
      /\ \A i \in 1 .. Len(stack[p]) : stack'[p][i] = stack[p][i]
      /\ stack'[p][Len(stack[p]) + 1] = [ctx |-> opened + 1, owns |-> TRUE]
      /\ UNCHANGED <<core, carrierVars, ringVars, admitted, emitting, records,
                     outputVars>>
    BY <1>1, <1>3, EnterStep
<1>s. \A q \in Proc :
        /\ Len(stack[q]) \in Nat \ {0} /\ DOMAIN stack[q] = 1 .. Len(stack[q])
        /\ \A i \in 1 .. Len(stack[q]) : stack[q][i].ctx \in 0 .. opened
    BY StackFacts
<1>5. \A i \in 1 .. Len(stack[p]) : ~stack[p][i].owns
    <2> SUFFICES ASSUME NEW i \in 1 .. Len(stack[p]), stack[p][i].owns
                 PROVE  Live(Context(p))
        BY <1>1
    <2>0. stack[p][i].owns
        OBVIOUS
    <2>1. /\ Live(stack[p][i].ctx)
          /\ \A j \in i + 1 .. Len(stack[p]) :
                 stack[p][j] = [ctx |-> stack[p][i].ctx, owns |-> FALSE]
        <3>1. i \in DOMAIN stack[p]
            BY <1>s
        <3> QED BY <3>1, <2>0 DEF OneScopePerOperation
    <2>2. stack[p][Len(stack[p])].ctx = stack[p][i].ctx
        BY <1>s, <2>1
    <2> QED BY <2>1, <2>2, StackFacts
<1>6. closed' = closed /\ opened + 1 \in ScopeId /\ ~closed[opened + 1]
    BY <1>1, <1>2, <1>4 DEF Calls, ScopeId, carrierVars
<1>7. Calls'
    <2>1. \A q \in Proc : stack'[q][1].owns = FALSE
        BY <1>4, <1>s DEF Calls
    <2>2. ASSUME NEW q \in Proc, NEW r \in Proc, NEW i \in DOMAIN stack'[q],
                 NEW j \in DOMAIN stack'[r], stack'[q][i].owns, stack'[r][j].owns,
                 stack'[q][i].ctx = stack'[r][j].ctx
          PROVE  q = r /\ i = j
        <3>1. \A x \in Proc : \A k \in DOMAIN stack'[x] :
                  \/ k \in DOMAIN stack[x] /\ stack'[x][k] = stack[x][k]
                     /\ stack[x][k].ctx \in 0 .. opened
                  \/ x = p /\ k = Len(stack[p]) + 1 /\ stack'[x][k].ctx = opened + 1
            <4> SUFFICES ASSUME NEW x \in Proc, NEW k \in DOMAIN stack'[x]
                         PROVE  \/ k \in DOMAIN stack[x] /\ stack'[x][k] = stack[x][k]
                                   /\ stack[x][k].ctx \in 0 .. opened
                                \/ x = p /\ k = Len(stack[p]) + 1
                                   /\ stack'[x][k].ctx = opened + 1
                OBVIOUS
            <4>1. CASE x # p
                BY <1>4, <1>s, <4>1
            <4>2. CASE x = p /\ k \in 1 .. Len(stack[p])
                BY <1>4, <1>s, <4>2
            <4>3. CASE x = p /\ k = Len(stack[p]) + 1
                BY <1>4, <4>3
            <4>4. x = p => k \in 1 .. Len(stack[p]) \/ k = Len(stack[p]) + 1
                BY <1>4, <1>s
            <4> QED BY <4>1, <4>2, <4>3, <4>4
        <3>2. opened + 1 \notin 0 .. opened
            BY <1>2
        <3> QED BY <2>2, <3>1, <3>2 DEF Calls
    <2>3. \A c \in ScopeId : c > opened' => ~closed'[c]
        BY <1>1, <1>2, <1>6 DEF Calls, ScopeId
    <2> QED BY <2>1, <2>2, <2>3 DEF Calls
<1>8. OneScopePerOperation'
    <2> SUFFICES ASSUME NEW q \in Proc, NEW i \in DOMAIN stack'[q], stack'[q][i].owns
                 PROVE  /\ Live(stack[q][i].ctx)'
                        /\ \A j \in i + 1 .. Len(stack'[q]) :
                             stack'[q][j] = [ctx |-> stack'[q][i].ctx, owns |-> FALSE]
        BY DEF OneScopePerOperation
    <2>1. CASE q # p
        <3>1. stack'[q] = stack[q]
            BY <1>4, <2>1
        <3>2. /\ Live(stack[q][i].ctx)
              /\ \A j \in i + 1 .. Len(stack[q]) :
                     stack[q][j] = [ctx |-> stack[q][i].ctx, owns |-> FALSE]
            BY <3>1 DEF OneScopePerOperation
        <3> QED BY <1>6, <3>1, <3>2 DEF Live
    <2>2. CASE q = p
        <3>1. i = Len(stack[p]) + 1
            BY <1>4, <1>5, <1>s, <2>2, SMTT(30)
        <3>2. stack'[q][i].ctx = opened + 1
            BY <1>4, <2>2, <3>1
        <3>3. opened + 1 # NoScope
            BY <1>2 DEF NoScope
        <3>4. i + 1 .. Len(stack'[q]) = {}
            BY <1>4, <1>s, <2>2, <3>1
        <3> QED BY <1>6, <3>2, <3>3, <3>4 DEF Live
    <2> QED BY <2>1, <2>2
<1> QED BY <1>4, <1>7, <1>8 DEF carrierVars

\* A joined scope stays its creator's.
LEMMA ScopeJoinsStep ==
    ASSUME TypeOK, Calls, OneScopePerOperation, NEW p \in Proc, ScopeJoins(p)
    PROVE  /\ TypeOK' /\ Calls' /\ OneScopePerOperation'
           /\ UNCHANGED <<preTripped, ringVars, emitting, records, outputVars>>
<1>s. \A q \in Proc :
        /\ Len(stack[q]) \in Nat \ {0} /\ DOMAIN stack[q] = 1 .. Len(stack[q])
        /\ Context(q) = stack[q][Len(stack[q])].ctx /\ Context(q) \in 0 .. opened
    BY StackFacts
<1>1. opened' = opened /\ Enter(p, Context(p), FALSE)
    BY DEF ScopeJoins
<1>2. opened \in 0 .. MaxScopes /\ MaxScopes \in Nat
    BY SettingsAssumption DEF TypeOK
<1>3. opened' \in Int /\ opened <= opened' /\ opened' <= MaxScopes
      /\ Context(p) \in 0 .. opened'
    BY <1>1, <1>2, <1>s
<1>4. /\ TypeOK'
      /\ \A q \in Proc : q # p => stack'[q] = stack[q]
      /\ DOMAIN stack'[p] = 1 .. Len(stack[p]) + 1
      /\ Len(stack'[p]) = Len(stack[p]) + 1
      /\ \A i \in 1 .. Len(stack[p]) : stack'[p][i] = stack[p][i]
      /\ stack'[p][Len(stack[p]) + 1] = [ctx |-> Context(p), owns |-> FALSE]
      /\ UNCHANGED <<core, carrierVars, ringVars, admitted, emitting, records,
                     outputVars>>
    BY <1>1, <1>3, EnterStep
<1>5. closed' = closed
    BY <1>4 DEF carrierVars
<1>6. \A q \in Proc : \A k \in DOMAIN stack'[q] : stack'[q][k].owns =>
          k \in DOMAIN stack[q] /\ stack'[q][k] = stack[q][k]
    BY <1>4, <1>s, SMTT(30)
<1>7. Calls'
    <2>1. \A q \in Proc : stack'[q][1].owns = FALSE
        BY <1>4, <1>s DEF Calls
    <2>2. ASSUME NEW q \in Proc, NEW r \in Proc, NEW i \in DOMAIN stack'[q],
                 NEW j \in DOMAIN stack'[r], stack'[q][i].owns, stack'[r][j].owns,
                 stack'[q][i].ctx = stack'[r][j].ctx
          PROVE  q = r /\ i = j
        BY <1>6, <2>2 DEF Calls
    <2>3. \A c \in ScopeId : c > opened' => ~closed'[c]
        BY <1>1, <1>5 DEF Calls
    <2> QED BY <2>1, <2>2, <2>3 DEF Calls
<1>8. OneScopePerOperation'
    <2> SUFFICES ASSUME NEW q \in Proc, NEW i \in DOMAIN stack'[q], stack'[q][i].owns
                 PROVE  /\ Live(stack[q][i].ctx)'
                        /\ \A j \in i + 1 .. Len(stack'[q]) :
                             stack'[q][j] = [ctx |-> stack'[q][i].ctx, owns |-> FALSE]
        BY DEF OneScopePerOperation
    <2>1. /\ i \in DOMAIN stack[q] /\ stack'[q][i] = stack[q][i]
          /\ Live(stack[q][i].ctx)
          /\ \A j \in i + 1 .. Len(stack[q]) :
                 stack[q][j] = [ctx |-> stack[q][i].ctx, owns |-> FALSE]
        BY <1>6 DEF OneScopePerOperation
    <2>2. Live(stack[q][i].ctx)'
        BY <1>5, <2>1 DEF Live
    <2>3. CASE q # p
        BY <1>4, <2>1, <2>2, <2>3
    <2>4. CASE q = p
        <3>1. Context(p) = stack[p][i].ctx
            BY <1>s, <2>1, <2>4
        <3>2. ASSUME NEW j \in i + 1 .. Len(stack'[q])
              PROVE  stack'[q][j] = [ctx |-> stack'[q][i].ctx, owns |-> FALSE]
            <4>1. j \in i + 1 .. Len(stack[p]) \/ j = Len(stack[p]) + 1
                BY <1>4, <1>s, <2>1, <2>4
            <4>2. CASE j \in i + 1 .. Len(stack[p])
                <5>1. j \in 1 .. Len(stack[p])
                    BY <1>s, <2>1, <2>4, <4>2
                <5> QED BY <1>4, <2>1, <2>4, <4>2, <5>1
            <4>3. CASE j = Len(stack[p]) + 1
                BY <1>4, <2>1, <2>4, <3>1, <4>3
            <4> QED BY <4>1, <4>2, <4>3
        <3> QED BY <2>2, <3>2
    <2> QED BY <2>3, <2>4
<1> QED BY <1>4, <1>7, <1>8 DEF carrierVars

\* The frames but the innermost.
LEMMA FrontFacts ==
    ASSUME TypeOK, NEW p \in Proc, Len(stack[p]) > 1
    PROVE  /\ Front(stack[p]) \in Seq([ctx : 0 .. opened, owns : BOOLEAN])
           /\ DOMAIN Front(stack[p]) = 1 .. Len(stack[p]) - 1
           /\ Len(Front(stack[p])) = Len(stack[p]) - 1
           /\ \A i \in 1 .. Len(stack[p]) - 1 : Front(stack[p])[i] = stack[p][i]
           /\ Front(stack[p]) # <<>>
<1> DEFINE Frame == [ctx : 0 .. opened, owns : BOOLEAN]
           n == Len(stack[p]) - 1
<1>1. stack[p] \in Seq(Frame) /\ Len(stack[p]) \in Nat
    BY StackFacts
<1> HIDE DEF Frame
<1>2. n \in Nat /\ n >= 1 /\ 1 \in Int /\ n \in Int
    BY <1>1
<1>3. \A i \in 1 .. n : stack[p][i] \in Frame
    BY <1>1, <1>2, ElementOfSeq
<1>4. Front(stack[p]) = SubSeq(stack[p], 1, n)
    BY DEF Front
<1> HIDE DEF n
<1>5. /\ SubSeq(stack[p], 1, n) \in Seq(Frame)
      /\ Len(SubSeq(stack[p], 1, n)) = IF 1 <= n THEN n - 1 + 1 ELSE 0
      /\ \A i \in 1 .. n - 1 + 1 : SubSeq(stack[p], 1, n)[i] = stack[p][1 + i - 1]
    BY <1>2, <1>3, SubSeqProperties
<1>6. Front(stack[p]) \in Seq(Frame) /\ Len(Front(stack[p])) = n
      /\ \A i \in 1 .. n : Front(stack[p])[i] = stack[p][i]
    BY <1>2, <1>4, <1>5
<1>7. DOMAIN Front(stack[p]) = 1 .. n /\ Front(stack[p]) # <<>>
    BY <1>2, <1>6, LenProperties, EmptySeq
<1> QED BY <1>6, <1>7 DEF Frame, n

\* Only the creator's done releases the scope, and there is one creator.
LEMMA DoneStep ==
    ASSUME TypeOK, Calls, OneScopePerOperation, NEW p \in Proc, Done(p)
    PROVE  /\ TypeOK' /\ Calls' /\ OneScopePerOperation'
           /\ UNCHANGED <<preTripped, ringVars, emitting, records, outputVars>>
<1>s. \A q \in Proc :
        /\ Len(stack[q]) \in Nat \ {0} /\ DOMAIN stack[q] = 1 .. Len(stack[q])
        /\ \A i \in DOMAIN stack[q] : stack[q][i].ctx \in 0 .. opened
    BY StackFacts
<1>1. /\ Len(stack[p]) > 1
      /\ stack' = [stack EXCEPT ![p] = Front(stack[p])]
      /\ closed' = IF Last(stack[p]).owns
                   THEN [closed EXCEPT ![Context(p)] = TRUE] ELSE closed
      /\ UNCHANGED <<opened, core, preTripped, ringVars, admitted, emitting, records,
                     outputVars>>
    BY DEF Done
<1>2. /\ stack'[p] = Front(stack[p])
      /\ \A q \in Proc : q # p => stack'[q] = stack[q]
      /\ stack' \in [Proc -> Seq([ctx : 0 .. opened, owns : BOOLEAN])]
      /\ \A q \in Proc : stack'[q] # <<>>
    BY <1>1, FrontFacts DEF TypeOK
<1>3. \A q \in Proc : \A i \in DOMAIN stack'[q] :
          /\ i \in DOMAIN stack[q] /\ stack'[q][i] = stack[q][i]
          /\ q = p => i < Len(stack[p])
    <2> SUFFICES ASSUME NEW q \in Proc, NEW i \in DOMAIN stack'[q]
                 PROVE  /\ i \in DOMAIN stack[q] /\ stack'[q][i] = stack[q][i]
                        /\ q = p => i < Len(stack[p])
        OBVIOUS
    <2>1. CASE q # p
        BY <1>2, <2>1
    <2>2. CASE q = p
        <3>1. i \in 1 .. Len(stack[p]) - 1
            BY <1>1, <1>2, <2>2, FrontFacts
        <3>2. stack'[p][i] = stack[p][i]
            BY <1>1, <1>2, <3>1, FrontFacts
        <3>3. i \in DOMAIN stack[p] /\ i < Len(stack[p])
            BY <1>s, <3>1
        <3> QED BY <2>2, <3>2, <3>3
    <2> QED BY <2>1, <2>2
<1>4. \A q \in Proc : Len(stack'[q]) <= Len(stack[q]) /\ Len(stack'[q]) \in Nat
    BY <1>1, <1>2, <1>s, FrontFacts
<1>5. TypeOK'
    <2>1. closed' \in [ScopeId -> BOOLEAN] /\ opened \in 0 .. MaxScopes /\ MaxScopes \in Nat
        BY <1>1, SettingsAssumption DEF TypeOK
    <2>2. /\ core' \in [Proc -> 0 .. opened']
          /\ admitted' \in [Proc -> [via : Adapter, level : Level, scope : 0 .. opened']
                                    \cup {NoRecord}]
        BY <1>1 DEF TypeOK
    <2>3. opened' \in Int /\ opened <= opened' /\ opened' <= MaxScopes
        BY <1>1, <2>1
    <2>4. opened' = opened
        BY <1>1
    <2>5. stack' \in [Proc -> Seq([ctx : 0 .. opened', owns : BOOLEAN])]
        BY <2>4, <1>2, Zenon
    <2> QED BY <1>1, <1>2, <2>1, <2>2, <2>3, <2>5, TypesGrow
<1>6. Calls'
    <2>1. \A q \in Proc : stack'[q][1].owns = FALSE
        <3>1. \A q \in Proc : 1 \in DOMAIN stack'[q]
            BY <1>1, <1>2, <1>s, FrontFacts
        <3> QED BY <1>3, <3>1 DEF Calls
    <2>2. \A q, r \in Proc : \A i \in DOMAIN stack'[q], j \in DOMAIN stack'[r] :
              stack'[q][i].owns /\ stack'[r][j].owns /\ stack'[q][i].ctx = stack'[r][j].ctx
                  => q = r /\ i = j
        BY <1>3 DEF Calls
    <2>3. \A c \in ScopeId : c > opened' => ~closed'[c]
        <3>1. Context(p) \in 0 .. opened /\ opened \in 0 .. MaxScopes /\ MaxScopes \in Nat
            BY StackFacts, SettingsAssumption DEF TypeOK
        <3>2. \A c \in ScopeId : c > opened => c # Context(p)
            BY <3>1 DEF ScopeId
        <3> QED BY <1>1, <3>2 DEF Calls, TypeOK
    <2> QED BY <2>1, <2>2, <2>3 DEF Calls
<1>7. OneScopePerOperation'
    <2> SUFFICES ASSUME NEW q \in Proc, NEW i \in DOMAIN stack'[q], stack'[q][i].owns
                 PROVE  /\ Live(stack[q][i].ctx)'
                        /\ \A j \in i + 1 .. Len(stack'[q]) :
                             stack'[q][j] = [ctx |-> stack'[q][i].ctx, owns |-> FALSE]
        BY DEF OneScopePerOperation
    <2>1. /\ i \in DOMAIN stack[q] /\ stack'[q][i] = stack[q][i]
          /\ q = p => i < Len(stack[p])
        BY <1>3
    <2>2. /\ Live(stack[q][i].ctx)
          /\ \A j \in i + 1 .. Len(stack[q]) :
                 stack[q][j] = [ctx |-> stack[q][i].ctx, owns |-> FALSE]
        BY <2>1 DEF OneScopePerOperation
    <2>3. \A j \in i + 1 .. Len(stack'[q]) :
              stack'[q][j] = [ctx |-> stack'[q][i].ctx, owns |-> FALSE]
        <3> SUFFICES ASSUME NEW j \in i + 1 .. Len(stack'[q])
                     PROVE  stack'[q][j] = [ctx |-> stack'[q][i].ctx, owns |-> FALSE]
            OBVIOUS
        <3>1. j \in i + 1 .. Len(stack[q]) /\ j \in 1 .. Len(stack'[q])
            BY <1>4, <1>s, <2>1
        <3>2. j \in DOMAIN stack'[q]
            <4>1. stack'[q] \in Seq([ctx : 0 .. opened, owns : BOOLEAN])
                BY <1>2
            <4> QED BY <3>1, <4>1, LenProperties
        <3> QED BY <1>3, <2>1, <2>2, <3>1, <3>2
    <2>4. Live(stack[q][i].ctx)'
        <3>1. CASE ~Last(stack[p]).owns
            BY <1>1, <2>1, <2>2, <3>1 DEF Live
        <3>2. CASE Last(stack[p]).owns
            <4>1. Last(stack[p]) = stack[p][Len(stack[p])]
                  /\ Context(p) = stack[p][Len(stack[p])].ctx
                  /\ Len(stack[p]) \in DOMAIN stack[p]
                BY StackFacts
            <4>2. stack[q][i].owns /\ stack[p][Len(stack[p])].owns
                BY <2>1, <3>2, <4>1
            <4>3. ~(q = p /\ i = Len(stack[p]))
                BY <1>s, <2>1
            <4>4. stack[q][i].ctx # Context(p)
                BY <2>1, <4>1, <4>2, <4>3 DEF Calls
            <4>5. stack[q][i].ctx \in ScopeId /\ closed[stack[q][i].ctx] = FALSE
                  /\ stack[q][i].ctx # NoScope
                BY <1>s, <2>1, <2>2, LiveIsOpened
            <4>6. closed'[stack[q][i].ctx] = FALSE
                BY <1>1, <3>2, <4>4, <4>5 DEF TypeOK
            <4> QED BY <2>1, <4>5, <4>6 DEF Live
        <3> QED BY <3>1, <3>2
    <2> QED BY <2>3, <2>4
<1> QED BY <1>1, <1>5, <1>6, <1>7

\* A context that was handed on is not its new holder's to end.
LEMMA HandStep ==
    ASSUME TypeOK, Calls, OneScopePerOperation, NEW p \in Proc, NEW q \in Proc, Hand(p, q)
    PROVE  /\ TypeOK' /\ Calls' /\ OneScopePerOperation'
           /\ UNCHANGED <<preTripped, ringVars, emitting, records, outputVars>>
<1> DEFINE frame == [ctx |-> Context(p), owns |-> FALSE]
           Frame == [ctx : 0 .. opened, owns : BOOLEAN]
<1>s. \A r \in Proc :
        /\ Len(stack[r]) \in Nat \ {0} /\ DOMAIN stack[r] = 1 .. Len(stack[r])
        /\ stack[r] \in Seq(Frame) /\ Context(r) \in 0 .. opened
    BY StackFacts
<1>1. /\ stack' = [stack EXCEPT ![q] = <<frame>>]
      /\ core' = [core EXCEPT ![q] = core[p]]
      /\ UNCHANGED <<opened, carrierVars, ringVars, admitted, emitting, records,
                     outputVars>>
    BY DEF Hand
<1>2. frame \in Frame
    BY <1>s
<1>3. /\ <<frame>> \in Seq(Frame) /\ Len(<<frame>>) = 1 /\ <<frame>>[1] = frame
      /\ DOMAIN <<frame>> = {1} /\ <<frame>> # <<>>
    <2> HIDE DEF Frame, frame
    <2> QED BY <1>2
<1>4. /\ stack'[q] = <<frame>>
      /\ \A r \in Proc : r # q => stack'[r] = stack[r]
      /\ stack' \in [Proc -> Seq(Frame)]
      /\ \A r \in Proc : stack'[r] # <<>>
    <2> HIDE DEF Frame, frame
    <2>1. stack \in [Proc -> Seq(Frame)]
        BY DEF TypeOK, Frame
    <2>2. /\ stack'[q] = <<frame>>
          /\ \A r \in Proc : r # q => stack'[r] = stack[r]
          /\ stack' \in [Proc -> Seq(Frame)]
        BY <1>1, <1>3, <2>1
    <2> QED BY <1>3, <2>2 DEF TypeOK
<1>5. TypeOK'
    <2>1. /\ closed' \in [ScopeId -> BOOLEAN] /\ opened \in 0 .. MaxScopes
          /\ MaxScopes \in Nat
          /\ core' \in [Proc -> 0 .. opened']
          /\ admitted' \in [Proc -> [via : Adapter, level : Level, scope : 0 .. opened']
                                    \cup {NoRecord}]
        BY <1>1, SettingsAssumption DEF TypeOK, carrierVars
    <2>3. opened' \in Int /\ opened <= opened' /\ opened' <= MaxScopes
        BY <1>1, <2>1
    <2>4. opened' = opened
        BY <1>1
    <2>5. stack' \in [Proc -> Seq([ctx : 0 .. opened', owns : BOOLEAN])]
        BY <2>4, <1>4, Zenon DEF Frame
    <2> QED BY <1>1, <1>4, <2>1, <2>3, <2>5, TypesGrow DEF carrierVars
<1>6. \A r \in Proc : \A i \in DOMAIN stack'[r] : stack'[r][i].owns =>
          r # q /\ i \in DOMAIN stack[r] /\ stack'[r] = stack[r]
    BY <1>3, <1>4
<1>7. Calls'
    <2>1. \A r \in Proc : stack'[r][1].owns = FALSE
        <3>1. ASSUME NEW r \in Proc, r # q PROVE stack'[r][1].owns = FALSE
            BY <1>4, <3>1 DEF Calls
        <3>2. stack'[q][1].owns = FALSE
            BY <1>3, <1>4
        <3> QED BY <3>1, <3>2
    <2>2. ASSUME NEW x \in Proc, NEW r \in Proc, NEW i \in DOMAIN stack'[x],
                 NEW j \in DOMAIN stack'[r], stack'[x][i].owns, stack'[r][j].owns,
                 stack'[x][i].ctx = stack'[r][j].ctx
          PROVE  x = r /\ i = j
        BY <1>6, <2>2 DEF Calls
    <2>3. \A c \in ScopeId : c > opened' => ~closed'[c]
        BY <1>1 DEF Calls, carrierVars
    <2> QED BY <2>1, <2>2, <2>3 DEF Calls
<1>8. OneScopePerOperation'
    <2> SUFFICES ASSUME NEW r \in Proc, NEW i \in DOMAIN stack'[r], stack'[r][i].owns
                 PROVE  /\ Live(stack[r][i].ctx)'
                        /\ \A j \in i + 1 .. Len(stack'[r]) :
                             stack'[r][j] = [ctx |-> stack'[r][i].ctx, owns |-> FALSE]
        BY DEF OneScopePerOperation
    <2>1. i \in DOMAIN stack[r] /\ stack'[r] = stack[r]
        BY <1>6
    <2>2. /\ Live(stack[r][i].ctx)
          /\ \A j \in i + 1 .. Len(stack[r]) :
                 stack[r][j] = [ctx |-> stack[r][i].ctx, owns |-> FALSE]
        BY <2>1 DEF OneScopePerOperation
    <2> QED BY <1>1, <2>1, <2>2 DEF Live, carrierVars
<1> QED BY <1>1, <1>5, <1>7, <1>8 DEF carrierVars

\* Binding a core and being told to log leave every scope alone.
LEMMA OwnSteps ==
    ASSUME TypeOK, Calls, OneScopePerOperation, NEW p \in Proc,
           For(p) \/ \E a \in Adapter : \E l \in Level : Check(p, a, l)
    PROVE  /\ TypeOK' /\ Calls' /\ OneScopePerOperation'
           /\ UNCHANGED <<preTripped, ringVars, emitting, records, outputVars>>
<1>1. /\ UNCHANGED <<opened, stack, carrierVars, ringVars, emitting, records, outputVars>>
      /\ core' \in [Proc -> 0 .. opened]
      /\ admitted' \in [Proc -> [via : Adapter, level : Level, scope : 0 .. opened]
                                \cup {NoRecord}]
    <2>0. /\ Context(p) \in 0 .. opened /\ core[p] \in 0 .. opened
          /\ NoScope \in 0 .. opened
        <3>1. opened \in 0 .. MaxScopes /\ MaxScopes \in Nat /\ core \in [Proc -> 0 .. opened]
            BY SettingsAssumption DEF TypeOK
        <3>2. NoScope \in 0 .. opened /\ core[p] \in 0 .. opened
            BY <3>1 DEF NoScope
        <3> QED BY <3>2, StackFacts
    <2>1. CASE For(p)
        BY <2>0, <2>1 DEF For, TypeOK
    <2>2. ASSUME NEW a \in Adapter, NEW l \in Level, Check(p, a, l)
          PROVE  /\ UNCHANGED <<programVars, carrierVars, ringVars, emitting, records,
                                outputVars>>
                 /\ admitted' \in [Proc -> [via : Adapter, level : Level,
                                            scope : 0 .. opened] \cup {NoRecord}]
        <3>1. Target(p, a) \in 0 .. opened
            BY <2>0 DEF Target
        <3>2. /\ UNCHANGED <<programVars, carrierVars, ringVars, emitting, records,
                             outputVars>>
              /\ admitted' = [admitted EXCEPT ![p] =
                                [via |-> a, level |-> l, scope |-> Target(p, a)]]
            BY <2>2 DEF Check
        <3>3. [via |-> a, level |-> l, scope |-> Target(p, a)]
              \in [via : Adapter, level : Level, scope : 0 .. opened]
            BY <3>1
        <3> QED BY <3>2, <3>3 DEF TypeOK
    <2> QED BY <2>1, <2>2 DEF programVars, TypeOK
<1>2. TypeOK'
    <2>1. /\ closed' \in [ScopeId -> BOOLEAN] /\ opened \in 0 .. MaxScopes
          /\ MaxScopes \in Nat /\ \A q \in Proc : stack'[q] # <<>>
          /\ stack' \in [Proc -> Seq([ctx : 0 .. opened', owns : BOOLEAN])]
        BY <1>1, SettingsAssumption DEF TypeOK, carrierVars
    <2>2. opened' \in Int /\ opened <= opened' /\ opened' <= MaxScopes
          /\ core' \in [Proc -> 0 .. opened']
          /\ admitted' \in [Proc -> [via : Adapter, level : Level, scope : 0 .. opened']
                                    \cup {NoRecord}]
        BY <1>1, <2>1
    <2> QED BY <1>1, <2>1, <2>2, TypesGrow DEF carrierVars
<1>3. Calls' /\ OneScopePerOperation'
    BY <1>1 DEF Calls, OneScopePerOperation, Live, carrierVars
<1> QED BY <1>1, <1>2, <1>3 DEF carrierVars

\* The history only grows, and no trip is taken back.
Grows ==
    /\ DOMAIN records \subseteq DOMAIN records'
    /\ \A r \in DOMAIN records : records'[r] = records[r]
    /\ \A c \in ScopeId : HasTripped(c) => HasTripped(c)'

\* What was due stays due.
LEMMA DueKept ==
    ASSUME Grows, NEW r \in DOMAIN records, Due(r)
    PROVE  Due(r)'
<1>1. records'[r] = records[r]
    BY DEF Grows
<1>2. AtLevel(records[r])' <=> AtLevel(records[r])
    BY <1>1 DEF AtLevel
<1> QED BY <1>1, <1>2 DEF Due, Grows

\* Those steps touch nothing that the rest of the invariant is about.
LEMMA HistoryKept ==
    ASSUME IInv, UNCHANGED <<preTripped, ringVars, emitting, records, outputVars>>,
           \A p \in Proc : admitted'[p] = admitted[p] \/ emitting[p] = NoFlush
    PROVE  /\ Rings' /\ Logged' /\ Passed' /\ Emitting' /\ Flushed' /\ Charged'
<1>1. UNCHANGED <<preTripped, pool, tripped, granted, log, emitting, records, flushed,
                  passed>>
    BY DEF ringVars, outputVars
<1>2. \A c : /\ HasTripped(c)' <=> HasTripped(c)
             /\ Buffered(c)' = Buffered(c) /\ After(c)' = After(c)
             /\ Batch(c)' = Batch(c) /\ (FlushOver(c)' <=> FlushOver(c))
    BY <1>1 DEF HasTripped, Buffered, After, Batch, Notice, Replay, Newest, Lost, Capacity,
                FlushOver, AtLevel
<1>3. Rings' /\ Logged'
    BY <1>1, <1>2 DEF IInv, Rings, Logged
<1>4. Passed'
    BY <1>1, <1>2 DEF IInv, Passed, Due, AtLevel
<1>7. Emitting'
    <2> SUFFICES ASSUME NEW p \in Proc, emitting[p].scope # NoScope PROVE Flushing(p)'
        BY <1>1 DEF Emitting, Flushing
    <2>1. Flushing(p) /\ admitted'[p] = admitted[p]
        BY DEF IInv, Emitting, NoFlush
    <2> QED BY <1>1, <1>2, <2>1 DEF Flushing, AtLevel
<1>5. Flushed'
    BY <1>1, <1>2 DEF IInv, Flushed
<1>6. Charged'
    BY <1>1, <1>2 DEF IInv, Charged
<1> QED BY <1>3, <1>4, <1>5, <1>6, <1>7

\* Contexts and Enabled leave the rings, the history and the output alone
\* (scope.go:192-200, zapadapter/core.go:166-178, handler.go:184-192).
LEMMA ContextSteps ==
    ASSUME IInv, NEW p \in Proc,
           Contexts(p) \/ \E a \in Adapter : \E l \in Level : Check(p, a, l)
    PROVE  IInv'
<1>1. TypeOK /\ Calls /\ OneScopePerOperation
    BY DEF IInv
<1>2. /\ TypeOK' /\ Calls' /\ OneScopePerOperation'
      /\ UNCHANGED <<preTripped, ringVars, emitting, records, outputVars>>
    BY <1>1, ScopeOpensStep, ScopeJoinsStep, DoneStep, HandStep, OwnSteps DEF Contexts
<1>3. \A q \in Proc : admitted'[q] = admitted[q] \/ emitting[q] = NoFlush
    <2>1. CASE Contexts(p)
        BY <2>1 DEF Contexts, ScopeOpens, ScopeJoins, Enter, Done, For, Hand
    <2>2. ASSUME NEW a \in Adapter, NEW l \in Level, Check(p, a, l)
          PROVE  \A q \in Proc : admitted'[q] = admitted[q] \/ emitting[q] = NoFlush
        BY <1>1, <2>2 DEF Check, Idle, TypeOK
    <2> QED BY <2>1, <2>2
<1>4. /\ Rings' /\ Logged' /\ Passed' /\ Emitting' /\ Flushed' /\ Charged'
    BY <1>2, <1>3, HistoryKept
<1> QED BY <1>2, <1>4 DEF IInv

-----------------------------------------------------------------------------
(* What the history and a batch are made of.                                  *)

\* What a flush can offer.
Offerable == [kind : {"replay", "notice"}, via : Adapter, n : Nat \ {0}]

\* The history: one record more, the last.
LEMMA RecordsGrow ==
    ASSUME TypeOK, NEW p \in Proc, NEW when \in {"before", "after", "alone"},
           Handled(p, when)
    PROVE  /\ admitted[p] # NoRecord /\ UNCHANGED <<opened, stack, core>>
           /\ admitted' \in [Proc -> [via : Adapter, level : Level, scope : 0 .. opened]
                                     \cup {NoRecord}]
           /\ records' \in Seq(Record)
           /\ Len(records) \in Nat /\ Len(records') = This
           /\ DOMAIN records = 1 .. Len(records) /\ DOMAIN records' = 1 .. This
           /\ This = Len(records) + 1
           /\ \A r \in DOMAIN records : records'[r] = records[r]
           /\ records'[This] = [via |-> admitted[p].via, level |-> admitted[p].level,
                                scope |-> admitted[p].scope, when |-> when]
<1> DEFINE new == [via |-> admitted[p].via, level |-> admitted[p].level,
                   scope |-> admitted[p].scope, when |-> when]
<1>1. /\ admitted[p] # NoRecord /\ UNCHANGED <<opened, stack, core>>
      /\ admitted' = [admitted EXCEPT ![p] = NoRecord]
      /\ records' = Append(records, new)
    BY DEF Handled, programVars
<1>2. new \in Record
    <2>1. opened \in 0 .. MaxScopes /\ MaxScopes \in Nat
        BY SettingsAssumption DEF TypeOK
    <2>2. 0 .. opened \subseteq ScopeId \cup {NoScope}
        BY <2>1 DEF ScopeId, NoScope
    <2>3. /\ admitted[p].via \in Adapter /\ admitted[p].level \in Level
          /\ admitted[p].scope \in 0 .. opened
        BY <1>1, AdmittedFacts
    <2> QED BY <2>2, <2>3 DEF Record
<1>3. records \in Seq(Record)
    BY DEF TypeOK
<1> HIDE DEF new
<1>4. Len(records) \in Nat /\ DOMAIN records = 1 .. Len(records)
    BY <1>3, LenProperties
<1>5. /\ Append(records, new) \in Seq(Record)
      /\ Len(Append(records, new)) = Len(records) + 1
      /\ \A i \in 1 .. Len(records) : Append(records, new)[i] = records[i]
      /\ Append(records, new)[Len(records) + 1] = new
    BY <1>2, <1>3, AppendProperties
<1>6. DOMAIN Append(records, new) = 1 .. Len(records) + 1
    BY <1>5, LenProperties
<1>7. admitted' \in [Proc -> [via : Adapter, level : Level, scope : 0 .. opened]
                             \cup {NoRecord}]
    BY <1>1 DEF TypeOK
<1> QED BY <1>1, <1>4, <1>5, <1>6, <1>7 DEF This, new

\* A record handled adds itself to the buffered ones or to those after the trip,
\* and to no other scope's.
LEMMA HistoryGrows ==
    ASSUME TypeOK, NEW p \in Proc, NEW when \in {"before", "after", "alone"},
           Handled(p, when), NEW c
    PROVE  /\ Buffered(c)' = IF /\ admitted[p].scope = c /\ when = "before"
                                /\ ~AtLevel(admitted[p])
                             THEN Buffered(c) \cup {This} ELSE Buffered(c)
           /\ After(c)' = IF admitted[p].scope = c /\ when = "after"
                          THEN After(c) \cup {This} ELSE After(c)
           /\ Buffered(c) \cup After(c) \subseteq 1 .. Len(records)
           /\ This \notin Buffered(c) \cup After(c)
<1>1. /\ DOMAIN records = 1 .. Len(records) /\ DOMAIN records' = 1 .. This
      /\ This = Len(records) + 1 /\ Len(records) \in Nat
      /\ \A r \in DOMAIN records : records'[r] = records[r]
      /\ records'[This] = [via |-> admitted[p].via, level |-> admitted[p].level,
                           scope |-> admitted[p].scope, when |-> when]
    BY RecordsGrow
<1>a. /\ records'[This].via = admitted[p].via
      /\ records'[This].level = admitted[p].level
      /\ records'[This].scope = admitted[p].scope
      /\ records'[This].when = when
    BY ONLY <1>1
<1>2. \A r : r \in 1 .. This <=> r \in 1 .. Len(records) \/ r = This
    BY <1>1
<1>3. This \notin 1 .. Len(records)
    BY <1>1
<1>4. AtLevel(records'[This]) <=> AtLevel(admitted[p])
    BY <1>a DEF AtLevel
<1>5. \A r \in DOMAIN records : AtLevel(records[r])' <=> AtLevel(records[r])
    BY <1>1 DEF AtLevel
<1>6. \A r : r \in Buffered(c)' <=> r \in Buffered(c) \/
          (r = This /\ admitted[p].scope = c /\ when = "before" /\ ~AtLevel(admitted[p]))
    BY <1>1, <1>a, <1>2, <1>3, <1>4, <1>5 DEF Buffered
<1>7. \A r : r \in After(c)' <=> r \in After(c) \/
          (r = This /\ admitted[p].scope = c /\ when = "after")
    BY <1>1, <1>a, <1>2, <1>3 DEF After
<1>8. Buffered(c) \cup After(c) \subseteq 1 .. Len(records)
    BY <1>1 DEF Buffered, After
<1> QED BY <1>3, <1>6, <1>7, <1>8

\* Appending to a sequence.
LEMMA Appended ==
    ASSUME NEW S, NEW s \in Seq(S), NEW t \in Seq(S)
    PROVE  /\ s \o t \in Seq(S) /\ Len(s) \in Nat /\ Len(t) \in Nat
           /\ DOMAIN s = 1 .. Len(s) /\ DOMAIN t = 1 .. Len(t)
           /\ Len(s \o t) = Len(s) + Len(t)
           /\ DOMAIN (s \o t) = 1 .. Len(s) + Len(t)
           /\ \A i \in 1 .. Len(s) : (s \o t)[i] = s[i]
           /\ \A k \in 1 .. Len(t) : (s \o t)[Len(s) + k] = t[k]
<1>1. /\ Len(s) \in Nat /\ Len(t) \in Nat
      /\ DOMAIN s = 1 .. Len(s) /\ DOMAIN t = 1 .. Len(t)
    BY LenProperties
<1> DEFINE u == s \o t
<1>2. /\ u \in Seq(S) /\ Len(u) = Len(s) + Len(t)
      /\ \A i \in 1 .. Len(s) + Len(t) :
            u[i] = IF i <= Len(s) THEN s[i] ELSE t[i - Len(s)]
    BY ConcatProperties
<1>3. DOMAIN u = 1 .. Len(s) + Len(t)
    BY <1>2, LenProperties
<1> HIDE DEF u
<1>4. \A i \in 1 .. Len(s) : u[i] = s[i]
    BY <1>1, <1>2
<1>5. \A k \in 1 .. Len(t) : u[Len(s) + k] = t[k]
    BY <1>1, <1>2
<1> QED BY <1>1, <1>2, <1>3, <1>4, <1>5 DEF u

\* The end of a sequence, without its first n elements.
LEMMA EndOfSeq ==
    ASSUME NEW S, NEW s \in Seq(S), NEW n \in 0 .. Len(s)
    PROVE  /\ SubSeq(s, n + 1, Len(s)) \in Seq(S)
           /\ Len(SubSeq(s, n + 1, Len(s))) = Len(s) - n
           /\ \A k \in 1 .. Len(s) - n : SubSeq(s, n + 1, Len(s))[k] = s[n + k]
<1> DEFINE m == n + 1
<1>1. Len(s) \in Nat
    BY LenProperties
<1>2. m \in 1 .. Len(s) + 1 /\ Len(s) - m + 1 = Len(s) - n
    BY <1>1
<1>3. \A k \in 1 .. Len(s) - n : m + k - 1 = n + k
    BY <1>1
<1> HIDE DEF m
<1>4. \A i \in m .. Len(s) : s[i] \in S
    BY <1>1, <1>2, ElementOfSeq
<1>5. /\ SubSeq(s, m, Len(s)) \in Seq(S)
      /\ Len(SubSeq(s, m, Len(s))) = IF m <= Len(s) THEN Len(s) - m + 1 ELSE 0
      /\ \A i \in 1 .. Len(s) - m + 1 : SubSeq(s, m, Len(s))[i] = s[m + i - 1]
    BY <1>1, <1>2, <1>4, SubSeqProperties
<1>6. Len(SubSeq(s, m, Len(s))) = Len(s) - n
    BY <1>1, <1>2, <1>5
<1>7. \A k \in 1 .. Len(s) - n : SubSeq(s, m, Len(s))[k] = s[n + k]
    BY <1>2, <1>3, <1>5
<1> QED BY <1>5, <1>6, <1>7 DEF m

\* The records a ring holds: the newest of its log, as many as it has room for.
LEMMA NewestFacts ==
    ASSUME TypeOK, NEW c \in ScopeId, pool[c] \in Adapter
    PROVE  /\ log[c] \in Seq(DOMAIN records) /\ Len(log[c]) \in Nat
           /\ DOMAIN log[c] = 1 .. Len(log[c])
           /\ \A i \in 1 .. Len(log[c]) : log[c][i] \in DOMAIN records
           /\ Lost(c) \in 0 .. Len(log[c])
           /\ Newest(c) \in Seq(DOMAIN records)
           /\ Len(Newest(c)) = Len(log[c]) - Lost(c)
           /\ \A k \in 1 .. Len(Newest(c)) : Newest(c)[k] = log[c][Lost(c) + k]
           /\ log[c] # <<>> => Len(Newest(c)) >= 1
           /\ Len(Newest(c)) <= Capacity(c)
           /\ Lost(c) > 0 => Len(Newest(c)) = Capacity(c)
<1>1. log[c] \in Seq(DOMAIN records)
    BY DEF TypeOK
<1>2. /\ Len(log[c]) \in Nat /\ DOMAIN log[c] = 1 .. Len(log[c])
      /\ \A i \in 1 .. Len(log[c]) : log[c][i] \in DOMAIN records
    BY <1>1, LenProperties, ElementOfSeq
<1>3. Capacity(c) \in Nat \ {0}
    BY SettingFacts DEF Capacity
<1>4. /\ Lost(c) \in 0 .. Len(log[c])
      /\ Len(log[c]) - Lost(c) <= Capacity(c)
      /\ Lost(c) > 0 => Len(log[c]) - Lost(c) = Capacity(c)
      /\ Len(log[c]) >= 1 => Len(log[c]) - Lost(c) >= 1
    BY <1>2, <1>3 DEF Lost
<1>6. Newest(c) = SubSeq(log[c], Lost(c) + 1, Len(log[c]))
    BY DEF Newest
<1> DEFINE S == DOMAIN records
<1>7. log[c] \in Seq(S)
    BY <1>1
<1> HIDE DEF S
<1>8. /\ SubSeq(log[c], Lost(c) + 1, Len(log[c])) \in Seq(S)
      /\ Len(SubSeq(log[c], Lost(c) + 1, Len(log[c]))) = Len(log[c]) - Lost(c)
      /\ \A k \in 1 .. Len(log[c]) - Lost(c) :
             SubSeq(log[c], Lost(c) + 1, Len(log[c]))[k] = log[c][Lost(c) + k]
    BY <1>4, <1>7, EndOfSeq
<1>9. /\ Newest(c) \in Seq(DOMAIN records)
      /\ Len(Newest(c)) = Len(log[c]) - Lost(c)
      /\ \A k \in 1 .. Len(Newest(c)) : Newest(c)[k] = log[c][Lost(c) + k]
    BY <1>6, <1>8 DEF S
<1>10. log[c] # <<>> => Len(log[c]) >= 1
    BY <1>1, <1>2, EmptySeq
<1> QED BY <1>1, <1>2, <1>4, <1>9, <1>10

\* What a flush emits: the notice, when records were lost, and the records the ring
\* still holds.
LEMMA BatchFacts ==
    ASSUME TypeOK, NEW c \in ScopeId, pool[c] \in Adapter
    PROVE  /\ Batch(c) \in Seq(Offerable)
           /\ \E h \in {0, 1}, N \in Nat :
                /\ h = (IF Lost(c) = 0 THEN 0 ELSE 1) /\ N = Len(Newest(c))
                /\ Len(Batch(c)) = h + N
                /\ h = 1 =>
                     Batch(c)[1] = Item("notice", records[Newest(c)[1]].via, Lost(c))
                /\ \A k \in 1 .. N : Batch(c)[h + k] =
                       Item("replay", records[Newest(c)[k]].via, Newest(c)[k])
<1>e. <<>> \in Seq(Offerable) /\ Len(<<>>) = 0
    BY EmptySeq
<1>1. /\ Newest(c) \in Seq(DOMAIN records) /\ Len(log[c]) \in Nat
      /\ Lost(c) \in 0 .. Len(log[c])
      /\ Len(Newest(c)) = Len(log[c]) - Lost(c)
      /\ log[c] # <<>> => Len(Newest(c)) >= 1
    BY NewestFacts
<1>2. \A r \in DOMAIN records : records[r].via \in Adapter /\ r \in Nat \ {0}
    <2>1. records \in Seq(Record)
        BY DEF TypeOK
    <2>2. DOMAIN records = 1 .. Len(records)
          /\ \A r \in 1 .. Len(records) : records[r] \in Record
        BY <2>1, LenProperties, ElementOfSeq
    <2> QED BY <2>2 DEF Record
<1> DEFINE N == Len(Newest(c))
<1>3. N \in Nat /\ \A k \in 1 .. N : Newest(c)[k] \in DOMAIN records
    BY <1>1, LenProperties, ElementOfSeq
<1>5. ASSUME NEW kind \in {"replay", "notice"}, NEW via \in Adapter, NEW n \in Nat \ {0}
      PROVE  Item(kind, via, n) \in Offerable
    BY DEF Item, Offerable
<1> DEFINE ItemOf(k) == Item("replay", records[Newest(c)[k]].via, Newest(c)[k])
<1>6. \A k \in 1 .. N : ItemOf(k) \in Offerable
    BY <1>2, <1>3, <1>5
<1>7. Replay(c) = [k \in 1 .. N |-> ItemOf(k)]
    BY DEF Replay
<1> HIDE DEF ItemOf
<1>8. /\ Replay(c) \in Seq(Offerable) /\ Len(Replay(c)) = N
      /\ \A k \in 1 .. N : Replay(c)[k] = ItemOf(k)
    <2>1. Replay(c) \in [1 .. N -> Offerable]
        BY <1>6, <1>7
    <2>2. Replay(c) \in Seq(Offerable)
        BY <1>3, <2>1, SeqDef
    <2>3. DOMAIN Replay(c) = 1 .. N
        BY <1>7
    <2>4. Len(Replay(c)) = N
        BY <1>3, <2>2, <2>3, LenProperties
    <2> QED BY <1>7, <2>2, <2>4
<1>9. Batch(c) = Notice(c) \o Replay(c)
    BY DEF Batch, Adapter
<1>10. CASE Lost(c) = 0
    <2>1. Batch(c) = Replay(c)
        BY <1>8, <1>9, <1>10, ConcatEmptySeq DEF Notice
    <2>2. \A k \in 1 .. N : Batch(c)[0 + k] = ItemOf(k)
        BY <1>8, <2>1
    <2>3. Len(Batch(c)) = 0 + N
        BY <1>3, <1>8, <2>1
    <2> QED BY <1>3, <1>8, <1>10, <2>1, <2>2, <2>3 DEF ItemOf
<1>11. CASE Lost(c) # 0
    <2> DEFINE notice == Item("notice", records[Newest(c)[1]].via, Lost(c))
    <2>1. log[c] # <<>> /\ Lost(c) > 0 /\ Lost(c) \in Nat \ {0} /\ 1 \in 1 .. N
        BY <1>e, <1>1, <1>11
    <2>2. notice \in Offerable
        BY <1>2, <1>3, <1>5, <2>1
    <2>3. Notice(c) = <<notice>>
        <3> DEFINE S == DOMAIN records
        <3>1. Newest(c) \in Seq(S) /\ Newest(c) # <<>>
            BY <1>e, <1>1, <2>1
        <3> HIDE DEF S
        <3>2. Head(Newest(c)) = Newest(c)[1]
            BY <3>1, HeadTailProperties
        <3> QED BY <1>11, <3>2 DEF Notice
    <2> HIDE DEF notice
    <2>4. <<notice>> \in Seq(Offerable) /\ Len(<<notice>>) = 1 /\ <<notice>>[1] = notice
        BY <2>2
    <2> DEFINE head == <<notice>>
    <2>5. head \in Seq(Offerable) /\ Len(head) = 1 /\ head[1] = notice
        BY <2>4
    <2>6. Batch(c) = head \o Replay(c)
        BY <1>9, <2>3
    <2> HIDE DEF head
    <2>7. /\ Batch(c) \in Seq(Offerable) /\ Len(Batch(c)) = 1 + N
          /\ Batch(c)[1] = notice
          /\ \A k \in 1 .. N : Batch(c)[1 + k] = ItemOf(k)
        <3> DEFINE tail == Replay(c)
        <3>1. Len(tail) = N /\ \A k \in 1 .. N : tail[k] = ItemOf(k)
            BY <1>8
        <3>s. head \in Seq(Offerable) /\ tail \in Seq(Offerable)
            BY <1>8, <2>5
        <3>2. Batch(c) = head \o tail
            BY <2>6
        <3> HIDE DEF tail
        <3>3. /\ head \o tail \in Seq(Offerable)
              /\ Len(head \o tail) = Len(head) + Len(tail)
              /\ \A i \in 1 .. Len(head) : (head \o tail)[i] = head[i]
              /\ \A k \in 1 .. Len(tail) : (head \o tail)[Len(head) + k] = tail[k]
            <4>1. ASSUME NEW s \in Seq(Offerable), NEW t \in Seq(Offerable)
                  PROVE  /\ s \o t \in Seq(Offerable)
                         /\ Len(s \o t) = Len(s) + Len(t)
                         /\ \A i \in 1 .. Len(s) : (s \o t)[i] = s[i]
                         /\ \A k \in 1 .. Len(t) : (s \o t)[Len(s) + k] = t[k]
                BY Appended
            <4> QED BY <3>s, <4>1
        <3> QED BY <2>5, <3>1, <3>2, <3>3
    <2> QED BY <1>3, <2>1, <2>7 DEF ItemOf, notice
<1> QED BY <1>1, <1>10, <1>11

\* The batch of a scope whose log no longer changes: binding a ring adds nothing.
LEMMA BatchKept ==
    ASSUME TypeOK, TypeOK', Rings, Grows, NEW c \in ScopeId, log'[c] = log[c],
           pool[c] # "none" => pool'[c] = pool[c]
    PROVE  Batch(c)' = Batch(c)
<1>1. CASE pool[c] = "none"
    <2>1. Batch(c) = <<>> /\ log'[c] = <<>>
        BY <1>1 DEF Batch, Rings
    <2>2. CASE pool'[c] = "none"
        BY <2>1, <2>2 DEF Batch
    <2>3. CASE pool'[c] # "none"
        <3>1. pool'[c] \in Adapter
            BY <2>3 DEF TypeOK
        <3>2. Len(<<>>) = 0 /\ Capacity(c)' \in Nat
            BY <3>1, SettingFacts, EmptySeq DEF Capacity
        <3>3. Lost(c)' = 0
            BY <2>1, <3>2 DEF Lost
        <3>4. Newest(c)' = <<>>
            BY <2>1, <3>2, <3>3 DEF Newest
        <3>5. Notice(c)' = <<>>
            BY <3>3 DEF Notice
        <3>6. Replay(c)' = <<>>
            BY <3>2, <3>4 DEF Replay
        <3>7. Batch(c)' = Notice(c)' \o Replay(c)'
            BY <2>3 DEF Batch
        <3>8. <<>> \o <<>> = <<>>
            OBVIOUS
        <3> QED BY <2>1, <3>5, <3>6, <3>7, <3>8
    <2> QED BY <2>2, <2>3
<1>2. CASE pool[c] # "none"
    <2>1. pool[c] \in Adapter /\ pool'[c] = pool[c]
        BY <1>2 DEF TypeOK
    <2>2. Lost(c)' = Lost(c) /\ Newest(c)' = Newest(c)
        BY <2>1 DEF Lost, Newest, Capacity
    <2>3. /\ Newest(c) \in Seq(DOMAIN records) /\ Len(log[c]) \in Nat
          /\ Lost(c) \in 0 .. Len(log[c]) /\ Len(Newest(c)) = Len(log[c]) - Lost(c)
          /\ log[c] # <<>> => Len(Newest(c)) >= 1
        BY <2>1, NewestFacts
    <2>4. \A i \in 1 .. Len(Newest(c)) : records'[Newest(c)[i]] = records[Newest(c)[i]]
        BY <2>3, ElementOfSeq DEF Grows
    <2>5. Replay(c)' = Replay(c)
        BY <2>2, <2>4 DEF Replay
    <2>6. Notice(c)' = Notice(c)
        <3>1. CASE Lost(c) = 0
            BY <2>2, <3>1 DEF Notice
        <3>2. CASE Lost(c) # 0
            <4> DEFINE S == DOMAIN records
            <4>1. Newest(c) \in Seq(S) /\ Newest(c) # <<>> /\ 1 \in 1 .. Len(Newest(c))
                BY <2>3, <3>2, EmptySeq
            <4> HIDE DEF S
            <4>2. Head(Newest(c)) = Newest(c)[1]
                BY <4>1, HeadTailProperties
            <4>3. records'[Head(Newest(c))] = records[Head(Newest(c))]
                BY <2>4, <4>1, <4>2
            <4> QED BY <2>2, <4>3 DEF Notice
        <3> QED BY <3>1, <3>2
    <2> QED BY <2>1, <2>5, <2>6 DEF Batch
<1> QED BY <1>1, <1>2

\* What was offered stays due, and nothing that was not due is added.
LEMMA PassedKept ==
    ASSUME TypeOK, Passed, Grows, \A r \in passed' : r \in passed \/ Due(r)'
    PROVE  Passed'
BY DueKept DEF TypeOK, Passed

\* What a goroutine that flushes is up to stays so.
LEMMA EmittingKept ==
    ASSUME TypeOK, Emitting, Grows,
           \A p \in Proc :
               \/ emitting'[p] = emitting[p]
                  /\ (admitted'[p] = admitted[p] \/ admitted'[p] = NoRecord)
               \/ Flushing(p)'
    PROVE  Emitting'
<1> SUFFICES ASSUME NEW p \in Proc, emitting'[p] = emitting[p],
                    admitted'[p] = admitted[p] \/ admitted'[p] = NoRecord,
                    emitting[p].scope # NoScope
             PROVE  Flushing(p)'
    BY DEF Emitting, Flushing
<1>1. /\ admitted[p] = NoRecord /\ HasTripped(emitting[p].scope)
      /\ emitting[p].record # 0 =>
             /\ AtLevel(records[emitting[p].record])
             /\ records[emitting[p].record].when = "before"
    BY DEF Emitting, Flushing
<1>2. /\ emitting[p].scope \in ScopeId /\ emitting[p].record \in 0 .. Len(records)
      /\ records \in Seq(Record)
    BY DEF TypeOK
<1>3. emitting[p].record # 0 => emitting[p].record \in DOMAIN records
    BY <1>2, LenProperties
<1>4. emitting[p].record # 0 =>
          records'[emitting[p].record] = records[emitting[p].record]
    BY <1>3 DEF Grows
<1>5. HasTripped(emitting[p].scope)'
    BY <1>1, <1>2 DEF Grows, HasTripped
<1> QED BY <1>1, <1>4, <1>5 DEF Flushing, AtLevel

\* A flush that a step neither advances nor ends.
LEMMA FlushedKept ==
    ASSUME TypeOK, TypeOK', Rings, Flushed, Grows, flushed' = flushed,
           \A c \in ScopeId :
               /\ HasTripped(c) => log'[c] = log[c]
               /\ pool[c] # "none" => pool'[c] = pool[c]
               /\ FlushOver(c)' => FlushOver(c)
    PROVE  Flushed'
<1> SUFFICES ASSUME NEW c \in ScopeId
             PROVE  /\ ~HasTripped(c)' => flushed[c] = <<>>
                    /\ \A i \in DOMAIN flushed[c] :
                           i \in DOMAIN Batch(c)' /\ flushed[c][i] = Batch(c)'[i]
                    /\ FlushOver(c)' => Len(flushed[c]) = Len(Batch(c)')
    BY DEF Flushed
<1>1. CASE HasTripped(c)
    <2>1. Batch(c)' = Batch(c) /\ HasTripped(c)'
        BY <1>1, BatchKept DEF Grows
    <2> QED BY <2>1 DEF Flushed
<1>2. CASE ~HasTripped(c)
    <2>1. flushed[c] = <<>> /\ DOMAIN flushed[c] = {} /\ ~FlushOver(c)
        BY <1>2 DEF Flushed, FlushOver
    <2> QED BY <2>1
<1> QED BY <1>1, <1>2

\* The ranges that depend on the history grow with it.
LEMMA RangesGrow ==
    ASSUME TypeOK, NEW p \in Proc, NEW when \in {"before", "after", "alone"},
           Handled(p, when)
    PROVE  /\ \A c \in ScopeId : granted[c] \in 0 .. Len(records) /\ granted[c] \in 0 .. Len(records')
           /\ \A c \in ScopeId : log[c] \in Seq(DOMAIN records')
           /\ Len(records') = Len(records) + 1 /\ Len(records) \in Nat
           /\ granted \in [ScopeId -> 0 .. Len(records')]
           /\ log \in [ScopeId -> Seq(DOMAIN records')]
           /\ emitting \in [Proc -> [scope : ScopeId \cup {NoScope}, record : 0 .. Len(records')]]
<1>1. /\ Len(records) \in Nat /\ Len(records') = Len(records) + 1
      /\ DOMAIN records = 1 .. Len(records) /\ DOMAIN records' = 1 .. Len(records) + 1
    BY RecordsGrow
<1>2. DOMAIN records \subseteq DOMAIN records'
    BY <1>1
<1>3. \A c \in ScopeId : log[c] \in Seq(DOMAIN records')
    BY <1>2, SeqMonotonic DEF TypeOK
<1>4. log \in [ScopeId -> Seq(DOMAIN records')]
    BY <1>3 DEF TypeOK
<1>5. 0 .. Len(records) \subseteq 0 .. Len(records')
    BY <1>1
<1>6. \A c \in ScopeId : granted[c] \in 0 .. Len(records) /\ granted[c] \in 0 .. Len(records')
    BY <1>5 DEF TypeOK
<1>7. granted \in [ScopeId -> 0 .. Len(records')]
    BY <1>6 DEF TypeOK
<1>8. emitting \in [Proc -> [scope : ScopeId \cup {NoScope}, record : 0 .. Len(records')]]
    <2>1. [scope : ScopeId \cup {NoScope}, record : 0 .. Len(records)]
          \subseteq [scope : ScopeId \cup {NoScope}, record : 0 .. Len(records')]
        BY <1>5
    <2> QED BY <2>1 DEF TypeOK
<1> QED BY <1>1, <1>3, <1>4, <1>6, <1>7, <1>8

\* Types, after a record was handled.
LEMMA HandledTypes ==
    ASSUME TypeOK, NEW p \in Proc, NEW when \in {"before", "after", "alone"},
           Handled(p, when),
           {closed', preTripped', tripped'} \subseteq [ScopeId -> BOOLEAN],
           pool' \in [ScopeId -> Adapter \cup {"none"}],
           granted' \in [ScopeId -> 0 .. Len(records')],
           log' \in [ScopeId -> Seq(DOMAIN records')],
           emitting' \in [Proc -> [scope : ScopeId \cup {NoScope}, record : 0 .. Len(records')]],
           flushed' = flushed, passed' = passed \/ Offer
    PROVE  TypeOK'
<1>1. /\ UNCHANGED <<opened, stack, core>>
      /\ admitted' \in [Proc -> [via : Adapter, level : Level, scope : 0 .. opened]
                                \cup {NoRecord}]
      /\ records' \in Seq(Record)
      /\ DOMAIN records = 1 .. Len(records) /\ DOMAIN records' = 1 .. This
      /\ This = Len(records) + 1 /\ Len(records) \in Nat
    BY RecordsGrow
<1>2. passed' \subseteq DOMAIN records'
    BY <1>1 DEF TypeOK, Offer
<1>3. admitted' \in [Proc -> [via : Adapter, level : Level, scope : 0 .. opened']
                                \cup {NoRecord}]
    BY <1>1
<1>4. /\ opened' \in 0 .. MaxScopes /\ core' \in [Proc -> 0 .. opened']
      /\ stack' \in [Proc -> Seq([ctx : 0 .. opened', owns : BOOLEAN])]
      /\ \A q \in Proc : stack'[q] # <<>>
    BY <1>1 DEF TypeOK
<1> QED BY <1>1, <1>2, <1>3, <1>4 DEF TypeOK

\* Logging opens and ends nothing.
LEMMA CallsKept ==
    ASSUME Calls, OneScopePerOperation, UNCHANGED <<opened, stack, closed>>
    PROVE  Calls' /\ OneScopePerOperation'
BY DEF Calls, OneScopePerOperation, Live

\* What was offered of the records, when at most the one handled is offered.
LEMMA OfferedKept ==
    ASSUME IInv, NEW p \in Proc, NEW when \in {"before", "after", "alone"},
           Handled(p, when), passed' = passed \/ Offer,
           \/ passed' = passed
           \/ AtLevel(admitted[p])
           \/ when = "after" /\ \E c \in ScopeId : c = admitted[p].scope /\ HasTripped(c),
           \A c \in ScopeId : HasTripped(c) => HasTripped(c)'
    PROVE  Grows /\ Passed'
<1>0. TypeOK /\ Passed
    BY DEF IInv
<1>r. /\ DOMAIN records = 1 .. Len(records) /\ DOMAIN records' = 1 .. This
      /\ This = Len(records) + 1 /\ Len(records) \in Nat
      /\ \A r \in DOMAIN records : records'[r] = records[r]
      /\ records'[This] = [via |-> admitted[p].via, level |-> admitted[p].level,
                           scope |-> admitted[p].scope, when |-> when]
    BY <1>0, RecordsGrow
<1>1. Grows
    BY <1>r DEF Grows
<1>2. ASSUME AtLevel(admitted[p]) \/
             (when = "after" /\ \E c \in ScopeId : c = admitted[p].scope /\ HasTripped(c)),
             NEW r, r = This
      PROVE  Due(r)'
    <2>1. /\ records'[r].scope = admitted[p].scope /\ records'[r].when = when
          /\ AtLevel(records'[r]) <=> AtLevel(admitted[p])
        BY <1>r, <1>2 DEF AtLevel
    <2>2. AtLevel(records[r])' <=> AtLevel(records'[r])
        BY DEF AtLevel
    <2> QED BY <1>2, <2>1, <2>2 DEF Due
<1>3. \A r \in passed' : r \in passed \/ (r = This /\ passed' # passed)
    BY DEF Offer
<1>4. \A r \in passed' : r \in passed \/ Due(r)'
    BY <1>2, <1>3
<1> QED BY <1>0, <1>1, <1>4, PassedKept

\* The goroutine that handles a record flushes nothing meanwhile.
LEMMA HandledEmitting ==
    ASSUME IInv, NEW p \in Proc, NEW when \in {"before", "after", "alone"},
           Handled(p, when), Grows, emitting' = emitting
    PROVE  Emitting'
<1>1. \A q \in Proc : admitted'[q] = admitted[q] \/ admitted'[q] = NoRecord
    BY DEF Handled, IInv, TypeOK
<1> QED BY <1>1, EmittingKept DEF IInv

\* The budget, when the record handled does not draw on it.
LEMMA BudgetKept ==
    ASSUME IInv,
           \A c \in ScopeId :
               /\ After(c)' = After(c)
               /\ pool[c] # "none" => pool'[c] = pool[c]
               /\ \A r \in After(c) : r \in passed' <=> r \in passed,
           pool' \in [ScopeId -> Adapter \cup {"none"}],
           granted' = granted
    PROVE  Charged'
<1>0. TypeOK /\ Rings /\ Charged
    BY DEF IInv
<1>1. ASSUME NEW c \in ScopeId
      PROVE  /\ pool'[c] = "none" => After(c)' = {}
             /\ pool'[c] # "none" /\ Setting[pool'[c]].limit > 0 =>
                    /\ granted'[c] = IF Cardinality(After(c)') <= Setting[pool'[c]].limit
                                     THEN Cardinality(After(c)') ELSE Setting[pool'[c]].limit
                    /\ \A r \in After(c)' :
                           r \in passed' <=> Cardinality({s \in After(c)' : s <= r})
                                              <= Setting[pool'[c]].limit
    <2>1. /\ After(c)' = After(c)
          /\ pool[c] # "none" => pool'[c] = pool[c]
        OBVIOUS
    <2>2. CASE pool[c] = "none"
        <3>1. After(c) = {} /\ granted[c] = 0
            BY <1>0, <2>2 DEF Charged, Rings
        <3>2. pool'[c] # "none" => Setting[pool'[c]].limit \in Nat
            BY SettingFacts
        <3>3. Cardinality({}) = 0
            BY FS_EmptySet
        <3> QED BY <2>1, <3>1, <3>2, <3>3
    <2>3. CASE pool[c] # "none"
        <3>1. pool'[c] = pool[c] /\ granted'[c] = granted[c]
            BY <2>3
        <3>2. Setting[pool[c]].limit > 0 =>
                 /\ granted[c] = IF Cardinality(After(c)) <= Setting[pool[c]].limit
                                 THEN Cardinality(After(c)) ELSE Setting[pool[c]].limit
                 /\ \A r \in After(c) :
                        r \in passed <=> Cardinality({s \in After(c) : s <= r})
                                          <= Setting[pool[c]].limit
            BY <1>0, <2>3 DEF Charged
        <3>3. \A r \in After(c) : r \in passed' <=> r \in passed
            OBVIOUS
        <3> QED BY <2>1, <2>3, <3>1, <3>2, <3>3
    <2> QED BY <2>2, <2>3
<1> QED BY <1>1 DEF Charged

-----------------------------------------------------------------------------
(* Steps that handle a record and trip nothing.                               *)

\* Records that the level decides, without a live scope or in one that has not
\* tripped.
LEMMA PassStep ==
    ASSUME IInv, NEW p \in Proc, HandleUnscoped(p) \/ HandleAtLevel(p)
    PROVE  IInv'
<1>0. TypeOK /\ Calls /\ OneScopePerOperation /\ Rings /\ Logged
    BY DEF IInv
<1>1. PICK when \in {"before", "after", "alone"} :
          /\ Handled(p, when) /\ when # "after"
          /\ when = "before" => AtLevel(admitted[p])
    BY DEF HandleUnscoped, HandleAtLevel
<1>2. UNCHANGED <<closed, preTripped, pool, tripped, granted, log>>
    BY DEF HandleUnscoped, HandleAtLevel, carrierVars, ringVars
<1>o. /\ passed' = passed \/ Offer
      /\ flushed' = flushed /\ emitting' = emitting
    BY DEF HandleUnscoped, HandleAtLevel
<1>l. passed' = passed \/ AtLevel(admitted[p])
    BY DEF HandleUnscoped, HandleAtLevel
<1>3. UNCHANGED <<opened, stack, core>>
    BY <1>0, <1>1, RecordsGrow
<1>4. TypeOK'
    <2>1. emitting' \in [Proc -> [scope : ScopeId \cup {NoScope}, record : 0 .. Len(records')]]
        BY <1>0, <1>1, <1>o, RangesGrow
    <2>2. /\ {closed', preTripped', tripped'} \subseteq [ScopeId -> BOOLEAN]
          /\ pool' \in [ScopeId -> Adapter \cup {"none"}]
        BY <1>0, <1>2 DEF TypeOK
    <2>3. /\ granted' \in [ScopeId -> 0 .. Len(records')]
          /\ log' \in [ScopeId -> Seq(DOMAIN records')]
        BY <1>0, <1>1, <1>2, RangesGrow
    <2> QED BY <1>0, <1>1, <1>o, <2>1, <2>2, <2>3, HandledTypes
<1>5. Calls' /\ OneScopePerOperation'
    BY <1>0, <1>2, <1>3, CallsKept
<1>6. \A c : HasTripped(c)' <=> HasTripped(c)
    BY <1>2 DEF HasTripped
<1>7. ASSUME NEW c \in ScopeId
      PROVE  Buffered(c)' = Buffered(c) /\ After(c)' = After(c) /\ This \notin After(c)
    BY <1>0, <1>1, HistoryGrows
<1>8. Rings'
    BY <1>0, <1>2 DEF Rings
<1>9. Logged'
    BY <1>0, <1>2, <1>7 DEF Logged
<1>10. Grows /\ Passed'
    BY <1>1, <1>o, <1>l, <1>6, OfferedKept
<1>11. Emitting'
    BY <1>1, <1>o, <1>10, HandledEmitting
<1>12. Flushed'
    <2>1. \A c \in ScopeId : FlushOver(c)' => FlushOver(c)
        BY <1>o, <1>6 DEF FlushOver
    <2> QED BY <1>0, <1>2, <1>4, <1>o, <1>10, <2>1, FlushedKept DEF IInv
<1>13. Charged'
    <2>1. \A c \in ScopeId :
               /\ After(c)' = After(c)
               /\ pool[c] # "none" => pool'[c] = pool[c]
               /\ \A r \in After(c) : r \in passed' <=> r \in passed
        BY <1>2, <1>7, <1>o DEF Offer
    <2>2. pool' \in [ScopeId -> Adapter \cup {"none"}] /\ granted' = granted
        BY <1>0, <1>2 DEF TypeOK
    <2> QED BY <2>1, <2>2, BudgetKept
<1> QED BY <1>4, <1>5, <1>8, <1>9, <1>10, <1>11, <1>12, <1>13 DEF IInv

\* A record below the level goes to the end of its scope's log, whichever adapter
\* it came through.
LEMMA BuffersStep ==
    ASSUME IInv, NEW p \in Proc, HandleBuffers(p)
    PROVE  IInv'
<1>0. TypeOK /\ Calls /\ OneScopePerOperation /\ Rings /\ Logged
    BY DEF IInv
<1> DEFINE c == admitted[p].scope
           a == admitted[p].via
           n == Len(records) + 1
<1>1. /\ Handled(p, "before") /\ Live(c) /\ ~AtLevel(admitted[p]) /\ ~HasTripped(c)
      /\ pool' = [pool EXCEPT ![c] = Binder(c, a)]
      /\ tripped' = [tripped EXCEPT ![c] = HasTripped(c)]
      /\ log' = [log EXCEPT ![c] = Append(@, n)]
      /\ UNCHANGED <<closed, preTripped, granted, emitting, flushed, passed>>
    BY DEF HandleBuffers, Bind, carrierVars, outputVars, This
<1>2. /\ UNCHANGED <<opened, stack, core>> /\ admitted[p] # NoRecord
      /\ Len(records) \in Nat /\ DOMAIN records = 1 .. Len(records)
      /\ DOMAIN records' = 1 .. n /\ n = This
    BY <1>0, <1>1, RecordsGrow
<1>3. c \in ScopeId /\ a \in Adapter
    BY <1>0, <1>1, <1>2, AdmittedFacts, LiveIsOpened
<1>4. tripped' = tripped
    BY <1>0, <1>1, <1>3 DEF TypeOK, HasTripped
<1>5. /\ Binder(c, a) \in Adapter
      /\ pool[c] # "none" => Binder(c, a) = pool[c]
    BY <1>0, <1>3 DEF Binder, TypeOK
<1>n. "none" \notin Adapter
    BY DEF Adapter
<1>6. /\ pool' \in [ScopeId -> Adapter \cup {"none"}]
      /\ pool'[c] \in Adapter
      /\ \A d \in ScopeId : pool[d] # "none" => pool'[d] = pool[d]
      /\ \A d \in ScopeId : d # c => pool'[d] = pool[d]
    BY <1>0, <1>1, <1>3, <1>5 DEF TypeOK
<1>7. /\ \A d \in ScopeId : d # c => log'[d] = log[d]
      /\ log'[c] \in Seq(DOMAIN records')
      /\ Len(log[c]) \in Nat
      /\ DOMAIN log[c] = 1 .. Len(log[c])
      /\ DOMAIN log'[c] = 1 .. Len(log[c]) + 1
      /\ \A i \in 1 .. Len(log[c]) : log'[c][i] = log[c][i]
      /\ log'[c][Len(log[c]) + 1] = n
    <2>1. log[c] \in Seq(DOMAIN records')
        BY <1>0, <1>1, <1>3, RangesGrow
    <2>2. n \in DOMAIN records'
        BY <1>2
    <2> DEFINE S == DOMAIN records'
    <2>3. log[c] \in Seq(S) /\ n \in S
        BY <2>1, <2>2
    <2>4. log'[c] = Append(log[c], n) /\ \A d \in ScopeId : d # c => log'[d] = log[d]
        BY <1>0, <1>1, <1>3 DEF TypeOK
    <2> HIDE DEF S, n, c
    <2>5. /\ Append(log[c], n) \in Seq(S)
          /\ Len(Append(log[c], n)) = Len(log[c]) + 1
          /\ \A i \in 1 .. Len(log[c]) : Append(log[c], n)[i] = log[c][i]
          /\ Append(log[c], n)[Len(log[c]) + 1] = n
        BY <2>3, AppendProperties
    <2>6. Len(log[c]) \in Nat /\ DOMAIN log[c] = 1 .. Len(log[c])
        BY <2>3, LenProperties
    <2>7. DOMAIN Append(log[c], n) = 1 .. Len(log[c]) + 1
        BY <2>5, LenProperties
    <2> QED BY <2>4, <2>5, <2>6, <2>7 DEF S
<1>8. TypeOK'
    <2>1. emitting' \in [Proc -> [scope : ScopeId \cup {NoScope}, record : 0 .. Len(records')]]
        BY <1>0, <1>1, RangesGrow
    <2>2. {closed', preTripped', tripped'} \subseteq [ScopeId -> BOOLEAN]
        BY <1>0, <1>1, <1>4, ZenonT(60) DEF TypeOK
    <2>3. granted' \in [ScopeId -> 0 .. Len(records')]
        BY <1>0, <1>1, RangesGrow
    <2>4. log' \in [ScopeId -> Seq(DOMAIN records')]
        <3>1. \A d \in ScopeId : log'[d] \in Seq(DOMAIN records')
            BY <1>0, <1>1, <1>7, RangesGrow
        <3>2. DOMAIN log' = ScopeId /\ log' = [d \in ScopeId |-> log'[d]]
            BY <1>0, <1>1 DEF TypeOK
        <3> QED BY <3>1, <3>2
    <2> QED BY <1>0, <1>1, <1>6, <2>1, <2>2, <2>3, <2>4, HandledTypes
<1>9. Calls' /\ OneScopePerOperation'
    BY <1>0, <1>1, <1>2, CallsKept
<1>10. \A d : HasTripped(d)' <=> HasTripped(d)
    BY <1>1, <1>4 DEF HasTripped
<1>11. ASSUME NEW d \in ScopeId
       PROVE  /\ Buffered(d)' = IF d = c THEN Buffered(d) \cup {n} ELSE Buffered(d)
              /\ After(d)' = After(d) /\ n \notin After(d)
              /\ Buffered(d) \subseteq 1 .. Len(records)
    BY <1>0, <1>1, <1>2, HistoryGrows
<1>12. Rings'
    <2>1. ~preTripped[c]
        BY <1>1 DEF HasTripped
    <2> QED BY <1>0, <1>1, <1>n, <1>4, <1>6, <1>7, <2>1 DEF Rings
<1>13. Logged'
    <2> SUFFICES ASSUME NEW d \in ScopeId
                 PROVE  /\ \A r \in Nat : r \in Buffered(d)' <=>
                                 \E i \in DOMAIN log'[d] : log'[d][i] = r
                        /\ \A i, j \in DOMAIN log'[d] : i < j => log'[d][i] < log'[d][j]
        BY DEF Logged
    <2>1. /\ \A r \in Nat : r \in Buffered(d) <=> \E i \in DOMAIN log[d] : log[d][i] = r
          /\ \A i, j \in DOMAIN log[d] : i < j => log[d][i] < log[d][j]
        BY <1>0 DEF Logged
    <2>2. CASE d # c
        <3>1. Buffered(d)' = Buffered(d) /\ log'[d] = log[d]
            BY <1>7, <1>11, <2>2
        <3> QED BY <2>1, <3>1
    <2>3. CASE d = c
        <3>1. Buffered(d)' = Buffered(d) \cup {n}
            BY <1>11, <2>3
        <3>2. ASSUME NEW i \in DOMAIN log'[d]
              PROVE  \/ i \in DOMAIN log[d] /\ log'[d][i] = log[d][i]
                     \/ i = Len(log[d]) + 1 /\ log'[d][i] = n
            <4>1. i \in 1 .. Len(log[c]) \/ i = Len(log[c]) + 1
                BY <1>7, <2>3
            <4>2. CASE i \in 1 .. Len(log[c])
                BY <1>7, <2>3, <4>2
            <4>3. CASE i = Len(log[c]) + 1
                BY <1>7, <2>3, <4>3
            <4> QED BY <4>1, <4>2, <4>3
        <3>3. \A i \in DOMAIN log[d] : i \in DOMAIN log'[d] /\ log'[d][i] = log[d][i]
            <4>1. \A i \in 1 .. Len(log[c]) : i \in 1 .. Len(log[c]) + 1
                BY <1>7
            <4> QED BY <1>7, <2>3, <4>1
        <3>4. Len(log[d]) + 1 \in DOMAIN log'[d] /\ log'[d][Len(log[d]) + 1] = n
            BY <1>7, <2>3
        <3>5. \A r \in Nat : r \in Buffered(d)' <=> \E i \in DOMAIN log'[d] : log'[d][i] = r
            BY <2>1, <3>1, <3>2, <3>3, <3>4
        <3>6. ASSUME NEW i \in DOMAIN log'[d], NEW j \in DOMAIN log'[d], i < j
              PROVE  log'[d][i] < log'[d][j]
            <4>1. i \in DOMAIN log[d] /\ log'[d][i] = log[d][i]
                BY <1>7, <2>3, <3>6, SMTT(30)
            <4>2. log[d][i] \in 1 .. Len(records)
                <5>1. log[d] \in Seq(DOMAIN records)
                    BY <1>0 DEF TypeOK
                <5>2. DOMAIN log[d] = 1 .. Len(log[d])
                    BY <1>7, <2>3
                <5>3. log[d][i] \in DOMAIN records
                    BY <4>1, <5>1, <5>2, ElementOfSeq
                <5> QED BY <1>2, <5>3
            <4>3. CASE j \in DOMAIN log[d] /\ log'[d][j] = log[d][j]
                BY <2>1, <3>6, <4>1, <4>3
            <4>4. CASE log'[d][j] = n
                BY <1>2, <4>1, <4>2, <4>4
            <4> QED BY <3>2, <4>3, <4>4
        <3> QED BY <3>5, <3>6
    <2> QED BY <2>2, <2>3
<1>14. Grows /\ Passed'
    BY <1>1, <1>10, OfferedKept
<1>15. Emitting'
    BY <1>1, <1>14, HandledEmitting
<1>16. Flushed'
    <2>1. \A d \in ScopeId : /\ HasTripped(d) => log'[d] = log[d]
                             /\ pool[d] # "none" => pool'[d] = pool[d]
                             /\ FlushOver(d)' => FlushOver(d)
        <3>1. \A d \in ScopeId : HasTripped(d) => d # c
            BY <1>1
        <3>2. \A d \in ScopeId : FlushOver(d)' => FlushOver(d)
            BY <1>1, <1>10 DEF FlushOver
        <3> QED BY <1>6, <1>7, <3>1, <3>2
    <2> QED BY <1>0, <1>1, <1>8, <1>14, <2>1, FlushedKept DEF IInv
<1>17. Charged'
    <2>1. \A d \in ScopeId :
               /\ After(d)' = After(d)
               /\ pool[d] # "none" => pool'[d] = pool[d]
               /\ \A r \in After(d) : r \in passed' <=> r \in passed
        BY <1>1, <1>6, <1>11
    <2> QED BY <1>1, <1>6, <2>1, BudgetKept
<1> QED BY <1>8, <1>9, <1>12, <1>13, <1>14, <1>15, <1>16, <1>17 DEF IInv

\* The records after a trip, counted.
LEMMA AfterIsFinite ==
    ASSUME TypeOK, NEW c
    PROVE  /\ IsFiniteSet(After(c)) /\ Cardinality(After(c)) \in Nat
           /\ After(c) \subseteq 1 .. Len(records) /\ Len(records) \in Nat
<1>1. Len(records) \in Nat /\ DOMAIN records = 1 .. Len(records)
    <2>1. records \in Seq(Record)
        BY DEF TypeOK
    <2> QED BY <2>1, LenProperties
<1>2. IsFiniteSet(1 .. Len(records))
    BY <1>1, FS_Interval
<1>3. After(c) \subseteq 1 .. Len(records)
    BY <1>1 DEF After
<1>4. IsFiniteSet(After(c))
    BY <1>2, <1>3, FS_Subset
<1> QED BY <1>1, <1>3, <1>4, FS_CardinalityType

\* A record of a tripped scope draws on the budget of the ring, which the adapter
\* it came through makes if no record was buffered before the trip.
LEMMA TrippedStep ==
    ASSUME IInv, NEW p \in Proc, HandleTripped(p)
    PROVE  IInv'
<1>0. TypeOK /\ Calls /\ OneScopePerOperation /\ Rings /\ Logged /\ Charged
    BY DEF IInv
<1>p. admitted[p] # NoRecord /\ Live(admitted[p].scope) /\ Len(records) \in Nat
    <2>1. Handled(p, "after") /\ Live(admitted[p].scope)
        BY DEF HandleTripped
    <2> QED BY <1>0, <2>1, RecordsGrow
<1>c. admitted[p].scope \in ScopeId /\ admitted[p].via \in Adapter
    BY <1>0, <1>p, AdmittedFacts, LiveIsOpened
<1>d. PICK c \in ScopeId, a \in Adapter, n \in Nat :
          c = admitted[p].scope /\ a = admitted[p].via /\ n = Len(records) + 1
    BY <1>c, <1>p
<1>1. /\ Handled(p, "after") /\ Live(c) /\ HasTripped(c)
      /\ pool' = [pool EXCEPT ![c] = Binder(c, a)]
      /\ tripped' = [tripped EXCEPT ![c] = HasTripped(c)]
      /\ UNCHANGED <<closed, preTripped, log, emitting, flushed>>
    BY <1>d DEF HandleTripped, Bind, carrierVars
<1>2. /\ UNCHANGED <<opened, stack, core>> /\ admitted[p] # NoRecord
      /\ Len(records) \in Nat /\ DOMAIN records = 1 .. Len(records)
      /\ DOMAIN records' = 1 .. n /\ n = This /\ n = Len(records) + 1
    BY <1>0, <1>1, <1>d, RecordsGrow
<1>3. c \in ScopeId /\ a \in Adapter
    OBVIOUS
<1>4. /\ tripped' \in [ScopeId -> BOOLEAN] /\ tripped'[c]
      /\ \A d \in ScopeId : d # c => tripped'[d] = tripped[d]
    BY <1>0, <1>1, <1>3 DEF TypeOK, HasTripped
<1>5. /\ Binder(c, a) \in Adapter
      /\ pool[c] # "none" => Binder(c, a) = pool[c]
    BY <1>0, <1>3 DEF Binder, TypeOK
<1>n. "none" \notin Adapter
    BY DEF Adapter
<1>6. /\ pool' \in [ScopeId -> Adapter \cup {"none"}]
      /\ pool'[c] = Binder(c, a)
      /\ pool'[c] \in Adapter
      /\ \A d \in ScopeId : pool[d] # "none" => pool'[d] = pool[d]
      /\ \A d \in ScopeId : d # c => pool'[d] = pool[d]
    BY <1>0, <1>1, <1>3, <1>5 DEF TypeOK
<1>7. ASSUME NEW d \in ScopeId PROVE HasTripped(d)' <=> HasTripped(d)
    <2>1. HasTripped(d)' <=> preTripped[d] \/ tripped'[d]
        BY <1>1 DEF HasTripped
    <2>2. CASE d = c
        BY <1>1, <1>4, <2>1, <2>2
    <2>3. CASE d # c
        BY <1>4, <2>1, <2>3 DEF HasTripped
    <2> QED BY <2>2, <2>3
<1>8. \/ Spent(c, a) /\ granted' = granted /\ passed' = passed
      \/ ~Spent(c, a) /\ granted' = [granted EXCEPT ![c] = @ + 1] /\ Offer
    BY <1>d DEF HandleTripped
<1>9. /\ granted[c] \in 0 .. Len(records)
      /\ granted'[c] = IF Spent(c, a) THEN granted[c] ELSE granted[c] + 1
      /\ \A d \in ScopeId : d # c => granted'[d] = granted[d]
      /\ granted' \in [ScopeId -> 0 .. Len(records')]
    <2>1. /\ granted \in [ScopeId -> 0 .. Len(records')]
          /\ granted[c] \in 0 .. Len(records) /\ Len(records') = Len(records) + 1
        BY <1>0, <1>1, <1>3, RangesGrow
    <2>2. granted[c] + 1 \in 0 .. Len(records')
        BY <1>2, <2>1
    <2> QED BY <1>3, <1>8, <2>1, <2>2
<1>10. TypeOK'
    <2>1. emitting' \in [Proc -> [scope : ScopeId \cup {NoScope}, record : 0 .. Len(records')]]
        BY <1>0, <1>1, RangesGrow
    <2>2. {closed', preTripped', tripped'} \subseteq [ScopeId -> BOOLEAN]
        BY <1>0, <1>1, <1>4 DEF TypeOK
    <2>3. log' \in [ScopeId -> Seq(DOMAIN records')]
        BY <1>0, <1>1, RangesGrow
    <2> QED BY <1>0, <1>1, <1>6, <1>8, <1>9, <2>1, <2>2, <2>3, HandledTypes
<1>11. Calls' /\ OneScopePerOperation'
    BY <1>0, <1>1, <1>2, CallsKept
<1>12. ASSUME NEW d \in ScopeId
       PROVE  /\ Buffered(d)' = Buffered(d)
              /\ After(d)' = IF d = c THEN After(d) \cup {n} ELSE After(d)
              /\ n \notin After(d)
    BY <1>0, <1>1, <1>2, <1>d, HistoryGrows
<1>13. Rings'
    <2> SUFFICES ASSUME NEW d \in ScopeId
                 PROVE  /\ pool'[d] = "none" =>
                               log'[d] = <<>> /\ ~tripped'[d] /\ granted'[d] = 0
                        /\ preTripped'[d] => log'[d] = <<>>
                        /\ preTripped'[d] /\ pool'[d] # "none" => tripped'[d]
        BY DEF Rings
    <2>1. CASE d = c
        BY <1>0, <1>1, <1>n, <1>4, <1>6, <2>1 DEF Rings
    <2>2. CASE d # c
        BY <1>0, <1>1, <1>4, <1>6, <1>9, <2>2 DEF Rings
    <2> QED BY <2>1, <2>2
<1>14. Logged'
    BY <1>0, <1>1, <1>12 DEF Logged
<1>15. Grows /\ Passed'
    <2>1. \E d \in ScopeId : d = admitted[p].scope /\ HasTripped(d)
        BY <1>1, <1>d
    <2> QED BY <1>1, <1>7, <1>8, <2>1, OfferedKept
<1>e. Emitting'
    BY <1>1, <1>15, HandledEmitting
<1>16. Flushed'
    <2>1. \A d \in ScopeId : FlushOver(d)' => FlushOver(d)
        BY <1>1, <1>7 DEF FlushOver
    <2> QED BY <1>0, <1>1, <1>6, <1>10, <1>15, <2>1, FlushedKept DEF IInv
<1> DEFINE limit == Setting[Binder(c, a)].limit
           k == Cardinality(After(c))
<1>17. /\ IsFiniteSet(After(c)) /\ k \in Nat /\ After(c) \subseteq 1 .. Len(records)
    BY <1>0, AfterIsFinite
<1>18. /\ limit \in Nat
       /\ limit > 0 => granted[c] = IF k <= limit THEN k ELSE limit
    <2>1. limit \in Nat
        BY <1>5, SettingFacts
    <2>2. CASE pool[c] = "none"
        <3>1. After(c) = {} /\ granted[c] = 0
            BY <1>0, <1>3, <2>2 DEF Charged, Rings
        <3>2. k = 0
            BY <3>1, FS_EmptySet
        <3> QED BY <2>1, <3>1, <3>2
    <2>3. CASE pool[c] # "none"
        <3>1. Binder(c, a) = pool[c]
            BY <1>5, <2>3
        <3> QED BY <1>0, <1>3, <2>1, <2>3, <3>1 DEF Charged
    <2> QED BY <2>1, <2>2, <2>3
<1>19. limit > 0 => (Spent(c, a) <=> ~(k + 1 <= limit))
    <2>1. Spent(c, a) <=> limit > 0 /\ granted[c] >= limit
        BY DEF Spent
    <2> QED BY <1>17, <1>18, <2>1
<1>20. /\ After(c)' = After(c) \cup {n}
       /\ Cardinality(After(c)') = k + 1
       /\ \A r \in After(c) : {s \in After(c)' : s <= r} = {s \in After(c) : s <= r}
       /\ {s \in After(c)' : s <= n} = After(c)'
    <2>1. After(c)' = After(c) \cup {n} /\ n \notin After(c)
        BY <1>3, <1>12
    <2>2. Cardinality(After(c) \cup {n}) = k + 1
        BY <1>17, <2>1, FS_AddElement
    <2>3. \A r \in After(c) : r \in Nat /\ r < n
        BY <1>2, <1>17
    <2>4. n \in Nat
        BY <1>2
    <2>5. \A r \in After(c) : {s \in After(c) \cup {n} : s <= r} = {s \in After(c) : s <= r}
        BY <2>3, <2>4
    <2>6. {s \in After(c) \cup {n} : s <= n} = After(c) \cup {n}
        BY <2>3, <2>4
    <2> QED BY <2>1, <2>2, <2>5, <2>6
<1>21. \A r : r # n => (r \in passed' <=> r \in passed)
    BY <1>2, <1>8 DEF Offer
<1>22. n \in passed' <=> ~Spent(c, a)
    <2>1. n \notin passed
        BY <1>0, <1>2 DEF TypeOK
    <2> QED BY <1>2, <1>8, <2>1 DEF Offer
<1>23. ASSUME NEW d \in ScopeId, pool'[d] # "none", Setting[pool'[d]].limit > 0
       PROVE  granted'[d] = IF Cardinality(After(d)') <= Setting[pool'[d]].limit
                            THEN Cardinality(After(d)') ELSE Setting[pool'[d]].limit
    <2>1. CASE d = c
        <3>1. limit > 0 => granted'[c] = IF k + 1 <= limit THEN k + 1 ELSE limit
            BY <1>2, <1>9, <1>17, <1>18, <1>19
        <3>2. pool'[c] = Binder(c, a)
            BY <1>6
        <3> QED BY <1>20, <1>23, <2>1, <3>1, <3>2
    <2>2. CASE d # c
        <3>1. pool'[d] = pool[d] /\ granted'[d] = granted[d] /\ After(d)' = After(d)
            BY <1>6, <1>9, <1>12, <2>2
        <3> QED BY <1>0, <1>23, <3>1 DEF Charged
    <2> QED BY <2>1, <2>2
<1>24. ASSUME NEW d \in ScopeId, pool'[d] # "none", Setting[pool'[d]].limit > 0,
              NEW r \in After(d)'
       PROVE  r \in passed' <=> Cardinality({s \in After(d)' : s <= r})
                                   <= Setting[pool'[d]].limit
    <2>1. CASE d = c /\ r = n
        BY <1>6, <1>19, <1>20, <1>22, <1>24, <2>1
    <2>2. CASE d = c /\ r \in After(c)
        <3>1. r # n
            BY <1>3, <1>12, <2>2
        <3>2. pool[c] # "none"
            BY <1>0, <1>3, <2>2 DEF Charged
        <3>3. pool'[c] = pool[c]
            BY <1>3, <1>6, <3>2
        <3>4. r \in passed <=> Cardinality({s \in After(c) : s <= r}) <= Setting[pool[c]].limit
            BY <1>0, <1>3, <1>24, <2>2, <3>2, <3>3 DEF Charged
        <3> QED BY <1>20, <1>21, <2>2, <3>1, <3>3, <3>4
    <2>3. CASE d # c
        <3>1. pool'[d] = pool[d] /\ After(d)' = After(d) /\ r \in After(d) /\ r # n
            BY <1>6, <1>12, <1>24, <2>3
        <3>2. r \in passed <=> Cardinality({s \in After(d) : s <= r}) <= Setting[pool[d]].limit
            BY <1>0, <1>24, <3>1 DEF Charged
        <3> QED BY <1>21, <3>1, <3>2
    <2>4. d = c => r = n \/ r \in After(c)
        BY <1>20, <1>24
    <2> QED BY <2>1, <2>2, <2>3, <2>4
<1>25. Charged'
    <2>1. ASSUME NEW d \in ScopeId, pool'[d] = "none" PROVE After(d)' = {}
        <3>1. d # c /\ pool[d] = "none"
            BY <1>n, <1>6, <2>1
        <3> QED BY <1>0, <1>12, <3>1 DEF Charged
    <2> QED BY <1>23, <1>24, <2>1 DEF Charged
<1> QED BY <1>10, <1>11, <1>13, <1>14, <1>15, <1>e, <1>16, <1>25 DEF IInv

-----------------------------------------------------------------------------
(* Steps that trip a scope.                                                   *)

\* The scope a call trips, and no other, has tripped.
LEMMA TripFlags ==
    ASSUME TypeOK, Rings, NEW p \in Proc, NEW c \in ScopeId, NEW record,
           FirstTrip(p, c, record)
    PROVE  /\ ~HasTripped(c) /\ HasTripped(c)'
           /\ \A d \in ScopeId : d # c => (HasTripped(d)' <=> HasTripped(d))
           /\ Rings'
           /\ {closed', preTripped', tripped'} \subseteq [ScopeId -> BOOLEAN]
           /\ UNCHANGED <<closed, pool, granted, log, flushed, passed>>
           /\ emitting' = [emitting EXCEPT ![p] = [scope |-> c, record |-> record]]
<1>1. /\ ~HasTripped(c)
      /\ \/ pool[c] = "none" /\ preTripped' = [preTripped EXCEPT ![c] = TRUE] /\ tripped' = tripped
         \/ pool[c] # "none" /\ tripped' = [tripped EXCEPT ![c] = TRUE] /\ preTripped' = preTripped
      /\ UNCHANGED <<closed, pool, granted, log, flushed, passed>>
      /\ emitting' = [emitting EXCEPT ![p] = [scope |-> c, record |-> record]]
    BY DEF FirstTrip, outputVars
<1>2. {closed', preTripped', tripped'} \subseteq [ScopeId -> BOOLEAN]
    BY <1>1, ZenonT(60) DEF TypeOK
<1>3. /\ preTripped'[c] \/ tripped'[c]
      /\ pool[c] = "none" => tripped'[c] = tripped[c]
      /\ pool[c] # "none" => preTripped'[c] = preTripped[c] /\ tripped'[c]
      /\ \A d \in ScopeId : d # c => preTripped'[d] = preTripped[d] /\ tripped'[d] = tripped[d]
    BY <1>1 DEF TypeOK
<1>4. \A d \in ScopeId : HasTripped(d)' <=> preTripped'[d] \/ tripped'[d]
    BY DEF HasTripped
<1>5. HasTripped(c)' /\ \A d \in ScopeId : d # c => (HasTripped(d)' <=> HasTripped(d))
    BY <1>3, <1>4 DEF HasTripped
<1>6. ASSUME NEW d \in ScopeId
      PROVE  /\ pool[d] = "none" => log[d] = <<>> /\ ~tripped'[d] /\ granted[d] = 0
             /\ preTripped'[d] => log[d] = <<>>
             /\ preTripped'[d] /\ pool[d] # "none" => tripped'[d]
    <2>1. CASE d = c
        BY <1>1, <1>3, <2>1 DEF Rings, HasTripped
    <2>2. CASE d # c
        BY <1>3, <2>2 DEF Rings
    <2> QED BY <2>1, <2>2
<1>7. Rings'
    BY <1>1, <1>6 DEF Rings
<1> QED BY <1>1, <1>2, <1>5, <1>7

\* The call that trips a scope has its batch still to emit.
LEMMA TripStep ==
    ASSUME IInv, TypeOK', NEW p \in Proc, NEW c \in ScopeId, NEW record,
           FirstTrip(p, c, record), emitting[p].scope = NoScope,
           DOMAIN records \subseteq DOMAIN records',
           \A r \in DOMAIN records : records'[r] = records[r],
           \A q \in Proc : admitted'[q] = admitted[q] \/ admitted'[q] = NoRecord,
           admitted'[p] = NoRecord,
           record # 0 => AtLevel(records'[record]) /\ records'[record].when = "before",
           \A d \in ScopeId : After(d)' = After(d)
    PROVE  Rings' /\ Passed' /\ Emitting' /\ Flushed' /\ Charged'
<1>0. TypeOK /\ Rings /\ Passed /\ Emitting /\ Flushed
    BY DEF IInv
<1>1. /\ ~HasTripped(c) /\ HasTripped(c)' /\ Rings'
      /\ \A d \in ScopeId : d # c => (HasTripped(d)' <=> HasTripped(d))
      /\ UNCHANGED <<closed, pool, granted, log, flushed, passed>>
      /\ emitting' = [emitting EXCEPT ![p] = [scope |-> c, record |-> record]]
    BY <1>0, TripFlags
<1>2. Grows
    BY <1>1 DEF Grows
<1>3. Passed'
    BY <1>0, <1>1, <1>2, PassedKept
<1>4. /\ emitting'[p].scope = c /\ emitting'[p].record = record
      /\ \A q \in Proc : q # p => emitting'[q] = emitting[q]
    BY <1>0, <1>1 DEF TypeOK
<1>5. Flushing(p)'
    <2>1. \A r : AtLevel(records[r])' <=> AtLevel(records'[r])
        BY DEF AtLevel
    <2> QED BY <1>1, <1>4, <2>1 DEF Flushing, HasTripped
<1>6. Emitting'
    BY <1>0, <1>2, <1>4, <1>5, EmittingKept
<1>7. ASSUME NEW d \in ScopeId, FlushOver(d)' PROVE FlushOver(d)
    <2>1. d # c
        BY <1>4, <1>7 DEF FlushOver
    <2>2. emitting[p].scope # d
        <3>1. d # NoScope
            BY SettingsAssumption DEF ScopeId, NoScope
        <3> QED BY <3>1
    <2> QED BY <1>1, <1>4, <1>7, <2>1, <2>2 DEF FlushOver
<1>8. Flushed'
    BY <1>0, <1>1, <1>2, <1>7, FlushedKept
<1>9. Charged'
    <2>1. pool' \in [ScopeId -> Adapter \cup {"none"}]
        BY <1>0, <1>1 DEF TypeOK
    <2> QED BY <1>1, <2>1, BudgetKept
<1> QED BY <1>1, <1>3, <1>6, <1>8, <1>9

\* A record at the trip threshold follows the batch.
LEMMA TriggerStep ==
    ASSUME IInv, NEW p \in Proc, HandleTrigger(p)
    PROVE  IInv'
<1>0. TypeOK /\ Calls /\ OneScopePerOperation /\ Rings /\ Logged
    BY DEF IInv
<1>1. /\ Handled(p, "before") /\ Live(admitted[p].scope) /\ AtTrip(admitted[p])
      /\ FirstTrip(p, admitted[p].scope, This)
    BY DEF HandleTrigger
<1>2. /\ admitted[p] # NoRecord /\ UNCHANGED <<opened, stack, core>>
      /\ Len(records) \in Nat /\ DOMAIN records = 1 .. Len(records)
      /\ DOMAIN records' = 1 .. This /\ This = Len(records) + 1
      /\ Len(records') = This
      /\ \A r \in DOMAIN records : records'[r] = records[r]
      /\ records'[This] = [via |-> admitted[p].via, level |-> admitted[p].level,
                           scope |-> admitted[p].scope, when |-> "before"]
    BY <1>0, <1>1, RecordsGrow
<1>3. /\ admitted[p].via \in Adapter /\ admitted[p].level \in Int
      /\ admitted[p].scope \in ScopeId
    <2>1. /\ admitted[p].via \in Adapter /\ admitted[p].level \in Level
          /\ admitted[p].scope \in 0 .. opened
        BY <1>0, <1>2, AdmittedFacts
    <2>2. admitted[p].scope \in ScopeId
        BY <1>0, <1>1, <2>1, LiveIsOpened
    <2>3. admitted[p].level \in Int
        BY <2>1, SettingsAssumption
    <2> QED BY <2>1, <2>2, <2>3
<1>4. AtLevel(admitted[p])
    BY <1>1, <1>3, SettingFacts DEF AtTrip, AtLevel
<1>5. PICK c \in ScopeId, record \in Nat : c = admitted[p].scope /\ record = This
    BY <1>2, <1>3
<1>6. FirstTrip(p, c, record)
    BY <1>1, <1>5
<1>7. /\ {closed', preTripped', tripped'} \subseteq [ScopeId -> BOOLEAN]
      /\ UNCHANGED <<closed, pool, granted, log, flushed, passed>>
      /\ emitting' = [emitting EXCEPT ![p] = [scope |-> c, record |-> record]]
    BY <1>0, <1>6, TripFlags
<1>8. TypeOK'
    <2>1. /\ granted' \in [ScopeId -> 0 .. Len(records')]
          /\ log' \in [ScopeId -> Seq(DOMAIN records')]
          /\ emitting \in [Proc -> [scope : ScopeId \cup {NoScope}, record : 0 .. Len(records')]]
        BY <1>0, <1>1, <1>7, RangesGrow
    <2>2. [scope |-> c, record |-> record]
          \in [scope : ScopeId \cup {NoScope}, record : 0 .. Len(records')]
        BY <1>2, <1>5
    <2>3. emitting' \in [Proc -> [scope : ScopeId \cup {NoScope}, record : 0 .. Len(records')]]
        BY <1>7, <2>1, <2>2
    <2>4. pool' \in [ScopeId -> Adapter \cup {"none"}]
        BY <1>0, <1>7 DEF TypeOK
    <2> QED BY <1>0, <1>1, <1>7, <2>1, <2>3, <2>4, HandledTypes
<1>9. Calls' /\ OneScopePerOperation'
    BY <1>0, <1>2, <1>7, CallsKept
<1>10. ASSUME NEW d \in ScopeId
       PROVE  Buffered(d)' = Buffered(d) /\ After(d)' = After(d)
    BY <1>0, <1>1, <1>4, HistoryGrows
<1>11. Logged'
    BY <1>0, <1>7, <1>10 DEF Logged
<1>12. Rings' /\ Passed' /\ Emitting' /\ Flushed' /\ Charged'
    <2>1. emitting[p].scope = NoScope
        BY <1>2 DEF IInv, Emitting, Flushing
    <2>2. /\ \A q \in Proc : admitted'[q] = admitted[q] \/ admitted'[q] = NoRecord
          /\ admitted'[p] = NoRecord
        BY <1>0, <1>1 DEF Handled, TypeOK
    <2>3. AtLevel(records'[record]) /\ records'[record].when = "before"
        BY <1>2, <1>4, <1>5 DEF AtLevel
    <2>4. DOMAIN records \subseteq DOMAIN records'
        BY <1>2
    <2> QED BY <1>2, <1>6, <1>8, <1>10, <2>1, <2>2, <2>3, <2>4, TripStep
<1> QED BY <1>8, <1>9, <1>11, <1>12 DEF IInv

\* Trip without a record: the batch alone.
LEMMA BareTripStep ==
    ASSUME IInv, NEW p \in Proc, NEW a \in Adapter, BareTrip(p, a)
    PROVE  IInv'
<1>0. TypeOK /\ Calls /\ OneScopePerOperation /\ Rings /\ Logged
    BY DEF IInv
<1>1. /\ Live(Target(p, a)) /\ FirstTrip(p, Target(p, a), 0)
      /\ admitted[p] = NoRecord /\ emitting[p] = NoFlush
      /\ UNCHANGED <<opened, stack, core, admitted, records>>
    BY DEF BareTrip, Idle, programVars
<1>2. Target(p, a) \in ScopeId
    <2>1. Target(p, a) \in 0 .. opened
        <3>1. Context(p) \in 0 .. opened /\ core[p] \in 0 .. opened
            BY <1>0, StackFacts DEF TypeOK
        <3> QED BY <3>1 DEF Target
    <2> QED BY <1>0, <1>1, <2>1, LiveIsOpened
<1>3. PICK c \in ScopeId : c = Target(p, a)
    BY <1>2
<1>4. FirstTrip(p, c, 0)
    BY <1>1, <1>3
<1>5. /\ {closed', preTripped', tripped'} \subseteq [ScopeId -> BOOLEAN]
      /\ UNCHANGED <<closed, pool, granted, log, flushed, passed>>
      /\ emitting' = [emitting EXCEPT ![p] = [scope |-> c, record |-> 0]]
    BY <1>0, <1>4, TripFlags
<1>6. TypeOK'
    <2>1. [scope |-> c, record |-> 0]
          \in [scope : ScopeId \cup {NoScope}, record : 0 .. Len(records)]
        <3>1. records \in Seq(Record)
            BY <1>0 DEF TypeOK
        <3>2. 0 \in 0 .. Len(records)
            BY <3>1, LenProperties
        <3> QED BY <3>2
    <2>2. emitting' \in [Proc -> [scope : ScopeId \cup {NoScope}, record : 0 .. Len(records)]]
        BY <1>0, <1>5, <2>1 DEF TypeOK
    <2> QED BY <1>0, <1>1, <1>5, <2>2 DEF TypeOK
<1>7. Calls' /\ OneScopePerOperation'
    BY <1>0, <1>1, <1>5, CallsKept
<1>8. \A d : Buffered(d)' = Buffered(d) /\ After(d)' = After(d)
    BY <1>1 DEF Buffered, After, AtLevel
<1>9. Logged'
    BY <1>0, <1>5, <1>8 DEF Logged
<1>10. Rings' /\ Passed' /\ Emitting' /\ Flushed' /\ Charged'
    <2>1. emitting[p].scope = NoScope
        BY <1>1 DEF NoFlush
    <2> QED BY <1>1, <1>4, <1>6, <1>8, <2>1, TripStep
<1> QED BY <1>6, <1>7, <1>9, <1>10 DEF IInv

-----------------------------------------------------------------------------
(* Steps of a flush.                                                          *)

\* Neither the history nor a ring changes while a batch is emitted.
LEMMA FlushFrame ==
    ASSUME IInv,
           UNCHANGED <<carrierVars, ringVars, programVars, admitted, records>>
    PROVE  /\ Calls' /\ OneScopePerOperation' /\ Rings' /\ Logged' /\ Grows
           /\ UNCHANGED <<opened, closed, preTripped, pool, tripped, granted, log, stack, core,
                          admitted, records>>
           /\ \A c : /\ HasTripped(c)' <=> HasTripped(c)
                     /\ After(c)' = After(c) /\ Batch(c)' = Batch(c)
<1>1. UNCHANGED <<opened, closed, preTripped, pool, tripped, granted, log, stack, core, admitted,
                  records>>
    BY DEF carrierVars, ringVars, programVars
<1>2. \A c : /\ HasTripped(c)' <=> HasTripped(c)
             /\ Buffered(c)' = Buffered(c) /\ After(c)' = After(c) /\ Batch(c)' = Batch(c)
    BY <1>1 DEF HasTripped, Buffered, After, Batch, Notice, Replay, Newest, Lost, Capacity, AtLevel
<1>3. Calls' /\ OneScopePerOperation'
    BY <1>1, CallsKept DEF IInv
<1>4. Rings' /\ Logged' /\ Grows
    BY <1>1, <1>2 DEF IInv, Rings, Logged, Grows
<1> QED BY <1>1, <1>2, <1>3, <1>4

\* The next item of the batch.
LEMMA FlushNextStep ==
    ASSUME IInv, NEW p \in Proc, FlushNext(p)
    PROVE  IInv'
<1>0. TypeOK /\ Passed /\ Emitting /\ Flushed /\ Charged
    BY DEF IInv
<1>1. PICK c : c = emitting[p].scope
    OBVIOUS
<1>2. /\ c # NoScope /\ Len(flushed[c]) < Len(Batch(c))
      /\ flushed' = [flushed EXCEPT ![c] = Append(@, Batch(c)[Len(@) + 1])]
      /\ UNCHANGED <<carrierVars, ringVars, programVars, admitted, emitting, records,
                     passed>>
    BY <1>1 DEF FlushNext
<1>3. /\ Calls' /\ OneScopePerOperation' /\ Rings' /\ Logged' /\ Grows
      /\ UNCHANGED <<opened, closed, preTripped, pool, tripped, granted, log, stack, core, admitted,
                     records>>
      /\ \A d : /\ HasTripped(d)' <=> HasTripped(d)
                /\ After(d)' = After(d) /\ Batch(d)' = Batch(d)
    BY <1>2, FlushFrame
<1>4. c \in ScopeId /\ HasTripped(c)
    BY <1>0, <1>1, <1>2 DEF TypeOK, Emitting, Flushing
<1>5. flushed[c] \in Seq(Offerable) /\ Len(flushed[c]) \in Nat
      /\ DOMAIN flushed[c] = 1 .. Len(flushed[c])
    <2>1. flushed[c] \in Seq(Offerable)
        BY <1>0, <1>4 DEF TypeOK, Offerable
    <2> QED BY <2>1, LenProperties
<1>6. Batch(c) \in Seq(Offerable) /\ Len(Batch(c)) \in Nat
      /\ DOMAIN Batch(c) = 1 .. Len(Batch(c))
    <2>1. pool[c] # "none"
        <3>1. pool[c] = "none" => Len(Batch(c)) = 0
            BY EmptySeq DEF Batch
        <3> QED BY <1>2, <1>5, <3>1
    <2>2. pool[c] \in Adapter
        BY <1>0, <1>4, <2>1 DEF TypeOK
    <2>3. Batch(c) \in Seq(Offerable)
        BY <1>0, <1>4, <2>2, BatchFacts
    <2> QED BY <2>3, LenProperties
<1>7. PICK n \in DOMAIN Batch(c) : n = Len(flushed[c]) + 1
    BY <1>2, <1>5, <1>6
<1>8. Batch(c)[n] \in Offerable
    BY <1>6, <1>7, ElementOfSeq
<1> DEFINE next == Append(flushed[c], Batch(c)[n])
<1>9. /\ next \in Seq(Offerable) /\ Len(next) = n
      /\ DOMAIN next = 1 .. n
      /\ \A i \in DOMAIN flushed[c] : next[i] = flushed[c][i]
      /\ next[n] = Batch(c)[n]
    <2>1. /\ next \in Seq(Offerable) /\ Len(next) = Len(flushed[c]) + 1
          /\ \A i \in 1 .. Len(flushed[c]) : next[i] = flushed[c][i]
          /\ next[Len(flushed[c]) + 1] = Batch(c)[n]
        BY <1>5, <1>8, AppendProperties
    <2>2. DOMAIN next = 1 .. Len(next)
        BY <2>1, LenProperties
    <2> QED BY <1>5, <1>7, <2>1, <2>2
<1>10. /\ flushed'[c] = next
       /\ \A d \in ScopeId : d # c => flushed'[d] = flushed[d]
       /\ flushed' = [flushed EXCEPT ![c] = next]
    BY <1>0, <1>2, <1>4, <1>7 DEF TypeOK
<1> HIDE DEF next
<1>11. TypeOK'
    <2>1. flushed' \in [ScopeId -> Seq(Offerable)]
        BY <1>0, <1>9, <1>10 DEF TypeOK, Offerable
    <2> QED BY <1>0, <1>2, <1>3, <2>1 DEF TypeOK, Offerable
<1>12. Passed' /\ Emitting'
    <2>1. passed' = passed /\ emitting' = emitting /\ admitted' = admitted
        BY <1>2
    <2> QED BY <1>0, <1>3, <2>1, PassedKept, EmittingKept
<1>13. Flushed'
    <2> SUFFICES ASSUME NEW d \in ScopeId
                 PROVE  /\ ~HasTripped(d)' => flushed'[d] = <<>>
                        /\ \A i \in DOMAIN flushed'[d] :
                               i \in DOMAIN Batch(d)' /\ flushed'[d][i] = Batch(d)'[i]
                        /\ FlushOver(d)' => Len(flushed'[d]) = Len(Batch(d)')
        BY DEF Flushed
    <2>1. FlushOver(d)' => FlushOver(d)
        BY <1>2, <1>3 DEF FlushOver
    <2>2. CASE d = c
        <3>1. ~FlushOver(d)
            BY <1>1, <2>2 DEF FlushOver
        <3>2. ASSUME NEW i \in DOMAIN flushed'[d]
              PROVE  i \in DOMAIN Batch(d) /\ flushed'[d][i] = Batch(d)[i]
            <4>1. i \in DOMAIN flushed[c] \/ i = n
                BY <1>5, <1>7, <1>9, <1>10, <2>2
            <4> QED BY <1>0, <1>4, <1>7, <1>9, <1>10, <2>2, <4>1 DEF Flushed
        <3> QED BY <1>3, <1>4, <2>1, <2>2, <3>1, <3>2
    <2>3. CASE d # c
        BY <1>0, <1>3, <1>10, <2>1, <2>3 DEF Flushed
    <2> QED BY <2>2, <2>3
<1>14. Charged'
    BY <1>0, <1>2, <1>3 DEF Charged
<1> QED BY <1>3, <1>11, <1>12, <1>13, <1>14 DEF IInv

\* The end of the batch, and the record behind it.
LEMMA FlushEndsStep ==
    ASSUME IInv, NEW p \in Proc, FlushEnds(p)
    PROVE  IInv'
<1>0. TypeOK /\ Passed /\ Emitting /\ Flushed /\ Charged
    BY DEF IInv
<1>1. PICK c, record : c = emitting[p].scope /\ record = emitting[p].record
    OBVIOUS
<1>2. /\ c # NoScope /\ Len(flushed[c]) = Len(Batch(c))
      /\ passed' = passed \cup ({record} \ {0})
      /\ emitting' = [emitting EXCEPT ![p] = NoFlush]
      /\ UNCHANGED <<carrierVars, ringVars, programVars, admitted, records, flushed>>
    BY <1>1 DEF FlushEnds
<1>3. /\ Calls' /\ OneScopePerOperation' /\ Rings' /\ Logged' /\ Grows
      /\ UNCHANGED <<opened, closed, preTripped, pool, tripped, granted, log, stack, core, admitted,
                     records>>
      /\ \A d : /\ HasTripped(d)' <=> HasTripped(d)
                /\ After(d)' = After(d) /\ Batch(d)' = Batch(d)
    BY <1>2, FlushFrame
<1>4. record # 0 => AtLevel(records[record]) /\ records[record].when = "before"
    BY <1>0, <1>1, <1>2 DEF Emitting, Flushing
<1>5. record # 0 => record \in DOMAIN records
    <2>1. record \in 0 .. Len(records) /\ records \in Seq(Record)
        BY <1>0, <1>1 DEF TypeOK
    <2> QED BY <2>1, LenProperties
<1>6. NoFlush \in [scope : ScopeId \cup {NoScope}, record : 0 .. Len(records)]
    <2>1. records \in Seq(Record)
        BY <1>0 DEF TypeOK
    <2>2. 0 \in 0 .. Len(records)
        BY <2>1, LenProperties
    <2> QED BY <2>2 DEF NoFlush
<1>7. TypeOK'
    <2>1. emitting' \in [Proc -> [scope : ScopeId \cup {NoScope}, record : 0 .. Len(records)]]
        BY <1>0, <1>2, <1>6 DEF TypeOK
    <2>2. passed' \subseteq DOMAIN records
        BY <1>0, <1>2, <1>5 DEF TypeOK
    <2> QED BY <1>0, <1>2, <1>3, <2>1, <2>2 DEF TypeOK
<1>8. Passed'
    <2>1. record # 0 => Due(record)
        BY <1>4 DEF Due
    <2>2. record # 0 => Due(record)'
        BY <1>3, <1>5, <2>1, DueKept
    <2> QED BY <1>0, <1>2, <1>3, <2>2, PassedKept
<1>9. \A q \in Proc : emitting'[q] = emitting[q] \/ (q = p /\ emitting'[q] = NoFlush)
    BY <1>0, <1>2 DEF TypeOK
<1>10. Emitting'
    <2>1. \A q \in Proc : emitting'[q] = NoFlush => Flushing(q)'
        BY DEF Flushing, NoFlush
    <2> QED BY <1>0, <1>3, <1>9, <2>1, EmittingKept
<1>11. Flushed'
    <2> SUFFICES ASSUME NEW d \in ScopeId
                 PROVE  FlushOver(d)' => Len(flushed[d]) = Len(Batch(d))
        BY <1>0, <1>2, <1>3 DEF Flushed
    <2>1. CASE d = c
        BY <1>2, <2>1
    <2>2. CASE d # c
        <3>1. FlushOver(d)' => FlushOver(d)
            BY <1>1, <1>3, <1>9, <2>2 DEF FlushOver
        <3> QED BY <1>0, <3>1 DEF Flushed
    <2> QED BY <2>1, <2>2
<1>12. Charged'
    <2>1. \A d \in ScopeId : \A r \in After(d) : r \in passed' <=> r \in passed
        <3>1. \A d : record # 0 => record \notin After(d)
            BY <1>4 DEF After
        <3> QED BY <1>2, <3>1
    <2> QED BY <1>0, <1>3, <2>1 DEF Charged
<1> QED BY <1>3, <1>7, <1>8, <1>10, <1>11, <1>12 DEF IInv

-----------------------------------------------------------------------------
(* The invariant.                                                             *)

\* No scope, no record, nothing written.
LEMMA InitIInv == Init => IInv
<1> SUFFICES ASSUME Init PROVE IInv
    OBVIOUS
<1> DEFINE frame == [ctx |-> NoScope, owns |-> FALSE]
<1>1. /\ opened = 0 /\ records = <<>> /\ passed = {}
      /\ closed = [c \in ScopeId |-> FALSE] /\ preTripped = [c \in ScopeId |-> FALSE]
      /\ pool = [c \in ScopeId |-> "none"] /\ tripped = [c \in ScopeId |-> FALSE]
      /\ granted = [c \in ScopeId |-> 0] /\ log = [c \in ScopeId |-> <<>>]
      /\ flushed = [c \in ScopeId |-> <<>>]
      /\ stack = [p \in Proc |-> <<frame>>]
      /\ core = [p \in Proc |-> NoScope]
      /\ admitted = [p \in Proc |-> NoRecord]
      /\ emitting = [p \in Proc |-> NoFlush]
    BY DEF Init
<1>2. Len(records) = 0 /\ DOMAIN records = {}
    BY <1>1
<1>3. 0 \in 0 .. 0 /\ 0 \in 0 .. MaxScopes /\ NoScope = 0
    BY SettingsAssumption DEF NoScope
<1>4. TypeOK
    <2>1. opened \in 0 .. MaxScopes
        BY <1>1, <1>3
    <2>2. {closed, preTripped, tripped} \subseteq [ScopeId -> BOOLEAN]
          /\ pool \in [ScopeId -> Adapter \cup {"none"}]
        BY <1>1
    <2>3. granted \in [ScopeId -> 0 .. Len(records)]
        BY <1>1, <1>2, <1>3
    <2>4. records \in Seq(Record)
        BY <1>1, EmptySeq
    <2>5. log \in [ScopeId -> Seq(DOMAIN records)]
        BY <1>1, EmptySeq
    <2>6. frame \in [ctx : 0 .. opened, owns : BOOLEAN]
        BY <1>1, <1>3
    <2> HIDE DEF frame
    <2>7. <<frame>> \in Seq([ctx : 0 .. opened, owns : BOOLEAN]) /\ <<frame>> # <<>>
        BY <2>6
    <2>8. stack \in [Proc -> Seq([ctx : 0 .. opened, owns : BOOLEAN])]
          /\ \A p \in Proc : stack[p] # <<>>
        BY <1>1, <2>7
    <2>9. core \in [Proc -> 0 .. opened]
        BY <1>1, <1>3
    <2>10. admitted \in [Proc -> [via : Adapter, level : Level, scope : 0 .. opened]
                                 \cup {NoRecord}]
        BY <1>1
    <2>11. emitting \in [Proc -> [scope : ScopeId \cup {NoScope}, record : 0 .. Len(records)]]
        BY <1>1, <1>2, <1>3 DEF NoFlush
    <2>12. flushed \in [ScopeId -> Seq([kind : {"replay", "notice"}, via : Adapter,
                                        n : Nat \ {0}])]
        BY <1>1, EmptySeq
    <2> QED BY <1>1, <2>1, <2>2, <2>3, <2>4, <2>5, <2>8, <2>9, <2>10, <2>11, <2>12 DEF TypeOK
<1>5. \A p \in Proc : \A i \in DOMAIN stack[p] : i = 1 /\ stack[p][i].owns = FALSE
    BY <1>1
<1>6. Calls /\ OneScopePerOperation
    <2>1. \A p \in Proc : stack[p][1].owns = FALSE
        BY <1>1
    <2>2. \A c \in ScopeId : ~closed[c]
        BY <1>1
    <2> QED BY <1>5, <2>1, <2>2 DEF Calls, OneScopePerOperation
<1>7. \A c \in ScopeId : /\ ~preTripped[c] /\ ~tripped[c] /\ ~HasTripped(c)
                         /\ pool[c] = "none" /\ log[c] = <<>> /\ granted[c] = 0
                         /\ flushed[c] = <<>>
    BY <1>1 DEF HasTripped
<1>8. \A c : Buffered(c) = {} /\ After(c) = {}
    BY <1>2 DEF Buffered, After
<1>9. Rings /\ Passed
    BY <1>1, <1>7 DEF Rings, Passed
<1>10. Logged
    <2>1. \A c \in ScopeId : DOMAIN log[c] = {}
        BY <1>7
    <2> QED BY <1>8, <2>1 DEF Logged
<1>11. Emitting
    BY <1>1 DEF Emitting, Flushing, NoFlush
<1>12. Flushed
    <2>1. \A c \in ScopeId : DOMAIN flushed[c] = {} /\ ~FlushOver(c)
        BY <1>7 DEF FlushOver
    <2> QED BY <1>7, <2>1 DEF Flushed
<1>13. Charged
    BY <1>7, <1>8 DEF Charged
<1> QED BY <1>4, <1>6, <1>9, <1>10, <1>11, <1>12, <1>13 DEF IInv

\* One case per action of Next.
LEMMA NextIInv == IInv /\ [Next]_vars => IInv'
<1> SUFFICES ASSUME IInv, [Next]_vars PROVE IInv'
    OBVIOUS
<1>1. ASSUME NEW p \in Proc, Contexts(p) PROVE IInv'
    BY <1>1, ContextSteps
<1>2. ASSUME NEW p \in Proc, Handle(p) PROVE IInv'
    BY <1>2, PassStep, TriggerStep, BuffersStep, TrippedStep DEF Handle
<1>3. ASSUME NEW p \in Proc, FlushNext(p) \/ FlushEnds(p) PROVE IInv'
    BY <1>3, FlushNextStep, FlushEndsStep
<1>4. ASSUME NEW p \in Proc, NEW a \in Adapter, BareTrip(p, a) PROVE IInv'
    BY <1>4, BareTripStep
<1>5. ASSUME NEW p \in Proc, NEW a \in Adapter, NEW l \in Level, Check(p, a, l) PROVE IInv'
    BY <1>5, ContextSteps
<1>6. CASE UNCHANGED vars
    <2>1. /\ UNCHANGED <<opened, closed, stack, core, admitted>>
          /\ UNCHANGED <<preTripped, ringVars, emitting, records, outputVars>>
        BY <1>6 DEF vars, carrierVars, programVars
    <2>2. TypeOK'
        BY <2>1 DEF IInv, TypeOK, ringVars, outputVars
    <2>3. Calls' /\ OneScopePerOperation'
        BY <2>1, CallsKept DEF IInv
    <2>4. Rings' /\ Logged' /\ Passed' /\ Emitting' /\ Flushed' /\ Charged'
        BY <2>1, HistoryKept
    <2> QED BY <2>2, <2>3, <2>4 DEF IInv
<1> QED BY <1>1, <1>2, <1>3, <1>4, <1>5, <1>6 DEF Next

\* The invariant holds of every behaviour of the two adapters.
THEOREM Invariance == Spec => []IInv
BY InitIInv, NextIInv, PTL DEF Spec

-----------------------------------------------------------------------------
(* What the invariant gives.                                                  *)

\* As many numbers as there are places of a list without repetition.
LEMMA CountOfList ==
    ASSUME NEW n \in Nat, NEW s, \A i, j \in 1 .. n : s[i] = s[j] => i = j
    PROVE  Cardinality({s[i] : i \in 1 .. n}) = n
<1> DEFINE S == {s[i] : i \in 1 .. n}
           f == [i \in 1 .. n |-> s[i]]
<1>1. IsFiniteSet(1 .. n) /\ Cardinality(1 .. n) = n
    BY FS_Interval
<1>2. f \in Bijection(1 .. n, S)
    <2>1. f \in [1 .. n -> S] /\ \A t \in S : \E i \in 1 .. n : f[i] = t
        OBVIOUS
    <2>2. \A i, j \in 1 .. n : f[i] = f[j] => i = j
        OBVIOUS
    <2> QED BY <2>1, <2>2 DEF Bijection, Injection, Surjection, IsInjective
<1>3. ExistsBijection(1 .. n, S)
    BY <1>2 DEF ExistsBijection
<1> QED BY <1>1, <1>3, FS_Bijection
\* Without a ring nothing was buffered and nothing is replayed.
LEMMA NothingFlushed ==
    ASSUME IInv, NEW c \in ScopeId, pool[c] = "none"
    PROVE  DOMAIN flushed[c] = {} /\ Replays(c) = {} /\ Buffered(c) = {}
<1>1. DOMAIN flushed[c] = {}
    <2>1. Batch(c) = <<>> /\ DOMAIN <<>> = {}
        BY DEF Batch
    <2> QED BY <2>1 DEF IInv, Flushed
<1>2. Buffered(c) = {}
    <2>1. DOMAIN log[c] = {}
        BY DEF IInv, Rings
    <2>2. Buffered(c) \subseteq Nat
        <3>1. records \in Seq(Record)
            BY DEF IInv, TypeOK
        <3>2. DOMAIN records = 1 .. Len(records)
            BY <3>1, LenProperties
        <3> QED BY <3>2 DEF Buffered
    <2> QED BY <2>1, <2>2 DEF IInv, Logged
<1> QED BY <1>1, <1>2 DEF Replays

\* What a flush has offered so far, len items: a notice (h = 1) when records were
\* lost, and behind it the N others of the log, from the oldest on.
FlushedUpTo(c, h, N, lost, len) ==
    /\ h = 1 <=> lost > 0
    /\ DOMAIN log[c] = 1 .. lost + N
    /\ N <= Setting[pool[c]].capacity
    /\ lost > 0 => N = Setting[pool[c]].capacity
    /\ DOMAIN flushed[c] = 1 .. len /\ len <= h + N
    /\ FlushOver(c) => len = h + N
    /\ Replays(c) = h + 1 .. len
    /\ \A k \in 1 .. N : h + k <= len =>
           flushed[c][h + k] = Item("replay", records[log[c][lost + k]].via, log[c][lost + k])
    /\ h = 1 /\ 1 <= len =>
           flushed[c][1] = Item("notice", records[log[c][lost + 1]].via, lost)
    /\ \A i \in 1 .. lost + N : log[c][i] \in Nat /\ log[c][i] \in Buffered(c)

\* The state of every flush.
LEMMA FlushFacts ==
    ASSUME IInv, NEW c \in ScopeId, pool[c] \in Adapter
    PROVE  \E h \in {0, 1}, N \in Nat, lost \in Nat, len \in Nat :
               FlushedUpTo(c, h, N, lost, len)
<1>0. TypeOK /\ Logged /\ Flushed
    BY DEF IInv
<1>1. /\ Len(log[c]) \in Nat /\ DOMAIN log[c] = 1 .. Len(log[c])
      /\ \A i \in 1 .. Len(log[c]) : log[c][i] \in DOMAIN records
      /\ Lost(c) \in 0 .. Len(log[c])
      /\ Len(Newest(c)) = Len(log[c]) - Lost(c)
      /\ \A k \in 1 .. Len(Newest(c)) : Newest(c)[k] = log[c][Lost(c) + k]
      /\ log[c] # <<>> => Len(Newest(c)) >= 1
      /\ Len(Newest(c)) <= Capacity(c)
      /\ Lost(c) > 0 => Len(Newest(c)) = Capacity(c)
    BY <1>0, NewestFacts
<1>2. PICK h \in {0, 1}, N \in Nat :
          /\ h = (IF Lost(c) = 0 THEN 0 ELSE 1) /\ N = Len(Newest(c))
          /\ Len(Batch(c)) = h + N
          /\ h = 1 => Batch(c)[1] = Item("notice", records[Newest(c)[1]].via, Lost(c))
          /\ \A k \in 1 .. N : Batch(c)[h + k] =
                 Item("replay", records[Newest(c)[k]].via, Newest(c)[k])
    BY <1>0, BatchFacts
<1>3. PICK lost \in Nat : lost = Lost(c)
    BY <1>1
<1>4. /\ DOMAIN log[c] = 1 .. lost + N
      /\ \A i \in 1 .. lost + N : i \in 1 .. Len(log[c]) /\ i \in DOMAIN log[c]
      /\ lost > 0 => 1 \in 1 .. N
      /\ h = 1 <=> lost > 0
    <2>1. lost > 0 => log[c] # <<>>
        BY <1>1, <1>3, EmptySeq
    <2> QED BY <1>1, <1>2, <1>3, <2>1
<1>5. \A i \in 1 .. lost + N : log[c][i] \in Nat /\ log[c][i] \in Buffered(c)
    <2>1. records \in Seq(Record)
        BY <1>0 DEF TypeOK
    <2>2. DOMAIN records = 1 .. Len(records)
        BY <2>1, LenProperties
    <2>3. \A i \in 1 .. lost + N : log[c][i] \in Nat
        BY <1>1, <1>4, <2>2
    <2> QED BY <1>0, <1>4, <2>3 DEF Logged
<1>6. N <= Setting[pool[c]].capacity /\ (lost > 0 => N = Setting[pool[c]].capacity)
    BY <1>1, <1>2, <1>3 DEF Capacity
<1>7. PICK len \in Nat : len = Len(flushed[c]) /\ DOMAIN flushed[c] = 1 .. len
    <2>1. flushed[c] \in Seq(Offerable)
        BY <1>0 DEF TypeOK, Offerable
    <2> QED BY <2>1, LenProperties
<1>8. /\ len <= h + N /\ FlushOver(c) => len = h + N
      /\ \A i \in 1 .. len : i \in 1 .. h + N /\ flushed[c][i] = Batch(c)[i]
    <2>1. DOMAIN Batch(c) = 1 .. h + N
        <3>1. Batch(c) \in Seq(Offerable)
            BY <1>0, BatchFacts
        <3> QED BY <1>2, <3>1, LenProperties
    <2>2. \A i \in 1 .. len : i \in 1 .. h + N /\ flushed[c][i] = Batch(c)[i]
        BY <1>0, <1>7, <2>1 DEF Flushed
    <2>3. len <= h + N
        <3>1. len = 0 \/ len \in 1 .. len
            OBVIOUS
        <3> QED BY <2>2, <3>1
    <2> QED BY <1>0, <1>2, <1>7, <2>2, <2>3 DEF Flushed
<1>9. \A k \in 1 .. N : h + k <= len =>
          flushed[c][h + k] = Item("replay", records[log[c][lost + k]].via, log[c][lost + k])
    <2> SUFFICES ASSUME NEW k \in 1 .. N, h + k <= len
                 PROVE  flushed[c][h + k] = Item("replay", records[log[c][lost + k]].via,
                                                 log[c][lost + k])
        OBVIOUS
    <2>1. h + k \in 1 .. len
        OBVIOUS
    <2>2. Newest(c)[k] = log[c][lost + k]
        BY <1>1, <1>2, <1>3
    <2> QED BY <1>2, <1>8, <2>1, <2>2
<1>10. h = 1 /\ 1 <= len =>
           flushed[c][1] = Item("notice", records[log[c][lost + 1]].via, lost)
    <2> SUFFICES ASSUME h = 1, 1 <= len
                 PROVE  flushed[c][1] = Item("notice", records[log[c][lost + 1]].via, lost)
        OBVIOUS
    <2>1. 1 \in 1 .. len /\ Newest(c)[1] = log[c][lost + 1]
        BY <1>1, <1>2, <1>3, <1>4
    <2> QED BY <1>2, <1>3, <1>8, <2>1
<1>11. Replays(c) = h + 1 .. len
    <2>1. ASSUME NEW i \in 1 .. len, i > h PROVE flushed[c][i].kind = "replay"
        <3>1. i - h \in 1 .. N /\ h + (i - h) = i
            BY <1>8, <2>1
        <3>2. flushed[c][i].kind = Item("replay", records[log[c][lost + (i - h)]].via,
                                        log[c][lost + (i - h)]).kind
            BY <1>9, <3>1
        <3> QED BY <3>2 DEF Item
    <2>2. ASSUME NEW i \in 1 .. len, ~(i > h) PROVE flushed[c][i].kind # "replay"
        <3>1. h = 1 /\ i = 1 /\ 1 <= len
            BY <2>2
        <3>2. flushed[c][i].kind = Item("notice", records[log[c][lost + 1]].via, lost).kind
            BY <1>10, <3>1
        <3> QED BY <3>2 DEF Item
    <2>3. \A i : i \in h + 1 .. len <=> i \in 1 .. len /\ i > h
        OBVIOUS
    <2> QED BY <1>7, <2>1, <2>2, <2>3 DEF Replays
<1>12. FlushedUpTo(c, h, N, lost, len)
    BY <1>4, <1>5, <1>6, <1>7, <1>8, <1>9, <1>10, <1>11 DEF FlushedUpTo
<1> QED BY <1>12

\* What is replayed was buffered in the scope, which has tripped.
LEMMA ReplayedFacts ==
    ASSUME IInv, NEW c \in ScopeId, NEW i \in Replays(c)
    PROVE  /\ flushed[c][i].n \in Buffered(c)
           /\ flushed[c][i].via = records[flushed[c][i].n].via
           /\ HasTripped(c)
<1>1. pool[c] \in Adapter
    BY NothingFlushed DEF IInv, TypeOK
<1>p. PICK h \in {0, 1}, N \in Nat, lost \in Nat, len \in Nat : FlushedUpTo(c, h, N, lost, len)
    BY <1>1, FlushFacts
<1>2. /\ len <= h + N /\ Replays(c) = h + 1 .. len
      /\ \A k \in 1 .. N : h + k <= len =>
             flushed[c][h + k] = Item("replay", records[log[c][lost + k]].via,
                                      log[c][lost + k])
      /\ \A k \in 1 .. lost + N : log[c][k] \in Nat /\ log[c][k] \in Buffered(c)
    BY <1>p DEF FlushedUpTo
<1>3. /\ i - h \in 1 .. N /\ h + (i - h) = i /\ h + (i - h) <= len
      /\ lost + (i - h) \in 1 .. lost + N
    BY <1>2
<1>4. flushed[c][i] = Item("replay", records[log[c][lost + (i - h)]].via, log[c][lost + (i - h)])
    BY <1>2, <1>3
<1>5. /\ flushed[c][i].n = log[c][lost + (i - h)]
      /\ flushed[c][i].via = records[log[c][lost + (i - h)]].via
    BY <1>4 DEF Item
<1>6. HasTripped(c)
    <2>1. DOMAIN <<>> = {} /\ i \in DOMAIN flushed[c]
        BY DEF Replays
    <2> QED BY <2>1 DEF IInv, Flushed
<1> QED BY <1>2, <1>3, <1>5, <1>6

\* As many records were buffered before the one at place n + 1 of the log as there
\* are places before it.
LEMMA OlderOnes ==
    ASSUME IInv, NEW c \in ScopeId, NEW n \in Nat, NEW len \in Nat, n < len,
           DOMAIN log[c] = 1 .. len,
           \A i \in 1 .. len : log[c][i] \in Nat /\ log[c][i] \in Buffered(c)
    PROVE  /\ Cardinality({r \in Buffered(c) : r < log[c][n + 1]}) = n
           /\ {r \in Buffered(c) : r < log[c][n + 1]} = {} <=> n = 0
<1>1. \A j, k \in 1 .. len : j < k => log[c][j] < log[c][k]
    BY DEF IInv, Logged
<1>2. {r \in Buffered(c) : r < log[c][n + 1]} = {log[c][j] : j \in 1 .. n}
    <2>1. ASSUME NEW r \in Buffered(c), r < log[c][n + 1]
          PROVE  \E j \in 1 .. n : log[c][j] = r
        <3>1. r \in Nat
            <4>1. records \in Seq(Record)
                BY DEF IInv, TypeOK
            <4>2. DOMAIN records = 1 .. Len(records)
                BY <4>1, LenProperties
            <4> QED BY <4>2 DEF Buffered
        <3>2. PICK j \in 1 .. len : log[c][j] = r
            BY <3>1 DEF IInv, Logged
        <3>3. j <= n
            <4> SUFFICES ASSUME ~(j <= n) PROVE FALSE
                OBVIOUS
            <4>1. n + 1 \in 1 .. len /\ (j = n + 1 \/ n + 1 < j)
                OBVIOUS
            <4>2. log[c][n + 1] <= r
                BY <1>1, <3>1, <3>2, <4>1
            <4>3. log[c][n + 1] \in Nat
                BY <4>1
            <4> QED BY <2>1, <3>1, <4>2, <4>3
        <3> QED BY <3>2, <3>3
    <2>2. ASSUME NEW j \in 1 .. n
          PROVE  log[c][j] \in Buffered(c) /\ log[c][j] < log[c][n + 1]
        <3>1. j \in 1 .. len /\ n + 1 \in 1 .. len /\ j < n + 1
            OBVIOUS
        <3> QED BY <1>1, <3>1
    <2> QED BY <2>1, <2>2
<1>3. Cardinality({log[c][j] : j \in 1 .. n}) = n
    <2>1. \A j \in 1 .. n : j \in 1 .. len
        OBVIOUS
    <2>2. ASSUME NEW j \in 1 .. n, NEW k \in 1 .. n, log[c][j] = log[c][k]
          PROVE  j = k
        <3>1. log[c][j] \in Nat /\ ~(log[c][j] < log[c][k]) /\ ~(log[c][k] < log[c][j])
            BY <2>1, <2>2
        <3> QED BY <1>1, <2>1, <3>1
    <2> DEFINE s == log[c]
    <2>3. \A j, k \in 1 .. n : s[j] = s[k] => j = k
        BY <2>2
    <2> HIDE DEF s
    <2>4. Cardinality({s[j] : j \in 1 .. n}) = n
        BY ONLY n \in Nat, <2>3, CountOfList
    <2> QED BY <2>4 DEF s
<1>4. {log[c][j] : j \in 1 .. n} = {} <=> n = 0
    <2>1. n # 0 => n \in 1 .. n
        OBVIOUS
    <2>2. n = 0 => 1 .. n = {}
        OBVIOUS
    <2> QED BY <2>1, <2>2, Zenon
<1> QED BY <1>2, <1>3, <1>4

\* Types, whatever the goroutines do.
THEOREM AdaptersTypeCorrect == Spec => []TypeOK
<1>1. IInv => TypeOK
    BY DEF IInv
<1> QED BY <1>1, Invariance, PTL

\* Only the done of the call that opened a scope ends it (scope.go:183-186).
THEOREM ScopeIsOnes == Spec => []OneScopePerOperation
<1>1. IInv => OneScopePerOperation
    BY DEF IInv
<1> QED BY <1>1, Invariance, PTL

\* One budget for both adapters, charged in the order the records come
\* (internal/core/carrier.go:46-48, scope.go:160-172).
THEOREM BudgetCoversBoth == Spec => []BudgetIsShared
<1>1. IInv => BudgetIsShared
    <2> SUFFICES ASSUME IInv, NEW c \in ScopeId, NEW r \in After(c)
                 PROVE  Written(r) <=> r \in passed
        BY DEF BudgetIsShared, IInv, Charged
    <2>1. ASSUME NEW d \in ScopeId, NEW i \in Replays(d), flushed[d][i].n = r
          PROVE  FALSE
        <3>1. r \in Buffered(d)
            BY <2>1, ReplayedFacts
        <3> QED BY <3>1 DEF Buffered, After
    <2> QED BY <2>1 DEF Written
<1> QED BY <1>1, Invariance, PTL

\* Below the level nothing is written but what a record's own scope, live and
\* tripped, let through (scope.go:140-147, zapadapter/core.go:253-257, 294-295).
THEOREM LevelsHoldOutsideTrips == Spec => []BelowLevelNeedsOwnTrip
<1>1. IInv => BelowLevelNeedsOwnTrip
    <2> SUFFICES ASSUME IInv, NEW r \in DOMAIN records, ~AtLevel(records[r]), Written(r)
                 PROVE  records[r].when # "alone" /\ HasTripped(records[r].scope)
        BY DEF BelowLevelNeedsOwnTrip
    <2>1. CASE r \in passed
        BY <2>1 DEF IInv, Passed, Due
    <2>2. ASSUME NEW c \in ScopeId, NEW i \in Replays(c), flushed[c][i].n = r
          PROVE  records[r].when # "alone" /\ HasTripped(records[r].scope)
        <3>1. r \in Buffered(c) /\ HasTripped(c)
            BY <2>2, ReplayedFacts
        <3> QED BY <3>1 DEF Buffered
    <2> QED BY <2>1, <2>2 DEF Written
<1> QED BY <1>1, Invariance, PTL

\* A trip replays the newest of what both adapters buffered in the scope, in the
\* order it was logged (zapadapter/core.go:5-8, internal/core/carrier.go:42-48).
THEOREM BatchIsOneSequence == Spec => []ReplayIsOneSequence
<1>1. ASSUME IInv, NEW c \in ScopeId
      PROVE  /\ \A i, j \in Replays(c) : i < j => flushed[c][i].n < flushed[c][j].n
             /\ \A i \in Replays(c) :
                    /\ flushed[c][i].n \in Buffered(c)
                    /\ flushed[c][i].via = records[flushed[c][i].n].via
             /\ FlushOver(c) /\ Buffered(c) # {} =>
                 /\ Cardinality(Replays(c)) <= Setting[pool[c]].capacity
                 /\ \A r \in Buffered(c) :
                     \/ \E i \in Replays(c) : flushed[c][i].n = r
                     \/ /\ \A i \in Replays(c) : r < flushed[c][i].n
                        /\ Cardinality(Replays(c)) = Setting[pool[c]].capacity
    <2>1. CASE pool[c] = "none"
        BY <1>1, <2>1, NothingFlushed
    <2>2. CASE pool[c] # "none"
        <3>0. pool[c] \in Adapter
            BY <1>1, <2>2 DEF IInv, TypeOK
        <3>p. PICK h \in {0, 1}, N \in Nat, lost \in Nat, len \in Nat :
                  FlushedUpTo(c, h, N, lost, len)
            BY <1>1, <3>0, FlushFacts
        <3>1. /\ DOMAIN log[c] = 1 .. lost + N
              /\ N <= Setting[pool[c]].capacity
              /\ lost > 0 => N = Setting[pool[c]].capacity
              /\ len <= h + N
              /\ FlushOver(c) => len = h + N
              /\ Replays(c) = h + 1 .. len
              /\ \A k \in 1 .. N : h + k <= len =>
                     flushed[c][h + k] = Item("replay", records[log[c][lost + k]].via,
                                              log[c][lost + k])
              /\ \A i \in 1 .. lost + N : log[c][i] \in Nat /\ log[c][i] \in Buffered(c)
            BY <3>p DEF FlushedUpTo
        <3>2. \A i, j \in 1 .. lost + N : i < j => log[c][i] < log[c][j]
            BY <1>1, <3>1 DEF IInv, Logged
        <3>3. ASSUME NEW i \in Replays(c)
              PROVE  /\ lost + (i - h) \in 1 .. lost + N
                     /\ flushed[c][i].n = log[c][lost + (i - h)]
            <4>1. /\ i - h \in 1 .. N /\ h + (i - h) = i /\ h + (i - h) <= len
                  /\ lost + (i - h) \in 1 .. lost + N
                BY <3>1
            <4>2. flushed[c][i] = Item("replay", records[log[c][lost + (i - h)]].via,
                                       log[c][lost + (i - h)])
                BY <3>1, <4>1
            <4> QED BY <4>1, <4>2 DEF Item
        <3>4. \A i, j \in Replays(c) : i < j => lost + (i - h) < lost + (j - h)
            BY <3>1
        <3>5. \A i, j \in Replays(c) : i < j => flushed[c][i].n < flushed[c][j].n
            BY <3>2, <3>3, <3>4
        <3>6. ASSUME FlushOver(c) PROVE Cardinality(Replays(c)) = N
            <4>1. Replays(c) = h + 1 .. h + N /\ h + 1 \in Int /\ h + N \in Int
                BY <3>1, <3>6
            <4>2. Cardinality(h + 1 .. h + N)
                  = IF h + 1 > h + N THEN 0 ELSE (h + N) - (h + 1) + 1
                BY <4>1, FS_Interval
            <4> QED BY <4>1, <4>2
        <3>7. ASSUME FlushOver(c), NEW r \in Buffered(c)
              PROVE  \/ \E i \in Replays(c) : flushed[c][i].n = r
                     \/ /\ \A i \in Replays(c) : r < flushed[c][i].n
                        /\ N = Setting[pool[c]].capacity
            <4>1. r \in Nat
                <5>1. records \in Seq(Record)
                    BY <1>1 DEF IInv, TypeOK
                <5>2. DOMAIN records = 1 .. Len(records)
                    BY <5>1, LenProperties
                <5> QED BY <5>2 DEF Buffered
            <4>2. PICK j \in 1 .. lost + N : log[c][j] = r
                BY <1>1, <3>1, <4>1 DEF IInv, Logged
            <4>3. CASE j > lost
                <5>1. /\ h + (j - lost) \in h + 1 .. len
                      /\ lost + ((h + (j - lost)) - h) = j
                    BY <3>1, <3>7, <4>3
                <5>2. flushed[c][h + (j - lost)].n = r
                    BY <3>1, <3>3, <4>2, <5>1
                <5> QED BY <3>1, <5>1, <5>2
            <4>4. CASE ~(j > lost)
                <5>1. lost > 0 /\ \A i \in Replays(c) : j < lost + (i - h)
                    BY <3>1, <4>4
                <5>2. \A i \in Replays(c) : r < flushed[c][i].n
                    BY <3>2, <3>3, <4>2, <5>1
                <5> QED BY <3>1, <5>1, <5>2
            <4> QED BY <4>3, <4>4
        <3>8. \A i \in Replays(c) :
                  /\ flushed[c][i].n \in Buffered(c)
                  /\ flushed[c][i].via = records[flushed[c][i].n].via
            BY <1>1, ReplayedFacts
        <3> QED BY <3>1, <3>5, <3>6, <3>7, <3>8
    <2> QED BY <2>1, <2>2
<1>2. IInv => ReplayIsOneSequence
    BY <1>1 DEF ReplayIsOneSequence
<1> QED BY <1>2, Invariance, PTL

\* Of what a flush offers the notice comes first, exactly when records were lost,
\* with their number (zapadapter/slot.go:48-49), however many steps of other
\* goroutines come in between.
THEOREM NoticeLeadsItsBatch == Spec => []NoticePrecedesItsBatch
<1>1. ASSUME IInv, NEW c \in ScopeId
      PROVE  /\ DOMAIN flushed[c] \ {1} \subseteq Replays(c)
             /\ \A i \in Replays(c) : (\A j \in Replays(c) : i <= j) =>
                    LET older == {r \in Buffered(c) : r < flushed[c][i].n} IN
                    IF older = {} THEN i = 1
                    ELSE /\ i = 2
                         /\ flushed[c][1] =
                                Item("notice", flushed[c][i].via, Cardinality(older))
    <2>1. CASE pool[c] = "none"
        BY <1>1, <2>1, NothingFlushed
    <2>2. CASE pool[c] # "none"
        <3>0. pool[c] \in Adapter
            BY <1>1, <2>2 DEF IInv, TypeOK
        <3>p. PICK h \in {0, 1}, N \in Nat, lost \in Nat, len \in Nat :
                  FlushedUpTo(c, h, N, lost, len)
            BY <1>1, <3>0, FlushFacts
        <3>1. /\ h = 1 <=> lost > 0
              /\ DOMAIN log[c] = 1 .. lost + N
              /\ DOMAIN flushed[c] = 1 .. len /\ len <= h + N
              /\ Replays(c) = h + 1 .. len
              /\ \A k \in 1 .. N : h + k <= len =>
                     flushed[c][h + k] = Item("replay", records[log[c][lost + k]].via,
                                              log[c][lost + k])
              /\ h = 1 /\ 1 <= len =>
                     flushed[c][1] = Item("notice", records[log[c][lost + 1]].via, lost)
              /\ \A i \in 1 .. lost + N : log[c][i] \in Nat /\ log[c][i] \in Buffered(c)
            BY <3>p DEF FlushedUpTo
        <3>2. DOMAIN flushed[c] \ {1} \subseteq Replays(c)
            BY <3>1
        <3>3. ASSUME NEW i \in Replays(c), \A j \in Replays(c) : i <= j,
                     NEW older, older = {r \in Buffered(c) : r < flushed[c][i].n}
              PROVE  IF older = {} THEN i = 1
                     ELSE /\ i = 2
                          /\ flushed[c][1] = Item("notice", flushed[c][i].via, Cardinality(older))
            <4>1. i = h + 1 /\ 1 \in 1 .. N /\ h + 1 <= len
                <5>1. h + 1 \in Replays(c)
                    BY <3>1
                <5>2. i <= h + 1 /\ i \in h + 1 .. len
                    BY <3>1, <3>3, <5>1
                <5> QED BY <3>1, <5>2
            <4>2. flushed[c][i] = Item("replay", records[log[c][lost + 1]].via, log[c][lost + 1])
                BY <3>1, <4>1
            <4>3. flushed[c][i].n = log[c][lost + 1]
                  /\ flushed[c][i].via = records[log[c][lost + 1]].via
                BY <4>2 DEF Item
            <4>4. Cardinality(older) = lost /\ (older = {} <=> lost = 0)
                <5>1. lost < lost + N /\ lost + N \in Nat
                    BY <4>1
                <5> QED BY <1>1, <3>1, <3>3, <4>3, <5>1, OlderOnes
            <4> QED BY <3>1, <4>1, <4>3, <4>4
        <3> QED BY <3>2, <3>3
    <2> QED BY <2>1, <2>2
<1>2. IInv => NoticePrecedesItsBatch
    BY <1>1 DEF NoticePrecedesItsBatch
<1> QED BY <1>2, Invariance, PTL
=============================================================================
