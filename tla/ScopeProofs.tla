---------------------------- MODULE ScopeProofs ----------------------------
(* Theorems about Scope, for every number of scopes and rings, every capacity *)
(* and budget given, and every bound.                                         *)
EXTENDS Scope, TLAPS

(* The strengthening that makes the safety invariants inductive: a scope that *)
(* was not made has touched nothing, the lock-free flag mirrors the guarded   *)
(* one, and neither a tripped nor a closed scope counts any entry as held.    *)
Untouched ==
    \A s \in ScopeId \ made : sc[s] = Fresh(NoBox, FALSE) /\ appended[s] = <<>>

Flags ==
    \A s \in ScopeId :
        /\ sc[s].tripped = sc[s].tripState
        /\ sc[s].tripState \/ sc[s].closed => sc[s].length = 0

IInv ==
    /\ TypeOK
    /\ Untouched
    /\ Flags
    /\ OwnedOnce
    /\ HeldIsNewest
    /\ RetainsOnlyHeld

-----------------------------------------------------------------------------
(* Arithmetic of the ring. *)

\* Capacity and budget are normalised to numbers a ring can work with.
LEMMA Normalised ==
    /\ Capacity \in Nat \ {0}
    /\ Limit \in Nat
    /\ 0 \in Slots
    /\ Slots \subseteq Nat
BY SizesAssumption DEF Capacity, Limit, Slots

\* An index at most one lap past the end wraps by one subtraction.
LEMMA Wrap ==
    ASSUME NEW a \in Slots, NEW i \in 0 .. Capacity
    PROVE  /\ (a + i) % Capacity = IF a + i < Capacity THEN a + i
                                                       ELSE a + i - Capacity
           /\ (a + i) % Capacity \in Slots
BY Normalised, SMT DEF Slots

\* Distinct held positions lie in distinct slots.
LEMMA IndexInjective ==
    ASSUME NEW a \in Slots,
           NEW i \in 0 .. Capacity - 1, NEW j \in 0 .. Capacity - 1,
           (a + i) % Capacity = (a + j) % Capacity
    PROVE  i = j
<1>1. Capacity \in Nat /\ a \in Nat /\ a < Capacity
  BY Normalised DEF Slots
<1>2. i \in 0 .. Capacity /\ j \in 0 .. Capacity
  BY <1>1
<1>3. /\ (a + i) % Capacity = IF a + i < Capacity THEN a + i ELSE a + i - Capacity
      /\ (a + j) % Capacity = IF a + j < Capacity THEN a + j ELSE a + j - Capacity
  BY <1>2, Wrap
<1>4. QED
  BY <1>1, <1>3

\* Moving the start by one slot moves every held position by one.
LEMMA IndexShift ==
    ASSUME NEW a \in Slots, NEW i \in 0 .. Capacity - 1
    PROVE  (((a + 1) % Capacity) + i) % Capacity = (a + (i + 1)) % Capacity
<1>1. Capacity \in Nat \ {0} /\ a \in Nat /\ a < Capacity
  BY Normalised DEF Slots
<1>2. (a + 1) % Capacity = IF a + 1 < Capacity THEN a + 1 ELSE a + 1 - Capacity
  BY <1>1, Wrap, 1 \in 0 .. Capacity
<1>3. (a + 1) % Capacity \in Slots /\ i \in 0 .. Capacity /\ i + 1 \in 0 .. Capacity
  BY <1>1, Wrap, 1 \in 0 .. Capacity
<1>4. /\ (a + (i + 1)) % Capacity = IF a + (i + 1) < Capacity THEN a + (i + 1)
                                                    ELSE a + (i + 1) - Capacity
  BY <1>3, Wrap
<1>5. (((a + 1) % Capacity) + i) % Capacity
          = IF ((a + 1) % Capacity) + i < Capacity
            THEN ((a + 1) % Capacity) + i ELSE ((a + 1) % Capacity) + i - Capacity
  BY <1>3, Wrap
<1>6. QED
  BY <1>1, <1>2, <1>4, <1>5

\* From any start, every slot is some position of a full ring.
LEMMA IndexOnto ==
    ASSUME NEW a \in Slots, NEW i \in Slots
    PROVE  \E j \in 0 .. Capacity - 1 : (a + j) % Capacity = i
<1>1. Capacity \in Nat \ {0} /\ a \in 0 .. Capacity - 1 /\ i \in 0 .. Capacity - 1
  BY Normalised DEF Slots
<1> DEFINE j == IF i >= a THEN i - a ELSE i + Capacity - a
<1>2. j \in 0 .. Capacity - 1 /\ j \in 0 .. Capacity
  BY <1>1
<1>3. (a + j) % Capacity = IF a + j < Capacity THEN a + j ELSE a + j - Capacity
  <2> HIDE DEF j
  <2> QED
    BY <1>2, Wrap
<1>4. (a + j) % Capacity = i
  BY <1>1, <1>3
<1>5. QED
  BY <1>2, <1>4

-----------------------------------------------------------------------------
(* The inductive invariant. *)

LEMMA InitIInv == Init => IInv
<1> SUFFICES ASSUME Init PROVE IInv
  OBVIOUS
<1>1. TypeOK
  BY Normalised DEF Init, TypeOK, Blank, Fresh, ScopeRecord, Answers
<1>2. \A s \in ScopeId : ~Live(s)
  BY DEF Init, Live
<1>3. Untouched /\ Flags
  BY DEF Init, Untouched, Flags, Fresh
<1>4. OwnedOnce
  BY <1>2 DEF OwnedOnce, Init
<1>5. HeldIsNewest
  BY <1>2 DEF HeldIsNewest
<1>6. RetainsOnlyHeld
  BY <1>2 DEF RetainsOnlyHeld, Init
<1>7. QED
  BY <1>1, <1>3, <1>4, <1>5, <1>6 DEF IInv

\* What a call does not touch keeps its invariant: t is not the scope called,
\* and the call wrote no ring of t's.
LEMMA OtherScope ==
    ASSUME IInv, NEW t \in ScopeId,
           sc'[t] = sc[t], appended'[t] = appended[t], t \in made' <=> t \in made,
           Live(t) => mem'[sc[t].ring] = mem[sc[t].ring]
    PROVE  /\ Live(t)' <=> Live(t)
           /\ t \notin made' => sc'[t] = Fresh(NoBox, FALSE) /\ appended'[t] = <<>>
           /\ /\ sc'[t].tripped = sc'[t].tripState
              /\ sc'[t].tripState \/ sc'[t].closed => sc'[t].length = 0
           /\ Live(t)' /\ ~sc'[t].tripState => HoldsNewest(t)'
           /\ Live(t)' => HoldsNothingElse(t)'
<1>1. Live(t)' <=> Live(t)
  BY DEF Live
<1>2. t \notin made' => sc'[t] = Fresh(NoBox, FALSE) /\ appended'[t] = <<>>
  BY DEF IInv, Untouched
<1>3. /\ sc'[t].tripped = sc'[t].tripState
      /\ sc'[t].tripState \/ sc'[t].closed => sc'[t].length = 0
  BY DEF IInv, Flags
<1>4. Live(t)' /\ ~sc'[t].tripState => HoldsNewest(t)'
  BY <1>1 DEF IInv, HeldIsNewest, HoldsNewest, Index
<1>5. Live(t)' => HoldsNothingElse(t)'
  BY <1>1 DEF IInv, RetainsOnlyHeld, HoldsNothingElse, Index
<1>6. QED
  BY <1>1, <1>2, <1>3, <1>4, <1>5

\* A call that only answers.
LEMMA AnswerKeepsIInv ==
    ASSUME IInv, UNCHANGED <<mem, free, made, sc, appended, batch, lost>>,
           reply' \in Answers
    PROVE  IInv'
<1>1. TypeOK'
  BY DEF IInv, TypeOK
<1>2. Untouched' /\ Flags'
  BY DEF IInv, Untouched, Flags
<1>3. OwnedOnce'
  BY DEF IInv, OwnedOnce, Live
<1>4. HeldIsNewest'
  BY DEF IInv, HeldIsNewest, HoldsNewest, Live, Index
<1>5. RetainsOnlyHeld'
  BY DEF IInv, RetainsOnlyHeld, HoldsNothingElse, Live, Index
<1>6. QED
  BY <1>1, <1>2, <1>3, <1>4, <1>5 DEF IInv

\* A call that draws on the budget.
LEMMA GrantKeepsIInv ==
    ASSUME IInv, NEW s \in made,
           sc' = [sc EXCEPT ![s].postTrip = @ + 1],
           reply' \in Answers,
           UNCHANGED <<mem, free, made, appended, batch, lost>>
    PROVE  IInv'
<1>1. s \in ScopeId /\ sc \in [ScopeId -> ScopeRecord]
  BY DEF IInv, TypeOK
<1>2. sc' \in [ScopeId -> ScopeRecord]
  BY <1>1 DEF ScopeRecord
<1>3. \A t \in ScopeId :
        /\ sc'[t].ring = sc[t].ring /\ sc'[t].start = sc[t].start
        /\ sc'[t].length = sc[t].length /\ sc'[t].dropped = sc[t].dropped
        /\ sc'[t].tripped = sc[t].tripped /\ sc'[t].tripState = sc[t].tripState
        /\ sc'[t].closed = sc[t].closed
        /\ t # s => sc'[t] = sc[t]
  BY <1>1 DEF ScopeRecord
<1>4. TypeOK'
  BY <1>2 DEF IInv, TypeOK
<1>5. Untouched'
  <2>1. ASSUME NEW t \in ScopeId \ made PROVE sc'[t] = sc[t]
    BY <1>3, <2>1
  <2>2. QED
    BY <2>1 DEF IInv, Untouched
<1>6. Flags'
  BY <1>1, <1>3 DEF IInv, Flags
<1>7. \A t \in ScopeId : /\ Live(t)' <=> Live(t)
                         /\ \A i : Index(sc[t], i)' = Index(sc[t], i)
  BY <1>3 DEF Live, Index
<1>8. OwnedOnce'
  BY <1>1, <1>3, <1>7 DEF IInv, OwnedOnce, TypeOK
<1>9. HeldIsNewest'
  BY <1>3, <1>7, SMTT(30) DEF IInv, HeldIsNewest, HoldsNewest
<1>10. RetainsOnlyHeld'
  BY <1>3, <1>7 DEF IInv, RetainsOnlyHeld, HoldsNothingElse
<1>11. QED
  BY <1>4, <1>5, <1>6, <1>8, <1>9, <1>10 DEF IInv

\* Append into a scope that still records.
LEMMA BufferKeepsIInv ==
    ASSUME IInv, NEW s \in made, NEW e \in Entry, AppendBuffers(s, e)
    PROVE  IInv'
<1> DEFINE r == sc[s]
           k == Index(r, r.length)
<1>1. /\ s \in ScopeId /\ r \in ScopeRecord /\ Live(s)
      /\ r.ring \in Box /\ r.ring \notin free /\ ~r.closed /\ ~r.tripState
      /\ \A t \in ScopeId \ {s} : sc[t].ring # r.ring
      /\ mem \in [Box -> [Slots -> Entry \cup {Zero}]]
  BY DEF IInv, TypeOK, OwnedOnce, Live, AppendBuffers
<1>2. /\ Capacity \in Nat \ {0} /\ r.start \in Slots /\ r.length \in 0 .. Capacity
      /\ r.dropped \in Nat /\ k \in Slots
      /\ k = (r.start + r.length) % Capacity
  BY <1>1, Normalised, Wrap DEF ScopeRecord, Index
<1>3. /\ mem'[r.ring] = [mem[r.ring] EXCEPT ![k] = e]
      /\ \A b \in Box : b # r.ring => mem'[b] = mem[b]
      /\ mem' \in [Box -> [Slots -> Entry \cup {Zero}]]
  BY <1>1, <1>2 DEF AppendBuffers
<1>4. /\ sc'[s] = AfterWrite(r)
      /\ \A t \in ScopeId \ {s} : sc'[t] = sc[t]
      /\ appended'[s] = Append(appended[s], e)
      /\ \A t \in ScopeId \ {s} : appended'[t] = appended[t]
      /\ appended[s] \in Seq(Entry)
  BY <1>1 DEF AppendBuffers, IInv, TypeOK
<1>5. /\ sc'[s] \in ScopeRecord
      /\ sc'[s].ring = r.ring
      /\ sc'[s].closed = r.closed /\ sc'[s].tripState = r.tripState
      /\ sc'[s].tripped = r.tripped
  <2>1. (r.start + 1) % Capacity \in Slots /\ 1 \in 0 .. Capacity
    BY <1>2, Wrap
  <2>2. CASE r.length = Capacity
    <3>1. r.dropped + 1 \in Nat
      BY <1>2
    <3>2. sc'[s] = [r EXCEPT !.start = (r.start + 1) % Capacity,
                             !.dropped = r.dropped + 1]
      BY <1>4, <2>2 DEF AfterWrite
    <3>3. QED
      BY <1>1, <2>1, <3>1, <3>2 DEF ScopeRecord
  <2>3. CASE r.length < Capacity
    <3>1. r.length + 1 \in 0 .. Capacity
      BY <1>2, <2>3
    <3>2. sc'[s] = [r EXCEPT !.length = r.length + 1]
      BY <1>2, <1>4, <2>3 DEF AfterWrite
    <3>3. QED
      BY <1>1, <3>1, <3>2 DEF ScopeRecord
  <2>4. QED
    BY <1>2, <2>2, <2>3
<1>6. /\ Len(appended[s]) \in Nat
      /\ Len(appended'[s]) = Len(appended[s]) + 1
      /\ \A i \in 1 .. Len(appended[s]) : appended'[s][i] = appended[s][i]
      /\ appended'[s][Len(appended[s]) + 1] = e
  BY <1>4
<1>7. /\ HoldsNewest(s) /\ HoldsNothingElse(s)
      /\ r.length = IF Len(appended[s]) > Capacity THEN Capacity ELSE Len(appended[s])
      /\ r.dropped = Len(appended[s]) - r.length
  BY <1>1 DEF IInv, HeldIsNewest, RetainsOnlyHeld, HoldsNewest
<1>8. HoldsNewest(s)' /\ HoldsNothingElse(s)'
  <2>1. CASE r.length < Capacity
    <3>1. /\ sc'[s].length = r.length + 1 /\ sc'[s].start = r.start
          /\ sc'[s].dropped = r.dropped
      BY <1>1, <1>2, <1>4, <2>1 DEF AfterWrite, ScopeRecord
    <3>2. \A i : Index(sc[s], i)' = Index(r, i)
      BY <3>1 DEF Index
    <3>3. \A i \in 0 .. r.length - 1 :
            /\ Index(r, i) \in Slots
            /\ Index(r, i) # k
      BY <1>2, <2>1, Wrap, IndexInjective, SMTT(30) DEF Index
    <3>4. r.dropped = 0 /\ r.length = Len(appended[s])
      BY <1>2, <1>6, <1>7, <2>1 DEF HoldsNewest
    <3>5. \A i \in 0 .. r.length :
            mem'[r.ring][Index(r, i)] = appended'[s][i + 1]
      <4>1. ASSUME NEW i \in 0 .. r.length - 1
            PROVE  mem'[r.ring][Index(r, i)] = appended'[s][i + 1]
        <5>1. mem[r.ring][Index(r, i)] = appended[s][i + 1]
          BY <1>7, <3>4 DEF HoldsNewest
        <5>2. mem'[r.ring][Index(r, i)] = mem[r.ring][Index(r, i)]
          BY <1>1, <1>2, <1>3, <3>3
        <5>3. i + 1 \in 1 .. Len(appended[s])
          BY <3>4, <1>2
        <5>4. QED
          BY <5>1, <5>2, <5>3, <1>6
      <4>2. mem'[r.ring][k] = e
        BY <1>1, <1>2, <1>3
      <4>3. QED
        BY <1>2, <1>6, <3>4, <4>1, <4>2, SMTT(30)
    <3>6. HoldsNewest(s)'
      BY <1>2, <1>5, <1>6, <3>1, <3>2, <3>4, <3>5, <2>1 DEF HoldsNewest
    <3>7. HoldsNothingElse(s)'
      <4>1. ASSUME NEW i \in Slots,
                   ~ \E j \in 0 .. r.length : i = Index(r, j)
            PROVE  mem'[r.ring][i] = Zero
        <5>1. i # k /\ ~ \E j \in 0 .. r.length - 1 : i = Index(r, j)
          BY <1>2, <4>1
        <5>2. QED
          BY <1>1, <1>2, <1>3, <1>7, <5>1 DEF HoldsNothingElse
      <4>2. QED
        BY <1>2, <1>5, <3>1, <3>2, <4>1 DEF HoldsNothingElse
    <3>8. QED
      BY <3>6, <3>7
  <2>2. CASE r.length = Capacity
    <3>1. /\ sc'[s].length = r.length
          /\ sc'[s].start = (r.start + 1) % Capacity
          /\ sc'[s].dropped = r.dropped + 1
      BY <1>1, <1>2, <1>4, <2>2 DEF AfterWrite, ScopeRecord
    <3>2. \A i \in 0 .. Capacity - 1 : Index(sc[s], i)' = Index(r, i + 1)
      BY <1>2, <3>1, IndexShift DEF Index
    <3>3. k = Index(r, 0) /\ k = Index(r, Capacity)
      <4>1. 0 \in 0 .. Capacity /\ Capacity \in 0 .. Capacity
        BY <1>2
      <4>2. r.start \in Nat /\ r.start < Capacity
        BY <1>2, Normalised DEF Slots
      <4>3. (r.start + 0) % Capacity = r.start
        BY <1>2, <4>1, <4>2, Wrap
      <4>4. (r.start + Capacity) % Capacity = r.start
        BY <1>2, <4>1, <4>2, Wrap
      <4>5. QED
        BY <1>2, <2>2, <4>3, <4>4 DEF Index
    <3>4. \A i \in 1 .. Capacity - 1 :
            /\ Index(r, i) \in Slots
            /\ Index(r, i) # k
      <4>1. ASSUME NEW i \in 1 .. Capacity - 1
            PROVE  Index(r, i) \in Slots /\ Index(r, i) # k
        <5>1. i \in 0 .. Capacity /\ i \in 0 .. Capacity - 1 /\ 0 \in 0 .. Capacity - 1
          BY <1>2
        <5>2. QED
          BY <1>2, <3>3, <5>1, Wrap, IndexInjective DEF Index
      <4>2. QED
        BY <4>1
    <3>5. r.dropped + Capacity = Len(appended[s])
      <4>1. r.dropped = Len(appended[s]) - Capacity
        BY <1>7, <2>2
      <4>2. Len(appended[s]) \in Nat /\ Capacity \in Nat
        BY <1>2, <1>6
      <4>3. QED
        BY <4>1, <4>2
    <3>6. \A i \in 1 .. Capacity :
            mem'[r.ring][Index(r, i)] = appended'[s][r.dropped + i + 1]
      <4>1. ASSUME NEW i \in 1 .. Capacity - 1
            PROVE  mem'[r.ring][Index(r, i)] = appended'[s][r.dropped + i + 1]
        <5>1. i \in 0 .. r.length - 1
          BY <1>2, <2>2
        <5>2. mem[r.ring][Index(r, i)] = appended[s][r.dropped + i + 1]
          BY <1>7, <5>1 DEF HoldsNewest
        <5>3. mem'[r.ring][Index(r, i)] = mem[r.ring][Index(r, i)]
          BY <1>1, <1>2, <1>3, <3>4
        <5>4. r.dropped + i + 1 \in 1 .. Len(appended[s])
          BY <3>5, <1>2
        <5>5. QED
          BY <5>2, <5>3, <5>4, <1>6
      <4>2. mem'[r.ring][k] = e
        BY <1>1, <1>2, <1>3
      <4>3. QED
        BY <1>2, <1>6, <3>3, <3>5, <4>1, <4>2, SMTT(30)
    <3>7. HoldsNewest(s)'
      <4>1. ASSUME NEW i \in 0 .. Capacity - 1
            PROVE  mem'[r.ring][Index(sc[s], i)']
                       = appended'[s][sc'[s].dropped + i + 1]
        <5>1. i + 1 \in 1 .. Capacity
          BY <1>2
        <5>2. r.dropped + (i + 1) + 1 = sc'[s].dropped + i + 1
          BY <1>2, <3>1
        <5>3. QED
          BY <3>2, <3>6, <5>1, <5>2
      <4>2. /\ sc'[s].length = Capacity
            /\ Len(appended'[s]) > Capacity
            /\ sc'[s].dropped = Len(appended'[s]) - Capacity
        BY <1>2, <1>6, <2>2, <3>1, <3>5
      <4>3. QED
        BY <1>5, <4>1, <4>2, <2>2 DEF HoldsNewest
    <3>8. HoldsNothingElse(s)'
      <4>1. ASSUME NEW i \in Slots
            PROVE  \E j \in 0 .. Capacity - 1 : i = Index(sc[s], j)'
        <5>1. (r.start + 1) % Capacity \in Slots /\ 1 \in 0 .. Capacity
          BY <1>2, Wrap
        <5>2. QED
          BY <3>1, <5>1, IndexOnto DEF Index
      <4>2. QED
        BY <2>2, <3>1, <4>1 DEF HoldsNothingElse
    <3>9. QED
      BY <3>7, <3>8
  <2>3. QED
    BY <1>2, <2>1, <2>2
<1>9. \A t \in ScopeId \ {s} :
        Live(t) => sc[t].ring \in Box /\ mem'[sc[t].ring] = mem[sc[t].ring]
  BY <1>1, <1>3 DEF IInv, OwnedOnce
<1>10. TypeOK'
  <2>1. sc' \in [ScopeId -> ScopeRecord]
    BY <1>1, <1>5 DEF AppendBuffers, IInv, TypeOK
  <2>2. appended' \in [ScopeId -> Seq(Entry)]
    BY <1>1 DEF AppendBuffers, IInv, TypeOK
  <2>3. reply' \in Answers
    BY <1>1 DEF AppendBuffers, Answer, Answers
  <2>4. QED
    BY <1>3, <2>1, <2>2, <2>3 DEF AppendBuffers, IInv, TypeOK
<1>11. Live(s)' /\ made' = made /\ free' = free
  BY <1>5 DEF AppendBuffers, Live
<1>12. \A t \in ScopeId \ {s} :
        /\ Live(t)' <=> Live(t)
        /\ t \notin made' => sc'[t] = Fresh(NoBox, FALSE) /\ appended'[t] = <<>>
        /\ /\ sc'[t].tripped = sc'[t].tripState
           /\ sc'[t].tripState \/ sc'[t].closed => sc'[t].length = 0
        /\ Live(t)' /\ ~sc'[t].tripState => HoldsNewest(t)'
        /\ Live(t)' => HoldsNothingElse(t)'
  BY <1>4, <1>9, <1>11, OtherScope
<1>13. Untouched'
  BY <1>11, <1>12 DEF Untouched
<1>14. Flags'
  <2>1. sc'[s].tripped = sc'[s].tripState
    BY <1>1, <1>5 DEF Flags, IInv
  <2>2. ~(sc'[s].tripState \/ sc'[s].closed)
    BY <1>1, <1>5
  <2>3. QED
    BY <1>12, <2>1, <2>2 DEF Flags
<1>15. OwnedOnce'
  <2>1. \A t \in ScopeId : sc'[t].ring = sc[t].ring /\ sc'[t].closed = sc[t].closed
    BY <1>1, <1>4, <1>5
  <2>2. \A t \in ScopeId : Live(t)' <=> Live(t)
    BY <1>1, <1>11, <1>12
  <2>3. made \subseteq ScopeId
    BY DEF IInv, TypeOK
  <2>4. QED
    BY <1>11, <2>1, <2>2, <2>3 DEF IInv, OwnedOnce
<1>16. HeldIsNewest'
  BY <1>8, <1>12 DEF HeldIsNewest
<1>17. RetainsOnlyHeld'
  <2>1. \A b \in free : b \in Box /\ b # r.ring
    BY <1>1 DEF IInv, TypeOK
  <2>2. QED
    BY <1>3, <1>8, <1>11, <1>12, <2>1 DEF IInv, RetainsOnlyHeld, Blank
<1>18. QED
  BY <1>10, <1>13, <1>14, <1>15, <1>16, <1>17 DEF IInv

\* A trip hands the held entries over and empties the ring.
LEMMA TripKeepsIInv ==
    ASSUME IInv, NEW s \in made, Trip(s)
    PROVE  IInv'
<1> DEFINE r == sc[s]
<1>1. /\ s \in ScopeId /\ r \in ScopeRecord /\ Live(s)
      /\ r.ring \in Box /\ r.ring \notin free /\ ~r.closed /\ ~r.tripState
      /\ \A t \in ScopeId \ {s} : sc[t].ring # r.ring
      /\ mem \in [Box -> [Slots -> Entry \cup {Zero}]]
  BY DEF IInv, TypeOK, OwnedOnce, Live, Trip
<1>2. r.ring # NoBox /\ Blank \in [Slots -> Entry \cup {Zero}]
  BY <1>1, NilsAssumption DEF Blank
<1>3. /\ mem'[r.ring] = Blank
      /\ \A b \in Box : b # r.ring => mem'[b] = mem[b]
      /\ mem' \in [Box -> [Slots -> Entry \cup {Zero}]]
  BY <1>1, <1>2 DEF Trip, ClearRing
<1>4. /\ sc'[s] = AfterTrip(r)
      /\ \A t \in ScopeId \ {s} : sc'[t] = sc[t]
      /\ UNCHANGED <<made, free, appended>>
  BY <1>1 DEF Trip, IInv, TypeOK
<1>5. /\ sc'[s] \in ScopeRecord
      /\ sc'[s].ring = r.ring /\ sc'[s].length = 0
      /\ sc'[s].closed = r.closed /\ sc'[s].tripState = TRUE /\ sc'[s].tripped = TRUE
  <2>1. 0 \in Slots /\ 0 \in 0 .. Capacity
    BY Normalised
  <2>2. sc'[s] = [r EXCEPT !.tripState = TRUE, !.tripped = TRUE, !.start = 0,
                           !.length = 0]
    BY <1>4 DEF AfterTrip
  <2>3. QED
    BY <1>1, <2>1, <2>2 DEF ScopeRecord
<1>6. \A t \in ScopeId \ {s} :
        Live(t) => sc[t].ring \in Box /\ mem'[sc[t].ring] = mem[sc[t].ring]
  BY <1>1, <1>3 DEF IInv, OwnedOnce
<1>7. \A t \in ScopeId \ {s} :
        /\ Live(t)' <=> Live(t)
        /\ t \notin made' => sc'[t] = Fresh(NoBox, FALSE) /\ appended'[t] = <<>>
        /\ /\ sc'[t].tripped = sc'[t].tripState
           /\ sc'[t].tripState \/ sc'[t].closed => sc'[t].length = 0
        /\ Live(t)' /\ ~sc'[t].tripState => HoldsNewest(t)'
        /\ Live(t)' => HoldsNothingElse(t)'
  BY <1>4, <1>6, OtherScope
<1>8. Held(r) \in Seq(Entry)
  <2>1. r.length \in Nat /\ r.dropped \in Nat /\ r.length <= Len(appended[s])
        /\ appended[s] \in Seq(Entry) /\ HoldsNewest(s)
        /\ r.dropped = Len(appended[s]) - r.length
    <3>1. HoldsNewest(s) /\ r.length \in 0 .. Capacity /\ r.dropped \in Nat
          /\ appended[s] \in Seq(Entry)
      BY <1>1 DEF IInv, HeldIsNewest, ScopeRecord, TypeOK
    <3>2. /\ r.length = IF Len(appended[s]) > Capacity THEN Capacity
                                                   ELSE Len(appended[s])
          /\ r.dropped = Len(appended[s]) - r.length
      BY <3>1 DEF HoldsNewest
    <3>3. Capacity \in Nat /\ Len(appended[s]) \in Nat
      BY <3>1, Normalised
    <3>4. QED
      BY <3>1, <3>2, <3>3
  <2>2. ASSUME NEW i \in 1 .. r.length
        PROVE  mem[r.ring][Index(r, i - 1)] \in Entry
    <3>1. i - 1 \in 0 .. r.length - 1 /\ r.dropped + (i - 1) + 1 \in 1 .. Len(appended[s])
      BY <2>1
    <3>2. mem[r.ring][Index(r, i - 1)] = appended[s][r.dropped + (i - 1) + 1]
      BY <2>1, <3>1 DEF HoldsNewest
    <3>3. QED
      BY <2>1, <3>1, <3>2
  <2>3. QED
    BY <2>1, <2>2 DEF Held
<1>9. TypeOK'
  <2>1. sc' \in [ScopeId -> ScopeRecord]
    BY <1>1, <1>5 DEF Trip, IInv, TypeOK
  <2>2. batch' \in [ScopeId -> Seq(Entry)]
    BY <1>1, <1>8 DEF Trip, IInv, TypeOK
  <2>3. lost' \in [ScopeId -> Nat]
    BY <1>1 DEF Trip, IInv, TypeOK, ScopeRecord
  <2>4. reply' \in Answers
    BY <1>1 DEF Trip, Answer, Answers
  <2>5. QED
    BY <1>3, <1>4, <2>1, <2>2, <2>3, <2>4 DEF IInv, TypeOK
<1>10. Untouched'
  BY <1>4, <1>7 DEF Untouched
<1>11. Flags'
  BY <1>5, <1>7 DEF Flags
<1>12. OwnedOnce'
  <2>1. \A t \in ScopeId : sc'[t].ring = sc[t].ring /\ sc'[t].closed = sc[t].closed
    BY <1>1, <1>4, <1>5
  <2>2. made \subseteq ScopeId
    BY DEF IInv, TypeOK
  <2>3. QED
    BY <1>4, <2>1, <2>2 DEF IInv, OwnedOnce, Live
<1>13. HeldIsNewest'
  BY <1>5, <1>7 DEF HeldIsNewest
<1>14. RetainsOnlyHeld'
  <2>1. HoldsNothingElse(s)'
    BY <1>3, <1>5 DEF HoldsNothingElse, Blank
  <2>2. \A b \in free : b \in Box /\ b # r.ring
    BY <1>1 DEF IInv, TypeOK
  <2>3. QED
    BY <1>3, <1>4, <1>7, <2>1, <2>2 DEF IInv, RetainsOnlyHeld, Blank
<1>15. QED
  BY <1>9, <1>10, <1>11, <1>12, <1>13, <1>14 DEF IInv

\* A close empties the ring and lets go of it, into the pool it came from.
LEMMA CloseKeepsIInv ==
    ASSUME IInv, NEW s \in made, Close(s)
    PROVE  IInv'
<1> DEFINE r == sc[s]
<1>1. /\ s \in ScopeId /\ r \in ScopeRecord /\ Live(s)
      /\ r.ring \in Box /\ r.ring \notin free /\ ~r.closed
      /\ \A t \in ScopeId \ {s} : sc[t].ring # r.ring
      /\ mem \in [Box -> [Slots -> Entry \cup {Zero}]]
  BY DEF IInv, TypeOK, OwnedOnce, Live, Close
<1>2. r.ring # NoBox /\ Blank \in [Slots -> Entry \cup {Zero}]
  BY <1>1, NilsAssumption DEF Blank
<1>3. /\ mem'[r.ring] = Blank
      /\ \A b \in Box : b # r.ring => mem'[b] = mem[b]
      /\ mem' \in [Box -> [Slots -> Entry \cup {Zero}]]
  BY <1>1, <1>2 DEF Close, ClearRing
<1>4. /\ sc'[s] = AfterClose(r)
      /\ \A t \in ScopeId \ {s} : sc'[t] = sc[t]
      /\ UNCHANGED <<made, appended, batch, lost>>
  BY <1>1 DEF Close, IInv, TypeOK
<1>5. /\ sc'[s] \in ScopeRecord
      /\ sc'[s].ring = NoBox /\ sc'[s].length = 0 /\ sc'[s].closed = TRUE
      /\ sc'[s].tripState = r.tripState /\ sc'[s].tripped = r.tripped
  <2>1. 0 \in Slots /\ 0 \in 0 .. Capacity
    BY Normalised
  <2>2. sc'[s] = [r EXCEPT !.closed = TRUE, !.start = 0, !.length = 0,
                           !.ring = NoBox, !.pooled = FALSE]
    BY <1>4 DEF AfterClose
  <2>3. QED
    BY <1>1, <2>1, <2>2 DEF ScopeRecord
<1>6. free \subseteq free' /\ free' \subseteq free \cup {r.ring}
  BY DEF Close
<1>7. \A t \in ScopeId \ {s} :
        Live(t) => sc[t].ring \in Box /\ mem'[sc[t].ring] = mem[sc[t].ring]
  BY <1>1, <1>3 DEF IInv, OwnedOnce
<1>8. \A t \in ScopeId \ {s} :
        /\ Live(t)' <=> Live(t)
        /\ t \notin made' => sc'[t] = Fresh(NoBox, FALSE) /\ appended'[t] = <<>>
        /\ /\ sc'[t].tripped = sc'[t].tripState
           /\ sc'[t].tripState \/ sc'[t].closed => sc'[t].length = 0
        /\ Live(t)' /\ ~sc'[t].tripState => HoldsNewest(t)'
        /\ Live(t)' => HoldsNothingElse(t)'
  BY <1>4, <1>7, OtherScope
<1>9. TypeOK'
  <2>1. sc' \in [ScopeId -> ScopeRecord]
    BY <1>1, <1>5 DEF Close, IInv, TypeOK
  <2>2. free' \in SUBSET Box
    BY <1>1, <1>6 DEF IInv, TypeOK
  <2>3. reply' \in Answers
    BY <1>1 DEF Close, Answer, Answers
  <2>4. QED
    BY <1>3, <1>4, <2>1, <2>2, <2>3 DEF IInv, TypeOK
<1>10. Untouched'
  BY <1>4, <1>8 DEF Untouched
<1>11. Flags'
  <2>1. sc'[s].tripped = sc'[s].tripState /\ sc'[s].length = 0
    BY <1>1, <1>5 DEF IInv, Flags
  <2>2. QED
    BY <1>8, <2>1 DEF Flags
<1>12. ~Live(s)'
  BY <1>5 DEF Live
<1>13. OwnedOnce'
  <2>1. ASSUME NEW t \in made', sc'[t].closed PROVE sc'[t].ring = NoBox
    BY <1>1, <1>4, <1>5, <2>1 DEF IInv, OwnedOnce, TypeOK
  <2>2. ASSUME NEW t \in ScopeId, Live(t)'
        PROVE  /\ sc'[t].ring \in Box \ free'
               /\ \A u \in ScopeId \ {t} : sc'[u].ring # sc'[t].ring
    <3>1. t # s /\ Live(t) /\ sc'[t] = sc[t]
      BY <1>4, <1>8, <1>12, <2>2
    <3>2. /\ sc[t].ring \in Box \ free
          /\ \A u \in ScopeId \ {t} : sc[u].ring # sc[t].ring
      BY <3>1 DEF IInv, OwnedOnce
    <3>3. sc[t].ring \notin free'
      BY <1>1, <1>6, <3>1, <3>2
    <3>4. \A u \in ScopeId \ {t} : sc'[u].ring # sc[t].ring
      BY <1>4, <1>5, <3>2, NilsAssumption
    <3>5. QED
      BY <3>1, <3>2, <3>3, <3>4
  <2>3. QED
    BY <2>1, <2>2 DEF OwnedOnce
<1>14. HeldIsNewest'
  BY <1>8, <1>12 DEF HeldIsNewest
<1>15. RetainsOnlyHeld'
  <2>1. \A b \in free' : b = r.ring \/ (b \in free /\ b \in Box /\ b # r.ring)
    BY <1>1, <1>6 DEF IInv, TypeOK
  <2>2. \A b \in free' : mem'[b] = Blank
    BY <1>3, <2>1 DEF IInv, RetainsOnlyHeld, Blank
  <2>3. QED
    BY <1>8, <1>12, <2>2 DEF RetainsOnlyHeld, Blank
<1>16. QED
  BY <1>9, <1>10, <1>11, <1>13, <1>14, <1>15 DEF IInv

\* A new scope takes over a ring that nobody else refers to and that is empty.
LEMMA AdoptKeepsIInv ==
    ASSUME IInv, NEW s \in ScopeId, NEW b \in Box, NEW fromPool \in BOOLEAN,
           Adopt(s, b, fromPool),
           \A t \in ScopeId : sc[t].ring # b,
           \/ mem' = [mem EXCEPT ![b] = Blank] /\ b \notin free /\ free' = free
           \/ mem' = mem /\ b \in free /\ free' = free \ {b}
    PROVE  IInv'
<1>1. /\ s \notin made /\ made' = made \cup {s} /\ appended[s] = <<>>
      /\ appended' = appended /\ batch' = batch /\ lost' = lost
      /\ made \subseteq ScopeId /\ free \subseteq Box
      /\ mem \in [Box -> [Slots -> Entry \cup {Zero}]]
  BY DEF IInv, TypeOK, Adopt, Untouched
<1>2. /\ mem'[b] = Blank
      /\ \A c \in Box : c # b => mem'[c] = mem[c]
      /\ mem' \in [Box -> [Slots -> Entry \cup {Zero}]]
  BY <1>1 DEF IInv, RetainsOnlyHeld, Blank
<1>3. /\ sc'[s] = Fresh(b, fromPool)
      /\ \A t \in ScopeId \ {s} : sc'[t] = sc[t]
  BY DEF Adopt, IInv, TypeOK
<1>4. /\ sc'[s] \in ScopeRecord
      /\ sc'[s].ring = b /\ sc'[s].length = 0 /\ sc'[s].dropped = 0
      /\ sc'[s].closed = FALSE /\ sc'[s].tripState = FALSE /\ sc'[s].tripped = FALSE
  <2>1. 0 \in Slots /\ 0 \in 0 .. Capacity
    BY Normalised
  <2>2. QED
    BY <1>3, <2>1 DEF Fresh, ScopeRecord
<1>5. \A t \in ScopeId \ {s} :
        /\ t \in made' <=> t \in made
        /\ Live(t) => sc[t].ring \in Box /\ mem'[sc[t].ring] = mem[sc[t].ring]
  BY <1>1, <1>2 DEF IInv, OwnedOnce
<1>6. \A t \in ScopeId \ {s} :
        /\ Live(t)' <=> Live(t)
        /\ t \notin made' => sc'[t] = Fresh(NoBox, FALSE) /\ appended'[t] = <<>>
        /\ /\ sc'[t].tripped = sc'[t].tripState
           /\ sc'[t].tripState \/ sc'[t].closed => sc'[t].length = 0
        /\ Live(t)' /\ ~sc'[t].tripState => HoldsNewest(t)'
        /\ Live(t)' => HoldsNothingElse(t)'
  BY <1>1, <1>3, <1>5, OtherScope
<1>7. TypeOK'
  <2>1. sc' \in [ScopeId -> ScopeRecord]
    BY <1>3, <1>4 DEF Adopt, IInv, TypeOK
  <2>2. reply' \in Answers
    BY DEF Adopt, Answer, Answers
  <2>3. free' \in SUBSET Box /\ made' \in SUBSET ScopeId
    BY <1>1
  <2>4. QED
    BY <1>1, <1>2, <2>1, <2>2, <2>3 DEF IInv, TypeOK
<1>8. Untouched'
  BY <1>1, <1>6 DEF Untouched
<1>9. Flags'
  BY <1>4, <1>6 DEF Flags
<1>10. OwnedOnce'
  <2>1. ASSUME NEW t \in made', sc'[t].closed PROVE sc'[t].ring = NoBox
    BY <1>1, <1>3, <1>4, <2>1 DEF IInv, OwnedOnce
  <2>2. ASSUME NEW t \in ScopeId, Live(t)'
        PROVE  /\ sc'[t].ring \in Box \ free'
               /\ \A u \in ScopeId \ {t} : sc'[u].ring # sc'[t].ring
    <3>1. CASE t = s
      BY <1>1, <1>3, <1>4, <3>1
    <3>2. CASE t # s
      <4>1. /\ sc'[t] = sc[t] /\ sc[t].ring \in Box \ free
            /\ \A u \in ScopeId \ {t} : sc[u].ring # sc[t].ring
        BY <1>3, <1>6, <2>2, <3>2 DEF IInv, OwnedOnce
      <4>2. QED
        BY <1>1, <1>3, <1>4, <4>1
    <3>3. QED
      BY <3>1, <3>2
  <2>3. QED
    BY <2>1, <2>2 DEF OwnedOnce
<1>11. HeldIsNewest'
  <2>1. Len(appended'[s]) = 0 /\ Capacity \in Nat \ {0}
    BY <1>1, Normalised
  <2>2. HoldsNewest(s)'
    BY <1>4, <2>1 DEF HoldsNewest
  <2>3. QED
    BY <1>6, <2>2 DEF HeldIsNewest
<1>12. RetainsOnlyHeld'
  <2>1. HoldsNothingElse(s)'
    BY <1>2, <1>4 DEF HoldsNothingElse, Blank
  <2>2. \A c \in free' : c \in free /\ c \in Box /\ c # b
    BY <1>1
  <2>3. QED
    BY <1>2, <1>6, <2>1, <2>2 DEF IInv, RetainsOnlyHeld, Blank
<1>13. QED
  BY <1>7, <1>8, <1>9, <1>10, <1>11, <1>12 DEF IInv

\* A ring lying in the pool is referred to by no scope.
LEMMA PooledIsUnreferenced ==
    ASSUME IInv, NEW b \in free
    PROVE  b \in Box /\ \A t \in ScopeId : sc[t].ring # b
<1>1. b \in Box /\ b # NoBox
  BY NilsAssumption DEF IInv, TypeOK
<1>2. ASSUME NEW t \in ScopeId PROVE sc[t].ring # b
  <2>1. CASE Live(t)
    BY <2>1 DEF IInv, OwnedOnce
  <2>2. CASE t \in made /\ sc[t].closed
    BY <1>1, <2>2 DEF IInv, OwnedOnce
  <2>3. CASE t \notin made
    BY <1>1, <2>3 DEF IInv, Untouched, Fresh
  <2>4. QED
    BY <2>1, <2>2, <2>3 DEF Live
<1>3. QED
  BY <1>1, <1>2

\* The garbage collector empties a pool.
LEMMA CollectKeepsIInv ==
    ASSUME IInv, Collect
    PROVE  IInv'
<1>1. /\ free' \subseteq free
      /\ UNCHANGED <<mem, made, sc, appended, batch, lost, reply>>
  BY DEF Collect
<1>2. TypeOK'
  BY <1>1 DEF IInv, TypeOK
<1>3. Untouched' /\ Flags'
  BY <1>1 DEF IInv, Untouched, Flags
<1>4. OwnedOnce'
  BY <1>1 DEF IInv, OwnedOnce, Live
<1>5. HeldIsNewest'
  BY <1>1 DEF IInv, HeldIsNewest, HoldsNewest, Live, Index
<1>6. RetainsOnlyHeld'
  BY <1>1 DEF IInv, RetainsOnlyHeld, HoldsNothingElse, Live, Index
<1>7. QED
  BY <1>2, <1>3, <1>4, <1>5, <1>6 DEF IInv

\* Every call a program makes keeps the inductive invariant.
LEMMA CallsKeepIInv ==
    ASSUME IInv, NEW s \in made, Calls(s)
    PROVE  IInv'
<1>1. s \in ScopeId
  BY DEF IInv, TypeOK
<1>2. CASE AppendClosed(s)
  BY <1>1, <1>2, AnswerKeepsIInv DEF AppendClosed, Answer, Answers
<1>3. CASE AppendSpent(s)
  BY <1>1, <1>3, AnswerKeepsIInv DEF AppendSpent, Answer, Answers
<1>4. CASE AppendPasses(s)
  <2>1. reply' \in Answers
    BY <1>1, <1>4 DEF AppendPasses, Answer, Answers
  <2>2. QED
    BY <1>4, <2>1, GrantKeepsIInv DEF AppendPasses
<1>5. CASE \E e \in Entry : AppendBuffers(s, e)
  BY <1>5, BufferKeepsIInv
<1>6. CASE PassUntripped(s)
  BY <1>1, <1>6, AnswerKeepsIInv DEF PassUntripped, Answer, Answers
<1>7. CASE PassReleased(s)
  BY <1>1, <1>7, AnswerKeepsIInv DEF PassReleased, Answer, Answers
<1>8. CASE PassSpent(s)
  BY <1>1, <1>8, AnswerKeepsIInv DEF PassSpent, Answer, Answers
<1>9. CASE PassGranted(s)
  <2>1. reply' \in Answers
    BY <1>1, <1>9 DEF PassGranted, Answer, Answers
  <2>2. QED
    BY <1>9, <2>1, GrantKeepsIInv DEF PassGranted
<1>10. CASE Trip(s)
  BY <1>10, TripKeepsIInv
<1>11. CASE TripRefused(s)
  BY <1>1, <1>11, AnswerKeepsIInv DEF TripRefused, Answer, Answers
<1>12. CASE Close(s)
  BY <1>12, CloseKeepsIInv
<1>13. CASE CloseAgain(s)
  BY <1>1, <1>13, AnswerKeepsIInv DEF CloseAgain, Answer, Answers
<1>14. QED
  BY <1>2, <1>3, <1>4, <1>5, <1>6, <1>7, <1>8, <1>9, <1>10, <1>11, <1>12, <1>13
     DEF Calls

LEMMA NextIInv == IInv /\ [Next]_vars => IInv'
<1> SUFFICES ASSUME IInv, [Next]_vars PROVE IInv'
  OBVIOUS
<1>1. ASSUME NEW s \in ScopeId, NewScope(s) PROVE IInv'
  <2>1. PICK b \in Box : /\ Unreferenced(b) /\ mem' = [mem EXCEPT ![b] = Blank]
                         /\ Adopt(s, b, FALSE) /\ UNCHANGED free
    BY <1>1 DEF NewScope
  <2>2. QED
    BY <2>1, AdoptKeepsIInv DEF Unreferenced
<1>2. ASSUME NEW s \in ScopeId, GetRecycled(s) PROVE IInv'
  <2>1. PICK b \in free : free' = free \ {b} /\ Adopt(s, b, TRUE) /\ mem' = mem
    BY <1>2 DEF GetRecycled
  <2>2. b \in Box /\ \A t \in ScopeId : sc[t].ring # b
    BY PooledIsUnreferenced
  <2>3. QED
    BY <2>1, <2>2, AdoptKeepsIInv
<1>3. ASSUME NEW s \in ScopeId, GetFresh(s) PROVE IInv'
  <2>1. PICK b \in Box : /\ Unreferenced(b) /\ mem' = [mem EXCEPT ![b] = Blank]
                         /\ Adopt(s, b, TRUE) /\ UNCHANGED free
    BY <1>3 DEF GetFresh
  <2>2. QED
    BY <2>1, AdoptKeepsIInv DEF Unreferenced
<1>4. ASSUME NEW s \in made, Calls(s) PROVE IInv'
  BY <1>4, CallsKeepIInv
<1>5. CASE Collect
  BY <1>5, CollectKeepsIInv
<1>6. CASE UNCHANGED vars
  <2>1. reply' \in Answers
    BY <1>6 DEF vars, IInv, TypeOK
  <2>2. QED
    BY <1>6, <2>1, AnswerKeepsIInv DEF vars
<1>7. QED
  BY <1>1, <1>2, <1>3, <1>4, <1>5, <1>6 DEF Next

LEMMA Invariant == Spec => []IInv
<1>1. IInv /\ [Next]_vars => IInv'
  BY NextIInv
<1>2. QED
  BY InitIInv, <1>1, PTL DEF Spec

\* Every field of every scope keeps its range (scope.go:60-67).
THEOREM TypeCorrect == Spec => []TypeOK
<1>1. IInv => TypeOK
  BY DEF IInv
<1>2. QED
  BY Invariant, <1>1, PTL

\* No ring is ever shared by two scopes, or by a scope and the pool
\* (scope.go:205-209): what makes recycling rings safe.
THEOREM RingOwnedOnce == Spec => []OwnedOnce
<1>1. IInv => OwnedOnce
  BY DEF IInv
<1>2. QED
  BY Invariant, <1>1, PTL

\* The ring holds the newest entries, in order, and counts the rest
\* (scope.go:141-149), for every capacity and every number of wraps.
THEOREM RingHoldsNewest == Spec => []HeldIsNewest
<1>1. IInv => HeldIsNewest
  BY DEF IInv
<1>2. QED
  BY Invariant, <1>1, PTL

\* No ring keeps an entry its scope does not hold, and a pooled ring keeps none
\* (scope.go:229-238, pool.go:63-64).
THEOREM RingRetainsNothingElse == Spec => []RetainsOnlyHeld
<1>1. IInv => RetainsOnlyHeld
  BY DEF IInv
<1>2. QED
  BY Invariant, <1>1, PTL

-----------------------------------------------------------------------------
(* The scope implements the recorder. *)

LEMMA InitRefines == Init => R!Init
BY DEF Init, R!Init, Fresh

\* Each call maps to a step of the recorder.
LEMMA CallsRefine ==
    ASSUME IInv, NEW s \in made, Calls(s)
    PROVE  R!Calls(s)
<1>1. /\ s \in ScopeId /\ sc \in [ScopeId -> ScopeRecord] /\ s \in DOMAIN sc
      /\ sc[s] \in ScopeRecord /\ sc[s].tripped = sc[s].tripState
  BY DEF IInv, TypeOK, Flags
<1> DEFINE granted == [t \in ScopeId |-> sc[t].postTrip]
           tripped == [t \in ScopeId |-> sc[t].tripState]
           closed == [t \in ScopeId |-> sc[t].closed]
<1>2. /\ granted[s] = sc[s].postTrip /\ tripped[s] = sc[s].tripState
      /\ closed[s] = sc[s].closed
  BY <1>1
<1>3. R!Spent(s) <=> Spent(sc[s])
  BY <1>2 DEF R!Spent, Spent
<1>4. ASSUME sc' = [sc EXCEPT ![s].postTrip = @ + 1]
      PROVE  /\ granted' = [granted EXCEPT ![s] = @ + 1]
             /\ tripped' = tripped /\ closed' = closed
  BY <1>1, <1>4 DEF ScopeRecord
<1>5. CASE AppendClosed(s)
  BY <1>2, <1>5 DEF AppendClosed, R!Calls, R!Suppress, R!Answer, Answer
<1>6. CASE AppendSpent(s)
  BY <1>2, <1>3, <1>6 DEF AppendSpent, R!Calls, R!Suppress, R!Answer, Answer
<1>7. CASE AppendPasses(s)
  <2>1. R!Grant(s, "Append")
    BY <1>2, <1>3, <1>4, <1>7 DEF AppendPasses, R!Grant, R!Answer, Answer
  <2>2. QED
    BY <2>1 DEF R!Calls
<1>8. ASSUME NEW e \in Entry, AppendBuffers(s, e) PROVE R!Calls(s)
  <2>1. /\ sc' = [sc EXCEPT ![s] = AfterWrite(sc[s])]
        /\ AfterWrite(sc[s]).postTrip = sc[s].postTrip
        /\ AfterWrite(sc[s]).tripState = sc[s].tripState
        /\ AfterWrite(sc[s]).closed = sc[s].closed
    BY <1>1, <1>8 DEF AppendBuffers, AfterWrite, ScopeRecord
  <2>2. \A t \in ScopeId : /\ sc'[t].postTrip = sc[t].postTrip
                           /\ sc'[t].tripState = sc[t].tripState
                           /\ sc'[t].closed = sc[t].closed
    BY <1>1, <2>1
  <2>3. granted' = granted /\ tripped' = tripped /\ closed' = closed
    BY <2>2
  <2>4. R!Buffer(s, e)
    BY <1>2, <1>8, <2>3 DEF AppendBuffers, R!Buffer, R!Answer, Answer
  <2>5. QED
    BY <2>4 DEF R!Calls
<1>9. CASE PassUntripped(s)
  BY <1>1, <1>2, <1>9 DEF PassUntripped, R!Calls, R!PassFree, R!Answer, Answer
<1>10. CASE PassReleased(s)
  BY <1>1, <1>2, <1>10 DEF PassReleased, R!Calls, R!PassFree, R!Answer, Answer
<1>11. CASE PassSpent(s)
  BY <1>2, <1>3, <1>11 DEF PassSpent, R!Calls, R!Suppress, R!Answer, Answer
<1>12. CASE PassGranted(s)
  <2>1. R!Grant(s, "PassThrough")
    BY <1>2, <1>3, <1>4, <1>12 DEF PassGranted, R!Grant, R!Answer, Answer
  <2>2. QED
    BY <2>1 DEF R!Calls
<1>13. CASE Trip(s)
  <2>1. /\ sc' = [sc EXCEPT ![s] = AfterTrip(sc[s])]
        /\ AfterTrip(sc[s]).postTrip = sc[s].postTrip
        /\ AfterTrip(sc[s]).tripState = TRUE
        /\ AfterTrip(sc[s]).closed = sc[s].closed
    BY <1>1, <1>13 DEF Trip, AfterTrip, ScopeRecord
  <2>2. \A t \in ScopeId : /\ sc'[t].postTrip = sc[t].postTrip
                           /\ sc'[t].closed = sc[t].closed
                           /\ sc'[t].tripState = IF t = s THEN TRUE
                                                          ELSE sc[t].tripState
    BY <1>1, <2>1
  <2>3. /\ granted' = granted /\ closed' = closed
        /\ tripped' = [tripped EXCEPT ![s] = TRUE]
    BY <1>1, <2>2
  <2>4. /\ sc[s].length = R!Kept(Len(appended[s]))
        /\ sc[s].dropped = Len(appended[s]) - R!Kept(Len(appended[s]))
        /\ \A i \in 0 .. sc[s].length - 1 :
               mem[sc[s].ring][Index(sc[s], i)]
                   = appended[s][sc[s].dropped + i + 1]
    BY <1>1, <1>13 DEF IInv, HeldIsNewest, HoldsNewest, Live, Trip, R!Kept
  <2>5. Held(sc[s]) = R!Newest(appended[s])
    <3>1. sc[s].length \in Nat /\ sc[s].dropped \in Nat
      BY <1>1, Normalised DEF ScopeRecord
    <3>2. ASSUME NEW i \in 1 .. sc[s].length
          PROVE  mem[sc[s].ring][Index(sc[s], i - 1)]
                     = appended[s][Len(appended[s]) - R!Kept(Len(appended[s])) + i]
      <4>1. i - 1 \in 0 .. sc[s].length - 1
        BY <3>1
      <4>2. sc[s].dropped + (i - 1) + 1 = sc[s].dropped + i
        BY <3>1
      <4>3. QED
        BY <2>4, <4>1, <4>2
    <3>3. QED
      BY <2>4, <3>2 DEF Held, R!Newest
  <2>6. R!Trip(s)
    BY <1>2, <1>13, <2>3, <2>4, <2>5 DEF Trip, R!Trip, R!Answer, Answer
  <2>7. QED
    BY <2>6 DEF R!Calls
<1>14. CASE TripRefused(s)
  BY <1>2, <1>14 DEF TripRefused, R!Calls, R!TripAgain, R!Answer, Answer
<1>15. CASE Close(s)
  <2>1. /\ sc' = [sc EXCEPT ![s] = AfterClose(sc[s])]
        /\ AfterClose(sc[s]).postTrip = sc[s].postTrip
        /\ AfterClose(sc[s]).tripState = sc[s].tripState
        /\ AfterClose(sc[s]).closed = TRUE
    BY <1>1, <1>15 DEF Close, AfterClose, ScopeRecord
  <2>2. \A t \in ScopeId : /\ sc'[t].postTrip = sc[t].postTrip
                           /\ sc'[t].tripState = sc[t].tripState
                           /\ sc'[t].closed = IF t = s THEN TRUE ELSE sc[t].closed
    BY <1>1, <2>1
  <2>3. /\ granted' = granted /\ tripped' = tripped
        /\ closed' = [closed EXCEPT ![s] = TRUE]
    BY <1>1, <2>2
  <2>4. R!Close(s)
    BY <1>15, <2>3 DEF Close, R!Close, R!Answer, Answer
  <2>5. QED
    BY <2>4 DEF R!Calls
<1>16. CASE CloseAgain(s)
  <2>1. closed' = closed /\ closed = [closed EXCEPT ![s] = TRUE]
    BY <1>1, <1>16 DEF CloseAgain, ScopeRecord
  <2>2. R!Close(s)
    BY <1>16, <2>1 DEF CloseAgain, R!Close, R!Answer, Answer
  <2>3. QED
    BY <2>2 DEF R!Calls
<1>17. QED
  BY <1>5, <1>6, <1>7, <1>8, <1>9, <1>10, <1>11, <1>12, <1>13, <1>14, <1>15, <1>16
     DEF Calls

\* Making a scope, pooled or not, opens a recorder.
LEMMA AdoptRefines ==
    ASSUME IInv, NEW s \in ScopeId, NEW b \in Box, NEW fromPool \in BOOLEAN,
           Adopt(s, b, fromPool)
    PROVE  R!Open(s)
<1>1. /\ s \notin made /\ sc[s] = Fresh(NoBox, FALSE)
      /\ sc \in [ScopeId -> ScopeRecord]
      /\ sc' = [sc EXCEPT ![s] = Fresh(b, fromPool)]
  BY DEF IInv, TypeOK, Untouched, Adopt
<1>2. \A t \in ScopeId : /\ sc'[t].postTrip = sc[t].postTrip
                         /\ sc'[t].tripState = sc[t].tripState
                         /\ sc'[t].closed = sc[t].closed
  <2>1. sc'[s] = Fresh(b, fromPool) /\ \A t \in ScopeId \ {s} : sc'[t] = sc[t]
    BY <1>1
  <2>2. /\ Fresh(b, fromPool).postTrip = Fresh(NoBox, FALSE).postTrip
        /\ Fresh(b, fromPool).tripState = Fresh(NoBox, FALSE).tripState
        /\ Fresh(b, fromPool).closed = Fresh(NoBox, FALSE).closed
    BY DEF Fresh
  <2>3. QED
    BY <1>1, <2>1, <2>2
<1>3. QED
  BY <1>1, <1>2 DEF Adopt, R!Open, R!Answer, Answer

LEMMA NextRefines == IInv /\ [Next]_vars => [R!Next]_(R!vars)
<1> SUFFICES ASSUME IInv, [Next]_vars PROVE [R!Next]_(R!vars)
  OBVIOUS
<1>1. ASSUME NEW s \in ScopeId, NewScope(s) \/ GetRecycled(s) \/ GetFresh(s)
      PROVE  R!Next
  <2>1. PICK b \in Box : Adopt(s, b, FALSE) \/ Adopt(s, b, TRUE)
    BY <1>1, PooledIsUnreferenced DEF NewScope, GetRecycled, GetFresh
  <2>2. R!Open(s)
    BY <2>1, AdoptRefines
  <2>3. QED
    BY <2>2 DEF R!Next
<1>2. ASSUME NEW s \in made, Calls(s) PROVE R!Next
  BY <1>2, CallsRefine DEF R!Next
<1>3. CASE Collect
  BY <1>3 DEF Collect, R!vars
<1>4. CASE UNCHANGED vars
  BY <1>4 DEF vars, R!vars
<1>5. QED
  BY <1>1, <1>2, <1>3, <1>4 DEF Next

\* The ring, its eviction, its budget and its recycling together keep the
\* recorder's promise: in particular a trip returns exactly the newest entries
\* the scope accepted and the number of those it lost (scope.go:126-227).
THEOREM ScopeImplementsRecorder == Spec => ImplementsRecorder
<1>1. Init => R!Init
  BY InitRefines
<1>2. IInv /\ [Next]_vars => [R!Next]_(R!vars)
  BY NextRefines
<1>3. QED
  BY <1>1, <1>2, Invariant, PTL DEF Spec, R!Spec, ImplementsRecorder
=============================================================================
