---------------------------- MODULE HandlerProofs ----------------------------
(* Theorems about Handler, for any number of goroutines and of records, any   *)
(* capacity and any budget.                                                   *)
EXTENDS Handler, FiniteSetTheorems, SequenceTheorems, TLAPS

-----------------------------------------------------------------------------
(* The inductive invariant, part by part.                                     *)

\* What a goroutine that is at a place with record r (or none) may rely on.
Fits(place, r) ==
    /\ place \in {"idle", "tripContext", "shut"} => r = NoRecord
    /\ place \in {"context", "askPre", "askScope", "askRing", "bindClosed",
                  "bindScope", "bindSlow", "offer", "emit"} => r # NoRecord
    /\ r # NoRecord =>
        /\ r <= issued /\ fate[r] = "pending"
        /\ place \in {"markScope", "markSlow", "flush", "notify", "replay"}
               => level[r] = "error"
        /\ place \in {"askPre", "askScope", "askRing"} => level[r] = "info"
        /\ place = "bindClosed" => level[r] # "debug"
        /\ place = "emit" /\ level[r] = "debug" => HasTripped
        /\ place \in {"askScope", "askRing"} /\ r \in late => tripped
        /\ place \in {"notify", "replay"} => r \in trigger
        /\ r \in trigger => place \in {"notify", "replay", "emit"}
        /\ place = "emit" /\ r \in trigger => replayed = Len(batch)
    /\ place \in {"flush", "offer", "askRing", "shut"} => bound
    /\ place = "shut" => closed
    /\ place \in {"notify", "replay"} => tripped
    /\ place = "notify" => lost > 0 /\ replayed = 0

Placed == \A p \in Proc : Fits(pc[p], rec[p])

\* No record is in two goroutines' hands, and the batch in one's at most.
Apart ==
    \A p, q \in Proc :
        /\ rec[p] # NoRecord /\ rec[p] = rec[q] => p = q
        /\ pc[p] \in {"notify", "replay"} /\ pc[q] \in {"notify", "replay"} => p = q

\* How the carrier's flags and the ring fit each other.
Flags ==
    /\ shut => closed
    /\ tripped => bound
    /\ ~bound \/ preTripped => log = <<>>
    /\ preTripped /\ bound => tripped
    /\ tripped => batch = Newest(log) /\ lost = Len(log) - Len(batch)
    /\ ~tripped => batch = <<>> /\ lost = 0

\* What is known of a record from what became of it.
Recorded ==
    /\ trigger # {} \/ late # {} => HasTripped
    /\ trigger \cap late = {}
    /\ \A r \in Record : issued < r =>
           fate[r] = "pending" /\ r \notin trigger /\ r \notin late
    /\ \A i \in DOMAIN log : fate[log[i]] = "buffered" /\ level[log[i]] = "debug"
    /\ \A i, j \in DOMAIN log : log[i] = log[j] => i = j

\* What the output says of the records in it.
Written ==
    /\ \A i \in DOMAIN out :
        /\ out[i].kind = "live" => out[i].n \in Record /\ fate[out[i].n] = "emitted"
        /\ out[i].kind = "replay" => \E k \in 1 .. replayed : out[i].n = batch[k]
    /\ \A k \in 1 .. replayed : \E i \in DOMAIN out : out[i] = Replay(batch[k])

\* How much has been flushed.
Progress ==
    Cardinality(Flushed) =
        replayed + IF lost > 0 /\ \A p \in Proc : pc[p] # "notify" THEN 1 ELSE 0

\* The n-th item flushed is the n-th of the script.
Following ==
    \A i \in Flushed : FlushedBy(i) <= Len(Script) /\ out[i] = Script[FlushedBy(i)]

\* The records logged after the trip that were let through, on their way or out.
Charged ==
    {r \in late : fate[r] = "emitted"
                  \/ \E p \in Proc : rec[p] = r /\ pc[p] = "emit"}

Budgeted ==
    /\ ~closed => Cardinality(Charged) <= postTrip
    /\ Limit > 0 => postTrip <= Limit

IInv ==
    /\ TypeOK /\ Placed /\ Apart /\ Flags /\ Recorded /\ Written
    /\ Progress /\ Following /\ Budgeted
    /\ BelowLevelNeedsTrip /\ WrittenOnce
    /\ TriggerAfterBatch /\ OwedUnlessBudgetSpent /\ NothingBufferedLate
-----------------------------------------------------------------------------
(* Facts about the operators the steps are made of.                           *)

Fate == {"pending", "buffered", "dropped", "suppressed", "emitted"}

\* Going from one place to another moves nobody else.
LEMMA Went ==
    ASSUME TypeOK, NEW p \in Proc, NEW from, NEW to \in At, Goto(p, from, to)
    PROVE  /\ pc[p] = from /\ pc'[p] = to /\ rec' = rec
           /\ pc' \in [Proc -> At]
           /\ \A q \in Proc : q # p => pc'[q] = pc[q]
BY DEF TypeOK, Goto

\* Returning settles the record in hand, and no other.
LEMMA Returned ==
    ASSUME TypeOK, NEW p \in Proc, NEW from, NEW f \in Fate, Return(p, from, f)
    PROVE  /\ pc[p] = from /\ pc'[p] = "idle" /\ rec'[p] = NoRecord
           /\ pc' \in [Proc -> At] /\ rec' \in [Proc -> Record \cup {NoRecord}]
           /\ \A q \in Proc : q # p => pc'[q] = pc[q] /\ rec'[q] = rec[q]
           /\ fate' \in [Record -> Fate]
           /\ \A r \in Record : fate'[r] = IF r = rec[p] THEN f ELSE fate[r]
BY DEF TypeOK, Return, At, Fate

\* NoRecord is no record.
LEMMA NoRecordIsNone == Record \subseteq Nat \ {0} /\ NoRecord \notin Record /\ NoRecord = 0
BY SizesAssumption DEF Record, NoRecord

\* The newest records of a log are its last ones, as many as the ring holds.
LEMMA NewestIsTail ==
    ASSUME NEW records \in Seq(Record)
    PROVE  /\ Newest(records) \in Seq(Record)
           /\ Kept(Len(records)) \in 0 .. Len(records)
           /\ Len(Newest(records)) = Kept(Len(records))
           /\ \A k \in 1 .. Kept(Len(records)) :
                  Newest(records)[k] = records[Len(records) - Kept(Len(records)) + k]
<1>1. Len(records) \in Nat
    BY LenProperties
<1>2. Kept(Len(records)) \in 0 .. Len(records)
    BY <1>1, SizesAssumption DEF Kept
<1> DEFINE m == Len(records) - Kept(Len(records)) + 1
<1>3. m \in 1 .. Len(records) + 1 /\ Len(records) - m + 1 = Kept(Len(records))
    BY <1>1, <1>2
<1> HIDE DEF m
<1>4. \A i \in m .. Len(records) : records[i] \in Record
    BY <1>1, <1>3, ElementOfSeq
<1>5. /\ SubSeq(records, m, Len(records)) \in Seq(Record)
      /\ Len(SubSeq(records, m, Len(records))) =
             IF m <= Len(records) THEN Len(records) - m + 1 ELSE 0
      /\ \A i \in 1 .. Len(records) - m + 1 :
             SubSeq(records, m, Len(records))[i] = records[m + i - 1]
    BY <1>1, <1>3, <1>4, SubSeqProperties
<1>6. Newest(records) = SubSeq(records, m, Len(records))
    BY DEF Newest, m
<1>7. \A k \in 1 .. Kept(Len(records)) : m + k - 1 = Len(records) - Kept(Len(records)) + k
    BY <1>1, <1>2 DEF m
<1> QED BY <1>1, <1>2, <1>3, <1>5, <1>6, <1>7

\* The n-th item of the script.
LEMMA ScriptItems ==
    ASSUME batch \in Seq(Record), lost \in Nat
    PROVE  /\ Len(Script) = Len(batch) + IF lost > 0 THEN 1 ELSE 0
           /\ lost > 0 => Script[1] = Notice(lost)
           /\ \A k \in 1 .. Len(batch) :
                  Script[k + IF lost > 0 THEN 1 ELSE 0] = Replay(batch[k])
<1> DEFINE Items == [kind : {"replay", "notice"}, n : Nat]
           head == IF lost > 0 THEN <<Notice(lost)>> ELSE <<>>
           tail == [i \in 1 .. Len(batch) |-> Replay(batch[i])]
<1>1. Len(batch) \in Nat /\ \A i \in 1 .. Len(batch) : batch[i] \in Nat
    BY LenProperties, ElementOfSeq, NoRecordIsNone
<1>2. head \in Seq(Items) /\ Len(head) = (IF lost > 0 THEN 1 ELSE 0)
      /\ (lost > 0 => head[1] = Notice(lost))
    <2>1. Notice(lost) \in Items /\ <<>> \in Seq(Items)
        BY DEF Notice
    <2> HIDE DEF Items
    <2>2. CASE lost > 0
        BY <2>1, <2>2
    <2>3. CASE ~(lost > 0)
        BY <2>1, <2>3
    <2> QED BY <2>2, <2>3
<1>3. tail \in Seq(Items) /\ Len(tail) = Len(batch)
      /\ \A k \in 1 .. Len(batch) : tail[k] = Replay(batch[k])
    BY <1>1 DEF Replay
<1>4. Script = head \o tail
    BY DEF Script
<1> HIDE DEF head, tail, Items
<1>5. /\ Len(head \o tail) = Len(head) + Len(tail)
      /\ \A i \in 1 .. Len(head) + Len(tail) :
            (head \o tail)[i] = IF i <= Len(head) THEN head[i] ELSE tail[i - Len(head)]
    <2>1. head \in Seq(Items) /\ tail \in Seq(Items)
        BY <1>2, <1>3
    <2>2. \A E : \A s, t \in Seq(E) :
             /\ Len(s \o t) = Len(s) + Len(t)
             /\ \A i \in 1 .. Len(s) + Len(t) :
                   (s \o t)[i] = IF i <= Len(s) THEN s[i] ELSE t[i - Len(s)]
        BY ConcatProperties
    <2> QED BY <2>1, <2>2
<1>6. CASE lost > 0
    <2>1. Len(head) = 1
        BY <1>2, <1>6
    <2>2. \A k \in 1 .. Len(batch) : (head \o tail)[k + 1] = tail[k]
        BY <1>1, <1>3, <1>5, <2>1
    <2> QED BY <1>1, <1>2, <1>3, <1>4, <1>5, <1>6, <2>1, <2>2
<1>7. CASE ~(lost > 0)
    <2>1. Len(head) = 0
        BY <1>2, <1>7
    <2> QED BY <1>1, <1>3, <1>4, <1>5, <1>7, <2>1
<1> QED BY <1>6, <1>7

-----------------------------------------------------------------------------
(* What a step keeps by leaving something alone.                              *)

\* A record in the output has been dealt with.
LEMMA ItemsSettled ==
    ASSUME IInv
    PROVE  \A i \in DOMAIN out : out[i].kind # "notice" =>
               /\ out[i].n \in Record /\ out[i].n <= issued
               /\ out[i].kind \in {"live", "replay"}
               /\ out[i].kind = "live" => fate[out[i].n] = "emitted"
               /\ out[i].kind = "replay" => fate[out[i].n] = "buffered" /\ tripped
<1> USE DEF IInv
<1> SUFFICES ASSUME NEW i \in DOMAIN out, out[i].kind # "notice"
             PROVE  /\ out[i].n \in Record /\ out[i].n <= issued
                    /\ out[i].kind \in {"live", "replay"}
                    /\ out[i].kind = "live" => fate[out[i].n] = "emitted"
                    /\ out[i].kind = "replay" => fate[out[i].n] = "buffered" /\ tripped
    OBVIOUS
<1>1. \A r \in Record : fate[r] # "pending" => r <= issued
    BY SizesAssumption DEF Recorded, TypeOK, Record
<1>2. out[i].kind \in {"live", "replay", "notice"}
    <2> DEFINE Item == [kind : {"live", "replay", "notice"}, n : Nat \ {0}]
    <2>1. out \in Seq(Item)
        BY DEF TypeOK
    <2> HIDE DEF Item
    <2>2. out[i] \in Item
        BY <2>1, ElementOfSeq, LenProperties
    <2> QED BY <2>2 DEF Item
<1>3. CASE out[i].kind = "live"
    BY <1>1, <1>3 DEF Written
<1>4. CASE out[i].kind = "replay"
    <2>1. PICK k \in 1 .. replayed : out[i].n = batch[k]
        BY <1>4 DEF Written
    <2>2. tripped /\ batch = Newest(log) /\ log \in Seq(Record)
        <3>1. ~tripped => replayed = 0
            BY DEF Flags, TypeOK
        <3> QED BY <2>1, <3>1 DEF Flags, TypeOK
    <2>3. Len(log) \in Nat /\ DOMAIN log = 1 .. Len(log) /\ replayed \in 0 .. Len(batch)
        BY <2>2, LenProperties DEF TypeOK
    <2>4. PICK j \in DOMAIN log : batch[k] = log[j]
        <3>1. /\ Kept(Len(log)) \in 0 .. Len(log) /\ Len(batch) = Kept(Len(log))
              /\ \A n \in 1 .. Kept(Len(log)) : batch[n] = log[Len(log) - Kept(Len(log)) + n]
            BY <2>2, NewestIsTail
        <3>2. k \in 1 .. Kept(Len(log)) /\ Len(log) - Kept(Len(log)) + k \in 1 .. Len(log)
            BY <2>1, <2>3, <3>1
        <3> QED BY <2>3, <3>1, <3>2
    <2>5. log[j] \in Record /\ fate[log[j]] = "buffered"
        BY <2>2, <2>3, <2>4, ElementOfSeq DEF Recorded
    <2> QED BY <1>1, <1>4, <2>1, <2>2, <2>4, <2>5
<1> QED BY <1>2, <1>3, <1>4

\* A step that writes nothing and has no part in the flush.
LEMMA OutputKept ==
    ASSUME IInv, UNCHANGED <<out, batch, lost, replayed>>,
           \A r \in Record : r <= issued => level'[r] = level[r],
           \A r \in Record : fate[r] # "pending" => fate'[r] = fate[r],
           \A r \in trigger' : r \in trigger \/ (r \in Record /\ fate[r] = "pending"),
           HasTripped => HasTripped'
    PROVE  /\ Written' /\ Following' /\ BelowLevelNeedsTrip' /\ WrittenOnce'
           /\ TriggerAfterBatch' /\ Flushed' = Flushed
<1> USE DEF IInv
<1>1. Written'
    BY DEF Written
<1>2. Flushed' = Flushed
    BY DEF Flushed
<1>3. Script' = Script /\ \A i : FlushedBy(i)' = FlushedBy(i)
    BY <1>2 DEF Script, FlushedBy
<1>4. Following'
    BY <1>2, <1>3 DEF Following
<1>5. BelowLevelNeedsTrip'
    BY ItemsSettled DEF BelowLevelNeedsTrip
<1>6. WrittenOnce'
    BY DEF WrittenOnce
<1>7. TriggerAfterBatch'
    BY ItemsSettled DEF TriggerAfterBatch
<1> QED BY <1>1, <1>2, <1>4, <1>5, <1>6, <1>7

\* A step that charges nothing lets nothing more through.
LEMMA ChargeKept ==
    ASSUME IInv, UNCHANGED postTrip, closed => closed',
           ~closed' => Charged' \subseteq Charged
    PROVE  Budgeted'
<1>1. IsFiniteSet(Charged)
    <2>1. IsFiniteSet(Record)
        BY SizesAssumption, FS_Interval DEF Record
    <2>2. Charged \subseteq Record
        BY DEF IInv, TypeOK, Charged
    <2> QED BY <2>1, <2>2, FS_Subset
<1>2. CASE ~closed'
    <2>1. Cardinality(Charged') <= Cardinality(Charged) /\ IsFiniteSet(Charged')
        BY <1>1, <1>2, FS_Subset
    <2>2. Cardinality(Charged) \in Nat /\ Cardinality(Charged') \in Nat /\ postTrip \in Nat
        BY <1>1, <2>1, FS_CardinalityType DEF IInv, TypeOK
    <2>3. Cardinality(Charged) <= postTrip
        BY <1>2 DEF IInv, TypeOK, Budgeted
    <2>4. Cardinality(Charged') <= postTrip
        BY <2>1, <2>2, <2>3
    <2>5. Limit > 0 => postTrip <= Limit
        BY DEF IInv, Budgeted
    <2> QED BY <2>4, <2>5 DEF Budgeted
<1>3. CASE closed'
    BY <1>3 DEF IInv, Budgeted
<1> QED BY <1>2, <1>3, SMT DEF IInv, TypeOK

-----------------------------------------------------------------------------
(* Steps that only move a goroutine.                                          *)

\* Going on to a place whose requirements are met.
LEMMA MoveStep ==
    ASSUME IInv, NEW p \in Proc, NEW from \in At \ {"notify"},
           NEW to \in At \ {"notify", "replay"},
           Goto(p, from, to), Quiet, UNCHANGED <<carrierVars, ringVars, fate>>,
           Fits(to, rec[p]),
           to = "emit" => closed \/ rec[p] \notin late
    PROVE  IInv'
<1> USE DEF IInv, Quiet, carrierVars, ringVars, recordVars
<1>1. /\ pc[p] = from /\ pc'[p] = to /\ rec' = rec
      /\ pc' \in [Proc -> At]
      /\ \A q \in Proc : q # p => pc'[q] = pc[q]
    BY Went
<1>2. TypeOK'
    BY <1>1 DEF TypeOK
<1>3. Placed'
    BY <1>1 DEF Placed, Fits, HasTripped
<1>4. Apart'
    BY <1>1 DEF Apart
<1>5. Flags' /\ Recorded'
    BY DEF Flags, Recorded, HasTripped
<1>6. /\ Written' /\ Following' /\ BelowLevelNeedsTrip' /\ WrittenOnce'
      /\ TriggerAfterBatch' /\ Flushed' = Flushed
    BY OutputKept DEF HasTripped
<1>7. Progress'
    BY <1>1, <1>6 DEF Progress
<1>8. Budgeted'
    <2>1. ~closed' => Charged' \subseteq Charged
        BY <1>1 DEF Charged
    <2> QED BY <2>1, ChargeKept
<1>9. OwedUnlessBudgetSpent' /\ NothingBufferedLate'
    BY DEF OwedUnlessBudgetSpent, NothingBufferedLate, HasTripped, Spent
<1> QED BY <1>2, <1>3, <1>4, <1>5, <1>6, <1>7, <1>8, <1>9

\* Returning with a record that is dropped or suppressed, or with none.
LEMMA ReturnStep ==
    ASSUME IInv, NEW p \in Proc, NEW from \in At \ {"notify", "emit"},
           NEW f \in {"pending", "dropped", "suppressed"},
           Return(p, from, f), Quiet, UNCHANGED <<carrierVars, ringVars>>,
           f = "pending" => rec[p] = NoRecord,
           f = "dropped" => level[rec[p]] = "debug",
           f = "suppressed" => tripped /\ Spent /\ rec[p] \notin trigger
    PROVE  IInv'
<1> USE DEF IInv, Quiet, carrierVars, ringVars, recordVars
<1>1. /\ pc[p] = from /\ pc'[p] = "idle" /\ rec'[p] = NoRecord
      /\ pc' \in [Proc -> At] /\ rec' \in [Proc -> Record \cup {NoRecord}]
      /\ \A q \in Proc : q # p => pc'[q] = pc[q] /\ rec'[q] = rec[q]
      /\ fate' \in [Record -> Fate]
      /\ \A r \in Record : fate'[r] = IF r = rec[p] THEN f ELSE fate[r]
    BY Returned DEF Fate
<1>2. /\ rec[p] # NoRecord => fate[rec[p]] = "pending" /\ rec[p] \in Record
      /\ rec \in [Proc -> Record \cup {NoRecord}]
    BY DEF Placed, Fits, TypeOK
<1>3. TypeOK'
    BY <1>1 DEF TypeOK, Fate
<1>4. Apart'
    BY <1>1 DEF Apart
<1>5. Placed'
    <2> SUFFICES ASSUME NEW q \in Proc, q # p, rec[q] \in Record => rec[q] # rec[p]
                 PROVE  Fits(pc[q], rec[q])'
        BY <1>1, <1>2 DEF Placed, Fits, Apart
    <2>1. Fits(pc[q], rec[q]) /\ pc'[q] = pc[q] /\ rec'[q] = rec[q]
          /\ rec[q] \in Record \cup {NoRecord}
        BY <1>1, <1>2 DEF Placed
    <2>2. rec[q] # NoRecord => fate'[rec[q]] = fate[rec[q]]
        BY <1>1, <2>1
    <2> QED BY <2>1, <2>2 DEF Fits, HasTripped
<1>6. Flags'
    BY DEF Flags
<1>7. \A r \in Record : fate[r] # "pending" => fate'[r] = fate[r]
    BY <1>1, <1>2, NoRecordIsNone
<1>8. Recorded'
    <2>1. \A r \in Record : issued < r => fate'[r] = "pending"
        <3> SUFFICES ASSUME NEW r \in Record, issued < r PROVE fate'[r] = "pending"
            OBVIOUS
        <3>1. rec[p] # NoRecord => rec[p] <= issued /\ rec[p] \in Int /\ issued \in Int
            BY <1>2, SizesAssumption DEF Placed, Fits, TypeOK, Record
        <3>2. r # rec[p] /\ fate[r] = "pending"
            BY <3>1, NoRecordIsNone, SizesAssumption DEF Recorded, TypeOK, Record
        <3> QED BY <1>1, <3>2
    <2>2. \A i \in DOMAIN log : log[i] \in Record
        BY ElementOfSeq, LenProperties DEF TypeOK
    <2> QED BY <1>7, <2>1, <2>2 DEF Recorded, HasTripped
<1>9. /\ Written' /\ Following' /\ BelowLevelNeedsTrip' /\ WrittenOnce'
      /\ TriggerAfterBatch' /\ Flushed' = Flushed
    BY <1>7, OutputKept DEF HasTripped
<1>10. Progress'
    BY <1>1, <1>9 DEF Progress
<1>11. Budgeted'
    <2>1. ~closed' => Charged' \subseteq Charged
        <3>1. late \subseteq Record
            BY DEF TypeOK
        <3> QED BY <1>1, <1>2, <3>1 DEF Charged
    <2> QED BY <2>1, ChargeKept
<1>12. OwedUnlessBudgetSpent' /\ NothingBufferedLate'
    <2>1. late \subseteq Record
        BY DEF TypeOK
    <2> QED BY <1>1, <1>2, <2>1
            DEF OwedUnlessBudgetSpent, NothingBufferedLate, HasTripped, Spent
<1> QED BY <1>3, <1>4, <1>5, <1>6, <1>8, <1>9, <1>10, <1>11, <1>12

\* Every step that only moves its goroutine, one by one.
LEMMA MovingSteps ==
    ASSUME IInv, NEW p \in Proc,
           \/ BareTrip(p) \/ ContextReleased(p) \/ ContextLive(p) \/ TripContext(p)
           \/ MarkScope(p) \/ MarkSlowClosed(p) \/ MarkSlowBound(p) \/ MarkSlowAgain(p)
           \/ FlushRefused(p) \/ ReplayEnds(p)
           \/ AskPre(p) \/ AskScope(p) \/ AskRing(p)
           \/ BindClosed(p) \/ BindScope(p) \/ BindSlowClosed(p)
           \/ AppendShut(p) \/ PassFree(p) \/ OfferSpent(p)
    PROVE  IInv'
<1>1. /\ Fits(pc[p], rec[p]) /\ rec[p] \in Record \cup {NoRecord}
      /\ rec[p] # NoRecord => level[rec[p]] \in {"debug", "info", "error"}
      /\ rec[p] \in late => HasTripped
      /\ rec[p] \in late => rec[p] \in Record /\ rec[p] \notin trigger
    BY DEF IInv, Placed, Recorded, TypeOK, Level
<1>2. Flags
    BY DEF IInv
<1>3. NoRecord \notin Record /\ NoRecord \notin late
    BY NoRecordIsNone DEF IInv, TypeOK
<1> DEFINE Goes(from, to) ==
        Goto(p, from, to) /\ Quiet /\ UNCHANGED <<carrierVars, ringVars, fate>>
           Gives(from, f) == Return(p, from, f) /\ Quiet /\ UNCHANGED <<carrierVars, ringVars>>
<1>4. ASSUME NEW from \in At \ {"notify"}, NEW to \in At \ {"notify", "replay"},
             Goes(from, to), Fits(to, rec[p]), to = "emit" => closed \/ rec[p] \notin late
      PROVE  IInv'
    BY <1>4, MoveStep
<1>5. ASSUME NEW from \in At \ {"notify", "emit"},
             NEW f \in {"pending", "dropped", "suppressed"}, Gives(from, f),
             f = "pending" => rec[p] = NoRecord,
             f = "dropped" => level[rec[p]] = "debug",
             f = "suppressed" => tripped /\ Spent /\ rec[p] \notin trigger
      PROVE  IInv'
    BY <1>5, ReturnStep
<1>6. \A from, to : Goto(p, from, to) => pc[p] = from
    BY DEF Goto
<1>7. \A from, f : Return(p, from, f) => pc[p] = from
    BY DEF Return
<1> HIDE DEF Goes, Gives
<1>c. ASSUME NEW from \in {"markSlow", "flush"},
             Continue(p, from, "bindClosed"), Quiet, UNCHANGED <<carrierVars, ringVars>>
      PROVE  IInv'
    <2>1. CASE rec[p] = NoRecord
        <3>1. Gives(from, "pending")
            BY <1>c, <2>1 DEF Continue, Gives
        <3> QED BY <1>5, <2>1, <3>1 DEF At
    <2>2. CASE rec[p] # NoRecord
        <3>1. Goes(from, "bindClosed") /\ pc[p] = from
            BY <1>c, <1>6, <2>2 DEF Continue, Goes
        <3>2. Fits("bindClosed", rec[p])
            BY <1>1, <2>2, <3>1 DEF Fits
        <3> QED BY <1>4, <3>1, <3>2 DEF At
    <2> QED BY <2>1, <2>2
<1>n. ASSUME NEW from \in {"bindClosed", "bindSlow"}, closed,
             NoScope(p, from), Quiet, UNCHANGED <<carrierVars, ringVars>>
      PROVE  IInv'
    <2>1. CASE IsDebug(p)
        <3>1. Gives(from, "dropped") /\ level[rec[p]] = "debug"
            BY <1>n, <2>1 DEF NoScope, Gives, IsDebug
        <3> QED BY <1>5, <3>1 DEF At
    <2>2. CASE ~IsDebug(p)
        <3>1. Goes(from, "emit") /\ pc[p] = from
            BY <1>n, <1>6, <2>2 DEF NoScope, Goes
        <3>2. Fits("emit", rec[p])
            BY <1>1, <2>2, <3>1 DEF Fits, IsDebug
        <3> QED BY <1>n, <1>4, <3>1, <3>2 DEF At
    <2> QED BY <2>1, <2>2

<1>8. ASSUME BareTrip(p) PROVE IInv'
    <2>1. Goes("idle", "tripContext") /\ pc[p] = "idle"
        BY <1>6, <1>8 DEF BareTrip, Goes
    <2>2. Fits("tripContext", rec[p])
        BY <1>1, <2>1 DEF Fits
    <2> QED BY <1>4, <2>1, <2>2 DEF At
<1>9. ASSUME ContextReleased(p) PROVE IInv'
    <2>1. CASE IsDebug(p)
        <3>1. Gives("context", "dropped") /\ level[rec[p]] = "debug"
            BY <1>9, <2>1 DEF ContextReleased, Gives, IsDebug
        <3> QED BY <1>5, <3>1 DEF At
    <2>2. CASE ~IsDebug(p)
        <3>1. Goes("context", "emit") /\ pc[p] = "context" /\ closed
            BY <1>6, <1>9, <2>2 DEF ContextReleased, Goes
        <3>2. Fits("emit", rec[p])
            BY <1>1, <2>2, <3>1 DEF Fits, IsDebug
        <3> QED BY <1>4, <3>1, <3>2 DEF At
    <2> QED BY <2>1, <2>2
<1>10. ASSUME ContextLive(p) PROVE IInv'
    <2> DEFINE to == AfterContext(level[rec[p]])
    <2>1. Goes("context", to) /\ pc[p] = "context" /\ rec[p] # NoRecord
        BY <1>6, <1>10 DEF ContextLive, Goes
    <2>2. /\ level[rec[p]] = "debug" => to = "bindScope"
          /\ level[rec[p]] = "info" => to = "askPre"
          /\ level[rec[p]] = "error" => to = "markScope"
        BY DEF AfterContext
    <2> HIDE DEF to
    <2>3. Fits(to, rec[p]) /\ to \in {"bindScope", "askPre", "markScope"}
        BY <1>1, <2>1, <2>2 DEF Fits
    <2> QED BY <1>4, <2>1, <2>3 DEF At
<1>11. ASSUME TripContext(p) PROVE IInv'
    <2>1. PICK to \in {"idle", "markScope"} : Goes("tripContext", to)
        BY <1>11 DEF TripContext, Goes
    <2>2. pc[p] = "tripContext"
        BY <1>6, <2>1 DEF Goes
    <2>3. Fits(to, rec[p])
        BY <1>1, <2>2 DEF Fits
    <2> QED BY <1>4, <2>1, <2>3 DEF At
<1>12. ASSUME MarkScope(p) PROVE IInv'
    <2>1. PICK to \in {"flush", "markSlow"} : Goes("markScope", to) /\ (to = "flush" => bound)
        BY <1>12 DEF MarkScope, Goes
    <2>2. pc[p] = "markScope"
        BY <1>6, <2>1 DEF Goes
    <2>3. Fits(to, rec[p])
        BY <1>1, <2>1, <2>2 DEF Fits
    <2> QED BY <1>4, <2>1, <2>3 DEF At
<1>13. ASSUME MarkSlowClosed(p) \/ MarkSlowAgain(p) \/ FlushRefused(p) PROVE IInv'
    BY <1>13, <1>c DEF MarkSlowClosed, MarkSlowAgain, FlushRefused
<1>14. ASSUME MarkSlowBound(p) PROVE IInv'
    <2>1. Goes("markSlow", "flush") /\ bound /\ pc[p] = "markSlow"
        BY <1>6, <1>14 DEF MarkSlowBound, Goes
    <2>2. Fits("flush", rec[p])
        BY <1>1, <2>1 DEF Fits
    <2> QED BY <1>4, <2>1, <2>2 DEF At
<1>15. ASSUME ReplayEnds(p) PROVE IInv'
    <2>1. CASE rec[p] = NoRecord
        <3>1. Gives("replay", "pending")
            BY <1>15, <2>1 DEF ReplayEnds, Continue, Gives
        <3> QED BY <1>5, <2>1, <3>1 DEF At
    <2>2. CASE rec[p] # NoRecord
        <3>1. Goes("replay", "emit") /\ pc[p] = "replay" /\ replayed = Len(batch)
            BY <1>6, <1>15, <2>2 DEF ReplayEnds, Continue, Goes
        <3>2. Fits("emit", rec[p]) /\ rec[p] \in trigger
            BY <1>1, <2>2, <3>1 DEF Fits
        <3> QED BY <1>1, <1>4, <3>1, <3>2 DEF At
    <2> QED BY <2>1, <2>2
<1>16. ASSUME AskPre(p) PROVE IInv'
    <2>1. PICK to \in {"bindClosed", "askScope"} :
              Goes("askPre", to) /\ (to = "askScope" => ~preTripped)
        BY <1>16 DEF AskPre, Goes
    <2>2. pc[p] = "askPre"
        BY <1>6, <2>1 DEF Goes
    <2>3. Fits(to, rec[p])
        BY <1>1, <2>1, <2>2 DEF Fits, HasTripped
    <2> QED BY <1>4, <2>1, <2>3 DEF At
<1>17. ASSUME AskScope(p) PROVE IInv'
    <2>1. PICK to \in {"askRing", "emit"} :
              Goes("askScope", to) /\ (to = "askRing" <=> bound)
        BY <1>17 DEF AskScope, Goes
    <2>2. pc[p] = "askScope"
        BY <1>6, <2>1 DEF Goes
    <2>3. Fits(to, rec[p]) /\ (to = "emit" => rec[p] \notin late)
        BY <1>1, <1>2, <1>3, <2>1, <2>2 DEF Fits, Flags
    <2> QED BY <1>4, <2>1, <2>3 DEF At
<1>18. ASSUME AskRing(p) PROVE IInv'
    <2>1. PICK to \in {"bindClosed", "emit"} :
              Goes("askRing", to) /\ (to = "bindClosed" <=> tripped)
        BY <1>18 DEF AskRing, Goes
    <2>2. pc[p] = "askRing"
        BY <1>6, <2>1 DEF Goes
    <2>3. Fits(to, rec[p]) /\ (to = "emit" => rec[p] \notin late)
        BY <1>1, <1>3, <2>1, <2>2 DEF Fits
    <2> QED BY <1>4, <2>1, <2>3 DEF At
<1>19. ASSUME BindClosed(p) PROVE IInv'
    <2>1. CASE closed
        BY <1>19, <1>n, <2>1 DEF BindClosed
    <2>2. CASE ~closed
        <3>1. Goes("bindClosed", "bindScope") /\ pc[p] = "bindClosed"
            BY <1>6, <1>19, <2>2 DEF BindClosed, Goes
        <3>2. Fits("bindScope", rec[p])
            BY <1>1, <3>1 DEF Fits
        <3> QED BY <1>4, <3>1, <3>2 DEF At
    <2> QED BY <2>1, <2>2
<1>20. ASSUME BindScope(p) PROVE IInv'
    <2>1. PICK to \in {"offer", "bindSlow"} : Goes("bindScope", to) /\ (to = "offer" => bound)
        BY <1>20 DEF BindScope, Goes
    <2>2. pc[p] = "bindScope"
        BY <1>6, <2>1 DEF Goes
    <2>3. Fits(to, rec[p])
        BY <1>1, <2>1, <2>2 DEF Fits
    <2> QED BY <1>4, <2>1, <2>3 DEF At
<1>21. ASSUME BindSlowClosed(p) PROVE IInv'
    BY <1>21, <1>n DEF BindSlowClosed
<1>22. ASSUME AppendShut(p) PROVE IInv'
    <2>1. Gives("offer", "dropped") /\ level[rec[p]] = "debug"
        BY <1>22 DEF AppendShut, Gives, IsDebug
    <2> QED BY <1>5, <2>1 DEF At
<1>23. ASSUME PassFree(p) PROVE IInv'
    <2>1. Goes("offer", "emit") /\ pc[p] = "offer" /\ ~IsDebug(p) /\ (shut \/ ~tripped)
        BY <1>6, <1>23 DEF PassFree, Goes
    <2>2. Fits("emit", rec[p])
        BY <1>1, <2>1 DEF Fits, IsDebug
    <2>3. closed \/ rec[p] \notin late
        BY <1>1, <1>2, <2>1 DEF Fits, Flags, HasTripped
    <2> QED BY <1>4, <2>1, <2>2, <2>3 DEF At
<1>24. ASSUME OfferSpent(p) PROVE IInv'
    <2>1. Gives("offer", "suppressed") /\ tripped /\ Spent /\ pc[p] = "offer"
        BY <1>7, <1>24 DEF OfferSpent, Gives
    <2>2. rec[p] \notin trigger
        BY <1>1, <2>1 DEF Fits
    <2> QED BY <1>5, <2>1, <2>2 DEF At
<1> QED BY <1>8, <1>9, <1>10, <1>11, <1>12, <1>13, <1>14, <1>15, <1>16, <1>17, <1>18,
           <1>19, <1>20, <1>21, <1>22, <1>23, <1>24

-----------------------------------------------------------------------------
(* Steps that change the scope or the output.                                 *)

\* A record is logged: it is new, nobody has it, and it is late if the scope has
\* tripped.
LEMMA HandleStep ==
    ASSUME IInv, NEW p \in Proc, NEW l \in Level, Handle(p, l)
    PROVE  IInv'
<1> USE DEF IInv, carrierVars, ringVars
<1> DEFINE n == issued + 1
<1>1. /\ pc[p] = "idle" /\ rec[p] = NoRecord /\ issued < MaxRecords /\ issued' = n
      /\ level' = [level EXCEPT ![n] = l]
      /\ late' = IF HasTripped THEN late \cup {n} ELSE late
      /\ pc' = [pc EXCEPT ![p] = "context"]
      /\ rec' = [rec EXCEPT ![p] = n]
      /\ UNCHANGED <<carrierVars, ringVars, replayed, out, fate, trigger, wins>>
    BY DEF Handle, Placed, Fits
<1>2. /\ n \in Record /\ fate[n] = "pending" /\ n \notin trigger /\ n \notin late
      /\ issued \in Nat /\ n \in 0 .. MaxRecords
    BY <1>1, SizesAssumption DEF TypeOK, Record, Recorded
<1>3. \A r \in Record : (r <= issued => r # n) /\ (r <= n <=> r <= issued \/ r = n)
    BY <1>2, SizesAssumption DEF Record
<1>n. issued < n /\ n = issued + 1
    BY <1>2
<1> HIDE DEF n
<1>4. /\ pc'[p] = "context" /\ rec'[p] = n /\ level'[n] = l
      /\ pc' \in [Proc -> At] /\ rec' \in [Proc -> Record \cup {NoRecord}]
      /\ level' \in [Record -> Level]
      /\ \A q \in Proc : q # p => pc'[q] = pc[q] /\ rec'[q] = rec[q]
      /\ \A r \in Record : r # n => level'[r] = level[r]
    BY <1>1, <1>2 DEF TypeOK, At
<1> USE <1>1
<1>5. TypeOK'
    BY <1>2, <1>4 DEF TypeOK
<1>6. \A q \in Proc : rec[q] # n /\ rec[q] \in Record \cup {NoRecord}
    BY <1>2, <1>3, NoRecordIsNone DEF Placed, Fits, TypeOK
<1>7. Placed'
    <2>1. ASSUME NEW q \in Proc, q # p PROVE Fits(pc[q], rec[q])'
        BY <1>2, <1>3, <1>4, <1>6, <2>1, ZenonT(60) DEF Placed, Fits, HasTripped
    <2>2. Fits(pc[p], rec[p])'
        BY <1>2, <1>3, <1>4, NoRecordIsNone DEF Fits
    <2> QED BY <2>1, <2>2 DEF Placed
<1>8. Apart'
    BY <1>4, <1>6 DEF Apart
<1>9. Flags'
    BY DEF Flags
<1>10. Recorded'
    <2>1. \A i \in DOMAIN log : log[i] \in Record /\ log[i] # n
        BY <1>2, ElementOfSeq, LenProperties DEF TypeOK, Recorded
    <2>2. \A r \in Record : n < r => issued < r /\ r # n
        BY <1>2, SizesAssumption DEF Record, n
    <2> QED BY <1>2, <1>4, <2>1, <2>2 DEF Recorded, HasTripped
<1>11. /\ Written' /\ Following' /\ BelowLevelNeedsTrip' /\ WrittenOnce'
       /\ TriggerAfterBatch' /\ Flushed' = Flushed
    BY <1>3, <1>4, OutputKept DEF HasTripped
<1>12. Progress'
    BY <1>4, <1>11 DEF Progress
<1>13. Budgeted'
    <2>1. Charged' \subseteq Charged
        BY <1>2, <1>4, <1>6 DEF Charged
    <2> QED BY <2>1, ChargeKept
<1>14. OwedUnlessBudgetSpent' /\ NothingBufferedLate'
    BY <1>2, <1>4 DEF OwedUnlessBudgetSpent, NothingBufferedLate, HasTripped, Spent
<1> QED BY <1>5, <1>7, <1>8, <1>9, <1>10, <1>11, <1>12, <1>13, <1>14

\* done: the carrier's flag, and then the engine's.
LEMMA DoneSteps ==
    ASSUME IInv, NEW p \in Proc, Done(p) \/ Shut(p)
    PROVE  IInv'
<1> USE DEF IInv, Quiet, recordVars
<1>1. /\ pc[p] \in {"idle", "shut"} /\ pc'[p] \in {"idle", "shut"} /\ rec' = rec
      /\ pc' \in [Proc -> At]
      /\ \A q \in Proc : q # p => pc'[q] = pc[q]
      /\ pc'[p] = "shut" => bound
    <2>1. CASE Done(p)
        <3>1. PICK to \in {"idle", "shut"} : Goto(p, "idle", to) /\ (to = "shut" => bound)
            BY <2>1 DEF Done
        <3> QED BY <3>1, Went DEF At
    <2>2. CASE Shut(p)
        <3>1. Goto(p, "shut", "idle")
            BY <2>2 DEF Shut
        <3> QED BY <3>1, Went DEF At
    <2> QED BY <2>1, <2>2
<1>2. /\ UNCHANGED <<bound, preTripped, tripped, postTrip, log, batch, lost, replayed,
                     out, recordVars, fate, trigger, wins>>
      /\ closed' \in BOOLEAN /\ shut' \in BOOLEAN /\ closed'
      /\ (closed => closed') /\ (shut => shut')
    <2>1. CASE Done(p)
        BY <2>1 DEF Done, ringVars, TypeOK
    <2>2. CASE Shut(p)
        BY <2>2 DEF Shut, carrierVars, Goto, Placed, Fits, TypeOK
    <2> QED BY <2>1, <2>2
<1> USE <1>2
<1>3. TypeOK'
    BY <1>1 DEF TypeOK
<1>4. Placed'
    <2>1. ASSUME NEW q \in Proc, q # p PROVE Fits(pc[q], rec[q])'
        BY <1>1, <2>1 DEF Placed, Fits, HasTripped
    <2>2. Fits(pc[p], rec[p])'
        BY <1>1 DEF Placed, Fits, HasTripped
    <2> QED BY <2>1, <2>2 DEF Placed
<1>5. Apart'
    BY <1>1 DEF Apart
<1>6. Flags' /\ Recorded'
    BY DEF Flags, Recorded, HasTripped
<1>7. /\ Written' /\ Following' /\ BelowLevelNeedsTrip' /\ WrittenOnce'
      /\ TriggerAfterBatch' /\ Flushed' = Flushed
    BY OutputKept DEF HasTripped
<1>8. Progress'
    BY <1>1, <1>7 DEF Progress
<1>9. Budgeted'
    BY ChargeKept
<1>10. OwedUnlessBudgetSpent' /\ NothingBufferedLate'
    BY DEF OwedUnlessBudgetSpent, NothingBufferedLate, HasTripped, Spent
<1> QED BY <1>3, <1>4, <1>5, <1>6, <1>7, <1>8, <1>9, <1>10

\* A ring is made, tripped if the scope already is.
LEMMA BindSlowStep ==
    ASSUME IInv, NEW p \in Proc, BindSlow(p)
    PROVE  IInv'
<1> USE DEF IInv, Quiet, recordVars
<1>1. /\ ~closed /\ Goto(p, "bindSlow", "offer") /\ bound' = TRUE
      /\ tripped' = (tripped \/ (~bound /\ preTripped))
      /\ UNCHANGED <<preTripped, closed, shut, postTrip, log, batch, lost, replayed,
                     out, recordVars, fate, trigger, wins>>
    BY DEF BindSlow
<1>2. /\ pc[p] = "bindSlow" /\ pc'[p] = "offer" /\ rec' = rec
      /\ pc' \in [Proc -> At]
      /\ \A q \in Proc : q # p => pc'[q] = pc[q]
    BY <1>1, Went DEF At
<1>3. /\ HasTripped' <=> HasTripped
      /\ tripped => tripped'
      /\ tripped' \in BOOLEAN /\ bound' \in BOOLEAN
      /\ preTripped => tripped'
    BY <1>1 DEF HasTripped, Flags, TypeOK
<1>4. ~tripped /\ tripped' => log = <<>> /\ batch = <<>> /\ lost = 0
    BY <1>1 DEF Flags
<1> USE <1>1
<1>5. TypeOK'
    BY <1>2, <1>3 DEF TypeOK
<1>6. Placed'
    <2>1. ASSUME NEW q \in Proc, q # p PROVE Fits(pc[q], rec[q])'
        BY <1>2, <1>3, <2>1 DEF Placed, Fits
    <2>2. Fits(pc[p], rec[p])'
        BY <1>2, <1>3 DEF Placed, Fits
    <2> QED BY <2>1, <2>2 DEF Placed
<1>7. Apart'
    BY <1>2 DEF Apart
<1>8. Flags'
    <2>1. Newest(<<>>) = <<>> /\ Len(<<>>) = 0
        <3>1. <<>> \in Seq(Record)
            OBVIOUS
        <3>2. Newest(<<>>) \in Seq(Record) /\ Len(Newest(<<>>)) = 0
            <4>1. Len(<<>>) = 0
                OBVIOUS
            <4>2. Kept(Len(<<>>)) \in 0 .. Len(<<>>) /\ Newest(<<>>) \in Seq(Record)
                  /\ Len(Newest(<<>>)) = Kept(Len(<<>>))
                BY <3>1, NewestIsTail
            <4>3. Kept(Len(<<>>)) = 0
                BY <4>1, <4>2
            <4> QED BY <4>2, <4>3
        <3> QED BY <3>2, EmptySeq
    <2>2. tripped' => batch = Newest(log) /\ lost = Len(log) - Len(batch)
        BY <1>3, <1>4, <2>1 DEF Flags
    <2> QED BY <1>3, <2>2 DEF Flags, Newest, Kept
<1>9. Recorded'
    BY <1>3 DEF Recorded
<1>10. /\ Written' /\ Following' /\ BelowLevelNeedsTrip' /\ WrittenOnce'
       /\ TriggerAfterBatch' /\ Flushed' = Flushed
    BY <1>3, OutputKept
<1>11. Progress'
    BY <1>2, <1>10 DEF Progress
<1>12. Budgeted'
    <2>1. Charged' \subseteq Charged
        BY <1>2 DEF Charged
    <2> QED BY <2>1, ChargeKept
<1>13. OwedUnlessBudgetSpent' /\ NothingBufferedLate'
    BY <1>3 DEF OwedUnlessBudgetSpent, NothingBufferedLate, Spent
<1> QED BY <1>5, <1>6, <1>7, <1>8, <1>9, <1>10, <1>11, <1>12, <1>13

\* The first trip of a scope without a ring: nothing was buffered, and nothing will
\* be.
LEMMA MarkFirstStep ==
    ASSUME IInv, NEW p \in Proc, MarkFirst(p)
    PROVE  IInv'
<1> USE DEF IInv, recordVars, ringVars
<1>1. /\ ~closed /\ ~bound /\ ~preTripped /\ preTripped' = TRUE
      /\ Continue(p, "markSlow", "emit")
      /\ trigger' = trigger \cup ({rec[p]} \cap Record)
      /\ UNCHANGED <<bound, closed, ringVars, replayed, out, recordVars>>
    BY DEF MarkFirst
<1>2. /\ ~tripped /\ ~HasTripped /\ trigger = {} /\ late = {} /\ log = <<>>
      /\ batch = <<>> /\ lost = 0 /\ replayed = 0
    BY <1>1 DEF Flags, Recorded, HasTripped, TypeOK
<1>3. /\ pc[p] = "markSlow" /\ pc' \in [Proc -> At] /\ rec' = rec /\ fate' = fate
      /\ pc'[p] = IF rec[p] = NoRecord THEN "idle" ELSE "emit"
      /\ \A q \in Proc : q # p => pc'[q] = pc[q]
    <2>1. CASE rec[p] = NoRecord
        <3>1. Return(p, "markSlow", "pending")
            BY <1>1, <2>1 DEF Continue
        <3>2. /\ pc[p] = "markSlow" /\ pc'[p] = "idle" /\ rec'[p] = NoRecord
              /\ pc' \in [Proc -> At] /\ rec' \in [Proc -> Record \cup {NoRecord}]
              /\ \A q \in Proc : q # p => pc'[q] = pc[q] /\ rec'[q] = rec[q]
              /\ fate' \in [Record -> Fate]
              /\ \A r \in Record : fate'[r] = IF r = rec[p] THEN "pending" ELSE fate[r]
            BY <3>1, Returned DEF Fate
        <3>3. rec' = rec
            BY <2>1, <3>2 DEF TypeOK
        <3>4. fate' = fate
            <4>1. \A r \in Record : fate'[r] = fate[r]
                BY <2>1, <3>2, NoRecordIsNone
            <4>2. fate \in [Record -> Fate]
                BY DEF TypeOK, Fate
            <4> QED BY <3>2, <4>1, <4>2
        <3> QED BY <2>1, <3>2, <3>3, <3>4
    <2>2. CASE rec[p] # NoRecord
        <3>1. Goto(p, "markSlow", "emit") /\ fate' = fate
            BY <1>1, <2>2 DEF Continue
        <3> QED BY <2>2, <3>1, Went DEF At
    <2> QED BY <2>1, <2>2
<1>w. wins' \in Nat
    BY DEF MarkFirst, TypeOK
<1>4. /\ HasTripped' /\ rec \in [Proc -> Record \cup {NoRecord}]
      /\ \A q \in Proc : rec[q] # NoRecord => rec[q] \in Record /\ fate[rec[q]] = "pending"
                                              /\ rec[q] <= issued
      /\ trigger' \subseteq {rec[p]} /\ trigger' \subseteq Record
    BY <1>1, <1>2 DEF HasTripped, TypeOK, Placed, Fits
<1>l. Len(batch) = 0
    BY <1>2, EmptySeq
<1> USE <1>1
<1>5. TypeOK'
    BY <1>3, <1>4, <1>w DEF TypeOK
<1>6. Placed'
    <2>1. ASSUME NEW q \in Proc, q # p PROVE Fits(pc[q], rec[q])'
        <3>1. rec[q] # NoRecord => rec[q] \notin trigger'
            BY <1>4, <2>1 DEF Apart
        <3>2. Fits(pc[q], rec[q])
            BY DEF Placed
        <3> QED BY <1>2, <1>3, <1>4, <2>1, <3>1, <3>2 DEF Fits
    <2>2. Fits(pc[p], rec[p])'
        BY <1>2, <1>3, <1>4, <1>l DEF Placed, Fits
    <2> QED BY <2>1, <2>2 DEF Placed
<1>7. Apart'
    BY <1>3 DEF Apart
<1>8. Flags'
    BY <1>2 DEF Flags
<1>9. Recorded'
    <2>1. \A r \in Record : issued < r => r \notin trigger'
        BY <1>4, NoRecordIsNone, SizesAssumption DEF TypeOK, Record
    <2> QED BY <1>2, <1>3, <1>4, <2>1 DEF Recorded
<1>10. /\ Written' /\ Following' /\ BelowLevelNeedsTrip' /\ WrittenOnce'
       /\ TriggerAfterBatch' /\ Flushed' = Flushed
    BY <1>2, <1>3, <1>4, NoRecordIsNone, OutputKept
<1>11. Progress'
    BY <1>3, <1>10 DEF Progress
<1>12. Budgeted'
    <2>1. Charged' \subseteq Charged
        BY <1>2 DEF Charged
    <2> QED BY <2>1, ChargeKept
<1>13. OwedUnlessBudgetSpent' /\ NothingBufferedLate'
    BY <1>2, <1>3 DEF OwedUnlessBudgetSpent, NothingBufferedLate, Spent
<1> QED BY <1>5, <1>6, <1>7, <1>8, <1>9, <1>10, <1>11, <1>12, <1>13

\* Flush wins the trip: from here the batch is the newest records, and p's to emit.
LEMMA FlushTripsStep ==
    ASSUME IInv, NEW p \in Proc, FlushTrips(p)
    PROVE  IInv'
<1> USE DEF IInv, recordVars, carrierVars
<1>1. /\ ~shut /\ ~tripped /\ Goto(p, "flush", AfterFlush) /\ tripped' = TRUE
      /\ batch' = Newest(log) /\ lost' = Len(log) - Kept(Len(log))
      /\ trigger' = trigger \cup ({rec[p]} \cap Record)
      /\ UNCHANGED <<carrierVars, shut, postTrip, log, replayed, out, recordVars, fate>>
    BY DEF FlushTrips
<1>w. wins' \in Nat
    BY DEF FlushTrips, TypeOK
<1>2. AfterFlush \in {"notify", "replay"} /\ (AfterFlush = "notify" <=> Len(log) > Capacity)
    BY DEF AfterFlush
<1>3. /\ pc[p] = "flush" /\ pc'[p] = AfterFlush /\ rec' = rec
      /\ pc' \in [Proc -> At]
      /\ \A q \in Proc : q # p => pc'[q] = pc[q]
    BY <1>1, <1>2, Went DEF At
<1>4. /\ bound /\ ~HasTripped /\ trigger = {} /\ late = {}
      /\ batch = <<>> /\ lost = 0 /\ replayed = 0 /\ HasTripped'
    BY <1>1, <1>3 DEF Placed, Fits, Flags, Recorded, HasTripped, TypeOK
<1>5. /\ \A q \in Proc : rec[q] # NoRecord => rec[q] \in Record /\ fate[rec[q]] = "pending"
                                              /\ rec[q] <= issued
      /\ trigger' \subseteq {rec[p]} /\ trigger' \subseteq Record
      /\ rec[p] # NoRecord => rec[p] \in trigger'
    BY <1>1, <1>4 DEF TypeOK, Placed, Fits
<1>6. /\ batch' \in Seq(Record) /\ lost' \in Nat /\ Len(log) \in Nat
      /\ Len(batch') = Kept(Len(log)) /\ lost' = Len(log) - Len(batch')
      /\ Len(batch') \in Nat
      /\ AfterFlush = "notify" <=> lost' > 0
    <2>1. /\ Newest(log) \in Seq(Record) /\ Kept(Len(log)) \in 0 .. Len(log)
          /\ Len(Newest(log)) = Kept(Len(log)) /\ Len(log) \in Nat
        BY NewestIsTail, LenProperties DEF TypeOK
    <2>2. Len(log) - Kept(Len(log)) > 0 <=> Len(log) > Capacity
        BY <2>1, SizesAssumption DEF Kept
    <2> QED BY <1>1, <1>2, <2>1, <2>2
<1>7. \A q \in Proc : pc[q] \notin {"notify", "replay"}
    BY <1>1 DEF Placed, Fits
<1>8. Flushed = {}
    <2>1. Cardinality(Flushed) = 0
        BY <1>4 DEF Progress
    <2>2. IsFiniteSet(Flushed)
        <3>1. Len(out) \in Nat /\ DOMAIN out = 1 .. Len(out)
            BY LenProperties DEF TypeOK
        <3>2. IsFiniteSet(1 .. Len(out)) /\ Flushed \subseteq 1 .. Len(out)
            BY <3>1, FS_Interval DEF Flushed
        <3> QED BY <3>2, FS_Subset
    <2> QED BY <2>1, <2>2, FS_EmptySet
<1>9. \A i \in DOMAIN out : out[i].kind = "live"
    BY <1>8 DEF Flushed
<1> USE <1>1
<1>10. TypeOK'
    BY <1>3, <1>4, <1>5, <1>6, <1>w DEF TypeOK
<1>11. Placed'
    <2>1. ASSUME NEW q \in Proc, q # p PROVE Fits(pc[q], rec[q])'
        <3>1. rec[q] # NoRecord => rec[q] \notin trigger'
            BY <1>5, <2>1 DEF Apart
        <3>2. Fits(pc[q], rec[q]) /\ pc[q] # "notify"
            BY <1>7 DEF Placed
        <3> QED BY <1>3, <1>4, <1>5, <2>1, <3>1, <3>2 DEF Fits
    <2>2. Fits(pc[p], rec[p])'
        BY <1>2, <1>3, <1>4, <1>5, <1>6 DEF Placed, Fits
    <2> QED BY <2>1, <2>2 DEF Placed
<1>12. Apart'
    BY <1>3, <1>7 DEF Apart
<1>13. Flags'
    BY <1>4, <1>6 DEF Flags, Newest, Kept
<1>14. Recorded'
    <2>1. \A r \in Record : issued < r => r \notin trigger'
        BY <1>5, NoRecordIsNone, SizesAssumption DEF TypeOK, Record
    <2> QED BY <1>4, <1>5, <2>1 DEF Recorded
<1>15. Flushed' = {}
    BY <1>8 DEF Flushed
<1>16. Written' /\ WrittenOnce'
    BY <1>4, <1>9 DEF Written, WrittenOnce
<1>17. Following'
    BY <1>15 DEF Following
<1>18. Progress'
    <2>1. Cardinality(Flushed') = 0
        BY <1>15, FS_EmptySet
    <2>2. lost' > 0 => pc'[p] = "notify"
        BY <1>3, <1>6
    <2> QED BY <1>4, <2>1, <2>2 DEF Progress
<1>19. BelowLevelNeedsTrip'
    BY <1>4 DEF BelowLevelNeedsTrip
<1>20. TriggerAfterBatch'
    BY <1>5, <1>9, ItemsSettled, NoRecordIsNone DEF TriggerAfterBatch
<1>21. Budgeted'
    <2>1. Charged' \subseteq Charged
        BY <1>4 DEF Charged
    <2> QED BY <2>1, ChargeKept
<1>22. OwedUnlessBudgetSpent' /\ NothingBufferedLate'
    BY <1>4 DEF OwedUnlessBudgetSpent, NothingBufferedLate, Spent
<1> QED BY <1>10, <1>11, <1>12, <1>13, <1>14, <1>16, <1>17, <1>18, <1>19, <1>20, <1>21,
           <1>22

-----------------------------------------------------------------------------
(* The flush.                                                                 *)

\* One more item of output: what was written stays where it is.
LEMMA OutGrows ==
    ASSUME TypeOK, NEW e \in [kind : {"live", "replay", "notice"}, n : Nat \ {0}],
           out' = Append(out, e)
    PROVE  /\ out' \in Seq([kind : {"live", "replay", "notice"}, n : Nat \ {0}])
           /\ Len(out) \in Nat
           /\ DOMAIN out = 1 .. Len(out) /\ DOMAIN out' = 1 .. Len(out) + 1
           /\ \A i \in 1 .. Len(out) : out'[i] = out[i]
           /\ out'[Len(out) + 1] = e
<1> DEFINE Item == [kind : {"live", "replay", "notice"}, n : Nat \ {0}]
<1>1. out \in Seq(Item) /\ e \in Item
    BY DEF TypeOK
<1> HIDE DEF Item
<1>2. /\ out' \in Seq(Item) /\ Len(out') = Len(out) + 1
      /\ \A i \in 1 .. Len(out) : out'[i] = out[i]
      /\ out'[Len(out) + 1] = e
    BY <1>1, AppendProperties
<1>3. Len(out) \in Nat /\ DOMAIN out = 1 .. Len(out) /\ DOMAIN out' = 1 .. Len(out) + 1
    BY <1>1, <1>2, LenProperties
<1> QED BY <1>2, <1>3 DEF Item

\* A live item is no part of the flush ...
LEMMA LiveItem ==
    ASSUME IInv, NEW r \in Record, out' = Append(out, Live(r)),
           UNCHANGED <<batch, lost>>
    PROVE  Flushed' = Flushed /\ Following'
<1> USE DEF IInv
<1>1. Live(r) \in [kind : {"live", "replay", "notice"}, n : Nat \ {0}]
      /\ Live(r).kind = "live"
    BY NoRecordIsNone DEF Live
<1>2. /\ Len(out) \in Nat
      /\ DOMAIN out = 1 .. Len(out) /\ DOMAIN out' = 1 .. Len(out) + 1
      /\ \A i \in 1 .. Len(out) : out'[i] = out[i]
      /\ out'[Len(out) + 1] = Live(r)
    BY <1>1, OutGrows
<1>3. Flushed' = Flushed
    BY <1>1, <1>2 DEF Flushed
<1>4. Script' = Script /\ \A i : FlushedBy(i)' = FlushedBy(i)
    BY <1>3 DEF Script, FlushedBy
<1>5. \A i \in Flushed : out'[i] = out[i]
    BY <1>2 DEF Flushed
<1> QED BY <1>3, <1>4, <1>5 DEF Following

\* ... and an item that is, is the next of the script.
LEMMA FlushedItem ==
    ASSUME IInv, NEW e \in [kind : {"replay", "notice"}, n : Nat \ {0}],
           out' = Append(out, e), UNCHANGED <<batch, lost>>,
           Cardinality(Flushed) < Len(Script),
           e = Script[Cardinality(Flushed) + 1]
    PROVE  Cardinality(Flushed') = Cardinality(Flushed) + 1 /\ Following'
<1> USE DEF IInv
<1>1. e \in [kind : {"live", "replay", "notice"}, n : Nat \ {0}] /\ e.kind # "live"
    OBVIOUS
<1>2. /\ Len(out) \in Nat
      /\ DOMAIN out = 1 .. Len(out) /\ DOMAIN out' = 1 .. Len(out) + 1
      /\ \A i \in 1 .. Len(out) : out'[i] = out[i]
      /\ out'[Len(out) + 1] = e
    BY <1>1, OutGrows
<1>p. PICK end \in Nat : end = Len(out) + 1
    BY <1>2
<1>e. end \notin 1 .. Len(out) /\ out'[end] = e
      /\ DOMAIN out' = DOMAIN out \cup {end} /\ \A i \in 1 .. Len(out) : i < end
    BY <1>2, <1>p
<1>3. Flushed' = Flushed \cup {end} /\ Flushed \subseteq 1 .. Len(out)
    <2>1. \A i : i \in Flushed' <=> i \in DOMAIN out' /\ out'[i].kind # "live"
        BY DEF Flushed
    <2>2. \A i : i \in Flushed <=> i \in DOMAIN out /\ out[i].kind # "live"
        BY DEF Flushed
    <2>3. \A i : i \in Flushed' <=> i \in Flushed \/ i = end
        BY <1>1, <1>2, <1>e, <2>1, <2>2
    <2> QED BY <1>2, <2>2, <2>3
<1>4. IsFiniteSet(Flushed) /\ end \notin Flushed
    <2>1. IsFiniteSet(1 .. Len(out))
        BY <1>2, FS_Interval
    <2> QED BY <1>3, <1>e, <2>1, FS_Subset
<1>5. Cardinality(Flushed') = Cardinality(Flushed) + 1
    BY <1>3, <1>4, FS_AddElement
<1>6. Script' = Script /\ Cardinality(Flushed) \in Nat /\ Len(Script) \in Nat
    <2>1. batch \in Seq(Record) /\ lost \in Nat /\ Len(batch) \in Nat
        BY LenProperties DEF TypeOK
    <2>2. Len(Script) \in Nat
        BY <2>1, ScriptItems
    <2> QED BY <1>4, <2>2, FS_CardinalityType DEF Script
<1>7. ASSUME NEW i \in Flushed
      PROVE  FlushedBy(i)' <= Len(Script) /\ out'[i] = Script[FlushedBy(i)']
    <2>1. {j \in Flushed' : j <= i} = {j \in Flushed : j <= i}
        BY <1>2, <1>3, <1>e
    <2>2. FlushedBy(i)' = FlushedBy(i)
        BY <2>1 DEF FlushedBy
    <2>3. out'[i] = out[i]
        BY <1>2, <1>3
    <2> QED BY <2>2, <2>3 DEF Following
<1>8. FlushedBy(end)' <= Len(Script) /\ out'[end] = Script[FlushedBy(end)']
    <2>1. \A j \in Flushed' : j <= end
        BY <1>2, <1>3, <1>e
    <2>2. {j \in Flushed' : j <= end} = Flushed'
        BY <2>1
    <2>3. FlushedBy(end)' = Cardinality(Flushed) + 1
        BY <1>5, <2>2 DEF FlushedBy
    <2> QED BY <1>e, <1>6, <2>3
<1>9. \A i \in Flushed' : FlushedBy(i)' <= Len(Script') /\ out'[i] = Script'[FlushedBy(i)']
    BY <1>3, <1>6, <1>7, <1>8
<1> QED BY <1>5, <1>9 DEF Following

\* The notice of what was lost.
LEMMA NotifyStep ==
    ASSUME IInv, NEW p \in Proc, Notify(p)
    PROVE  IInv'
<1> USE DEF IInv, recordVars, carrierVars, ringVars
<1>1. /\ Goto(p, "notify", "replay") /\ out' = Append(out, Notice(lost))
      /\ UNCHANGED <<carrierVars, ringVars, replayed, recordVars, fate, trigger, wins>>
    BY DEF Notify
<1>2. /\ pc[p] = "notify" /\ pc'[p] = "replay" /\ rec' = rec
      /\ pc' \in [Proc -> At]
      /\ \A q \in Proc : q # p => pc'[q] = pc[q]
    BY <1>1, Went DEF At
<1>3. /\ lost > 0 /\ tripped /\ replayed = 0
      /\ lost \in Nat /\ batch \in Seq(Record) /\ Len(batch) \in Nat
    BY <1>2, LenProperties DEF Placed, Fits, TypeOK
<1>4. \A q \in Proc : pc'[q] # "notify"
    BY <1>2 DEF Apart
<1>5. Notice(lost) \in [kind : {"replay", "notice"}, n : Nat \ {0}]
      /\ Notice(lost) \in [kind : {"live", "replay", "notice"}, n : Nat \ {0}]
      /\ Notice(lost).kind = "notice"
    BY <1>3 DEF Notice
<1>6. /\ out' \in Seq([kind : {"live", "replay", "notice"}, n : Nat \ {0}])
      /\ Len(out) \in Nat
      /\ DOMAIN out = 1 .. Len(out) /\ DOMAIN out' = 1 .. Len(out) + 1
      /\ \A i \in 1 .. Len(out) : out'[i] = out[i]
      /\ out'[Len(out) + 1] = Notice(lost)
    BY <1>1, <1>5, OutGrows
<1> USE <1>1
<1>7. TypeOK'
    BY <1>2, <1>6 DEF TypeOK
<1>8. Placed'
    <2>1. ASSUME NEW q \in Proc, q # p PROVE Fits(pc[q], rec[q])'
        BY <1>2, <2>1 DEF Placed, Fits, HasTripped
    <2>2. Fits(pc[p], rec[p])'
        BY <1>2 DEF Placed, Fits, HasTripped
    <2> QED BY <2>1, <2>2 DEF Placed
<1>9. Apart'
    BY <1>2 DEF Apart
<1>10. Flags' /\ Recorded'
    BY DEF Flags, Recorded, HasTripped
<1>11. Written'
    BY <1>3, <1>5, <1>6 DEF Written
<1>12. Cardinality(Flushed) = 0
    BY <1>2, <1>3 DEF Progress
<1>13. Cardinality(Flushed') = 1 /\ Following'
    <2>1. Len(Script) = Len(batch) + 1 /\ Script[1] = Notice(lost)
        BY <1>3, ScriptItems
    <2> QED BY <1>3, <1>5, <1>12, <2>1, FlushedItem
<1>14. Progress'
    BY <1>3, <1>4, <1>13 DEF Progress
<1>15. BelowLevelNeedsTrip' /\ WrittenOnce'
    BY <1>5, <1>6 DEF BelowLevelNeedsTrip, WrittenOnce, HasTripped
<1>16. TriggerAfterBatch'
    <2> SUFFICES ASSUME NEW i \in DOMAIN out', out'[i].kind = "live", out'[i].n \in trigger,
                        NEW k \in DOMAIN batch
                 PROVE  \E j \in 1 .. i - 1 : out'[j] = Replay(batch[k])
        BY DEF TriggerAfterBatch
    <2>1. i \in DOMAIN out /\ out[i] = out'[i]
        BY <1>5, <1>6
    <2>2. PICK j \in 1 .. i - 1 : out[j] = Replay(batch[k])
        BY <2>1 DEF TriggerAfterBatch
    <2> QED BY <1>6, <2>1, <2>2
<1>17. Budgeted'
    <2>1. Charged' \subseteq Charged
        BY <1>2 DEF Charged
    <2> QED BY <2>1, ChargeKept
<1>18. OwedUnlessBudgetSpent' /\ NothingBufferedLate'
    BY DEF OwedUnlessBudgetSpent, NothingBufferedLate, HasTripped, Spent
<1> QED BY <1>7, <1>8, <1>9, <1>10, <1>11, <1>13, <1>14, <1>15, <1>16, <1>17, <1>18

\* The next record of the batch: it has not been written before.
LEMMA ReplayNextStep ==
    ASSUME IInv, NEW p \in Proc, ReplayNext(p)
    PROVE  IInv'
<1> USE DEF IInv, recordVars, carrierVars, ringVars
<1> DEFINE item == Replay(batch[replayed + 1])
<1>1. /\ replayed < Len(batch) /\ Goto(p, "replay", "replay")
      /\ out' = Append(out, item) /\ replayed' = replayed + 1
      /\ UNCHANGED <<carrierVars, ringVars, recordVars, fate, trigger, wins>>
    BY DEF ReplayNext
<1>2. pc[p] = "replay" /\ pc' = pc /\ rec' = rec
    BY <1>1 DEF Goto, TypeOK
<1>3. /\ tripped /\ lost \in Nat /\ batch \in Seq(Record) /\ Len(batch) \in Nat
      /\ replayed \in 0 .. Len(batch) /\ replayed + 1 \in 1 .. Len(batch)
      /\ DOMAIN batch = 1 .. Len(batch)
    BY <1>1, <1>2, LenProperties DEF Placed, Fits, TypeOK
<1>r. replayed # Len(batch)
    <2>1. replayed \in Int /\ Len(batch) \in Int /\ replayed < Len(batch)
        BY <1>1, <1>3
    <2> QED BY ONLY <2>1
<1>4. batch[replayed + 1] \in Record /\ batch[replayed + 1] \in Nat \ {0}
    BY <1>3, ElementOfSeq, NoRecordIsNone
<1>5. item \in [kind : {"replay", "notice"}, n : Nat \ {0}]
      /\ item \in [kind : {"live", "replay", "notice"}, n : Nat \ {0}]
      /\ item.kind = "replay" /\ item.n = batch[replayed + 1]
    BY <1>4 DEF Replay
<1> HIDE DEF item
<1>6. /\ out' \in Seq([kind : {"live", "replay", "notice"}, n : Nat \ {0}])
      /\ Len(out) \in Nat
      /\ DOMAIN out = 1 .. Len(out) /\ DOMAIN out' = 1 .. Len(out) + 1
      /\ \A i \in 1 .. Len(out) : out'[i] = out[i]
      /\ out'[Len(out) + 1] = item
    BY <1>1, <1>5, OutGrows
\* What the batch has of the log, each record once.
<1>7. /\ \A k \in 1 .. Len(batch) :
             /\ fate[batch[k]] = "buffered" /\ batch[k] \in Record
      /\ \A k, m \in 1 .. Len(batch) : batch[k] = batch[m] => k = m
    <2> DEFINE start == Len(log) - Kept(Len(log))
    <2>1. /\ log \in Seq(Record) /\ Len(log) \in Nat /\ DOMAIN log = 1 .. Len(log)
          /\ batch = Newest(log)
        BY <1>3, LenProperties DEF TypeOK, Flags
    <2>2. /\ Kept(Len(log)) \in 0 .. Len(log) /\ Len(batch) = Kept(Len(log))
          /\ \A k \in 1 .. Len(batch) : batch[k] = log[start + k]
        BY <2>1, NewestIsTail
    <2>3. start \in Nat /\ \A k \in 1 .. Len(batch) : start + k \in DOMAIN log
        BY <2>1, <2>2
    <2> HIDE DEF start
    <2>4. \A k, m \in 1 .. Len(batch) : start + k = start + m => k = m
        BY <1>3, <2>3
    <2>5. \A k, m \in 1 .. Len(batch) : batch[k] = batch[m] => k = m
        BY <2>2, <2>3, <2>4 DEF Recorded
    <2>6. \A k \in 1 .. Len(batch) : batch[k] \in Record
        BY <1>3, ElementOfSeq
    <2> QED BY <2>2, <2>3, <2>5, <2>6 DEF Recorded
<1> USE <1>1
<1>8. TypeOK'
    BY <1>2, <1>3, <1>6 DEF TypeOK
<1>9. Placed'
    <2>1. ASSUME NEW q \in Proc PROVE Fits(pc[q], rec[q])'
        <3>1. pc[q] # "notify"
            BY <1>2 DEF Apart
        <3>2. rec[q] \in trigger => pc[q] # "emit"
            <4>1. replayed # Len(batch) /\ NoRecord \notin trigger
                BY <1>r, NoRecordIsNone DEF TypeOK
            <4> QED BY <4>1 DEF Placed, Fits
        <3> QED BY <1>2, <3>1, <3>2 DEF Placed, Fits, HasTripped
    <2> QED BY <2>1 DEF Placed
<1>10. Apart' /\ Flags' /\ Recorded'
    BY <1>2 DEF Apart, Flags, Recorded, HasTripped
<1>11. Written'
    <2>1. ASSUME NEW i \in DOMAIN out'
          PROVE  /\ out'[i].kind = "live" => out'[i].n \in Record /\ fate[out'[i].n] = "emitted"
                 /\ out'[i].kind = "replay" => \E k \in 1 .. replayed + 1 : out'[i].n = batch[k]
        <3>1. CASE i \in DOMAIN out
            BY <1>3, <1>6, <3>1, SMTT(30) DEF Written
        <3>2. CASE i = Len(out) + 1
            BY <1>3, <1>5, <1>6, <3>2
        <3> QED BY <1>6, <3>1, <3>2
    <2>2. ASSUME NEW k \in 1 .. replayed + 1
          PROVE  \E i \in DOMAIN out' : out'[i] = Replay(batch[k])
        <3>1. CASE k \in 1 .. replayed
            BY <1>6, <3>1 DEF Written
        <3>2. CASE k = replayed + 1
            <4>1. out'[Len(out) + 1] = Replay(batch[k])
                BY <1>6, <3>2 DEF item
            <4> QED BY <1>6, <4>1
        <3> QED BY <1>3, <3>1, <3>2
    <2> QED BY <2>1, <2>2 DEF Written
<1>12. \A q \in Proc : pc[q] # "notify"
    BY <1>2 DEF Apart
<1>13. Cardinality(Flushed') = Cardinality(Flushed) + 1 /\ Following'
    <2>1. Cardinality(Flushed) = replayed + IF lost > 0 THEN 1 ELSE 0
        BY <1>12 DEF Progress
    <2>2. Len(Script) = Len(batch) + IF lost > 0 THEN 1 ELSE 0
        BY <1>3, ScriptItems
    <2>3. Script[replayed + 1 + IF lost > 0 THEN 1 ELSE 0] = item
        BY <1>3, ScriptItems DEF item
    <2>4. Cardinality(Flushed) < Len(Script) /\ item = Script[Cardinality(Flushed) + 1]
        BY <1>3, <2>1, <2>2, <2>3
    <2> QED BY <1>5, <2>4, FlushedItem
<1>14. Progress'
    BY <1>2, <1>3, <1>12, <1>13 DEF Progress
<1>15. BelowLevelNeedsTrip'
    BY <1>3 DEF BelowLevelNeedsTrip, HasTripped
<1>16. WrittenOnce'
    <2>1. ASSUME NEW i \in DOMAIN out, out[i].kind # "notice" PROVE out[i].n # item.n
        <3>1. fate[item.n] = "buffered"
            BY <1>3, <1>5, <1>7
        <3>2. CASE out[i].kind = "replay"
            <4>1. PICK k \in 1 .. replayed : out[i].n = batch[k]
                BY <3>2 DEF Written
            <4> QED BY <1>3, <1>5, <1>7, <4>1
        <3>3. CASE out[i].kind # "replay"
            <4>1. fate[out[i].n] = "emitted"
                BY <2>1, <3>3, ItemsSettled
            <4> QED BY <3>1, <4>1
        <3> QED BY <3>2, <3>3
    <2> QED BY <1>6, <2>1 DEF WrittenOnce
<1>17. TriggerAfterBatch'
    <2> SUFFICES ASSUME NEW i \in DOMAIN out', out'[i].kind = "live", out'[i].n \in trigger,
                        NEW k \in DOMAIN batch
                 PROVE  \E j \in 1 .. i - 1 : out'[j] = Replay(batch[k])
        BY DEF TriggerAfterBatch
    <2>1. i \in DOMAIN out /\ out[i] = out'[i]
        BY <1>5, <1>6
    <2>2. PICK j \in 1 .. i - 1 : out[j] = Replay(batch[k])
        BY <2>1 DEF TriggerAfterBatch
    <2> QED BY <1>6, <2>1, <2>2
<1>18. Budgeted'
    <2>1. Charged' \subseteq Charged
        BY <1>2 DEF Charged
    <2> QED BY <2>1, ChargeKept
<1>19. OwedUnlessBudgetSpent' /\ NothingBufferedLate'
    BY DEF OwedUnlessBudgetSpent, NothingBufferedLate, HasTripped, Spent
<1> QED BY <1>8, <1>9, <1>10, <1>11, <1>13, <1>14, <1>15, <1>16, <1>17, <1>18, <1>19

-----------------------------------------------------------------------------
(* What becomes of a record that is offered to the scope, or emitted.         *)

\* Buffered: the record was pending, so the log does not have it; and it is not
\* late, for after the trip a ring is made tripped.
LEMMA BuffersStep ==
    ASSUME IInv, NEW p \in Proc, AppendBuffers(p)
    PROVE  IInv'
<1> USE DEF IInv, Quiet, carrierVars, recordVars
<1>1. /\ rec[p] # NoRecord /\ level[rec[p]] = "debug" /\ ~shut /\ ~tripped
      /\ Return(p, "offer", "buffered") /\ log' = Append(log, rec[p])
      /\ UNCHANGED <<carrierVars, tripped, shut, postTrip, batch, lost, replayed, out,
                     recordVars, trigger, wins>>
    BY DEF AppendBuffers, IsDebug
<1>2. /\ pc[p] = "offer" /\ pc'[p] = "idle" /\ rec'[p] = NoRecord
      /\ pc' \in [Proc -> At] /\ rec' \in [Proc -> Record \cup {NoRecord}]
      /\ \A q \in Proc : q # p => pc'[q] = pc[q] /\ rec'[q] = rec[q]
      /\ fate' \in [Record -> Fate]
      /\ \A r \in Record : fate'[r] = IF r = rec[p] THEN "buffered" ELSE fate[r]
    BY <1>1, Returned DEF Fate
<1>3. /\ rec[p] \in Record /\ fate[rec[p]] = "pending" /\ rec[p] <= issued
      /\ rec \in [Proc -> Record \cup {NoRecord}]
    BY <1>1 DEF Placed, Fits, TypeOK
<1>4. bound /\ ~HasTripped /\ late = {} /\ trigger = {}
    BY <1>1, <1>2 DEF Placed, Fits, Flags, HasTripped, Recorded
<1>5. /\ Len(log) \in Nat /\ DOMAIN log = 1 .. Len(log)
      /\ log' \in Seq(Record) /\ DOMAIN log' = 1 .. Len(log) + 1
      /\ \A i \in 1 .. Len(log) : log'[i] = log[i] /\ log[i] \in Record
      /\ log'[Len(log) + 1] = rec[p]
    <2>1. log \in Seq(Record)
        BY DEF TypeOK
    <2>2. /\ log' \in Seq(Record) /\ Len(log') = Len(log) + 1
          /\ \A i \in 1 .. Len(log) : log'[i] = log[i]
          /\ log'[Len(log) + 1] = rec[p]
        BY <1>1, <1>3, <2>1, AppendProperties
    <2> QED BY <2>1, <2>2, LenProperties, ElementOfSeq
<1> USE <1>1
<1>6. TypeOK'
    BY <1>2, <1>5 DEF TypeOK, Fate
<1>7. Apart'
    BY <1>2 DEF Apart
<1>8. Placed'
    <2>1. ASSUME NEW q \in Proc, q # p PROVE Fits(pc[q], rec[q])'
        <3>1. rec[q] # NoRecord => rec[q] \in Record /\ fate'[rec[q]] = fate[rec[q]]
            BY <1>2, <1>3, <2>1 DEF Apart
        <3>2. Fits(pc[q], rec[q])
            BY DEF Placed
        <3> QED BY <1>2, <2>1, <3>1, <3>2 DEF Fits, HasTripped
    <2>2. Fits(pc[p], rec[p])'
        BY <1>2 DEF Fits
    <2> QED BY <2>1, <2>2 DEF Placed
<1>9. Flags'
    BY <1>4 DEF Flags, HasTripped
<1>10. \A r \in Record : fate[r] # "pending" => fate'[r] = fate[r]
    BY <1>2, <1>3
<1>11. Recorded'
    <2>1. \A r \in Record : issued < r => fate'[r] = "pending"
        <3> SUFFICES ASSUME NEW r \in Record, issued < r PROVE fate'[r] = "pending"
            OBVIOUS
        <3>1. r # rec[p] /\ fate[r] = "pending"
            BY <1>3, SizesAssumption DEF Recorded, TypeOK, Record
        <3> QED BY <1>2, <3>1
    <2>2. \A i \in 1 .. Len(log) : log[i] # rec[p]
        BY <1>3, <1>5 DEF Recorded
    <2>3. \A i \in DOMAIN log' : fate'[log'[i]] = "buffered" /\ level[log'[i]] = "debug"
        BY <1>2, <1>3, <1>5, <1>10 DEF Recorded
    <2>4. \A i, j \in DOMAIN log' : log'[i] = log'[j] => i = j
        BY <1>5, <2>2 DEF Recorded
    <2> QED BY <1>4, <2>1, <2>3, <2>4 DEF Recorded
<1>12. /\ Written' /\ Following' /\ BelowLevelNeedsTrip' /\ WrittenOnce'
       /\ TriggerAfterBatch' /\ Flushed' = Flushed
    BY <1>10, OutputKept DEF HasTripped
<1>13. Progress'
    BY <1>2, <1>12 DEF Progress
<1>14. Budgeted'
    <2>1. Charged' \subseteq Charged
        BY <1>4 DEF Charged
    <2> QED BY <2>1, ChargeKept
<1>15. OwedUnlessBudgetSpent' /\ NothingBufferedLate'
    BY <1>2, <1>4 DEF OwedUnlessBudgetSpent, NothingBufferedLate, HasTripped, Spent
<1> QED BY <1>6, <1>7, <1>8, <1>9, <1>11, <1>12, <1>13, <1>14, <1>15

\* Granted: one more record on its way out, one more charged.
LEMMA GrantedStep ==
    ASSUME IInv, NEW p \in Proc, OfferGranted(p)
    PROVE  IInv'
<1> USE DEF IInv, Quiet, carrierVars, recordVars
<1>1. /\ ~shut /\ tripped /\ ~Spent /\ Goto(p, "offer", "emit") /\ postTrip' = postTrip + 1
      /\ UNCHANGED <<carrierVars, tripped, shut, log, batch, lost, replayed, out,
                     recordVars, fate, trigger, wins>>
    BY DEF OfferGranted
<1>2. /\ pc[p] = "offer" /\ pc'[p] = "emit" /\ rec' = rec
      /\ pc' \in [Proc -> At]
      /\ \A q \in Proc : q # p => pc'[q] = pc[q]
    BY <1>1, Went DEF At
<1>3. rec[p] \notin trigger /\ rec[p] # NoRecord /\ HasTripped /\ postTrip \in Nat
    BY <1>1, <1>2 DEF Placed, Fits, HasTripped, TypeOK
<1> USE <1>1
<1>4. TypeOK'
    BY <1>2, <1>3 DEF TypeOK
<1>5. Placed'
    <2>1. ASSUME NEW q \in Proc, q # p PROVE Fits(pc[q], rec[q])'
        BY <1>2, <2>1 DEF Placed, Fits, HasTripped
    <2>2. Fits(pc[p], rec[p])'
        BY <1>2, <1>3 DEF Placed, Fits, HasTripped
    <2> QED BY <2>1, <2>2 DEF Placed
<1>6. Apart'
    BY <1>2 DEF Apart
<1>7. Flags' /\ Recorded'
    BY DEF Flags, Recorded, HasTripped
<1>8. /\ Written' /\ Following' /\ BelowLevelNeedsTrip' /\ WrittenOnce'
      /\ TriggerAfterBatch' /\ Flushed' = Flushed
    BY OutputKept DEF HasTripped
<1>9. Progress'
    BY <1>2, <1>8 DEF Progress
<1>10. Budgeted'
    <2>1. Charged' \subseteq Charged \cup {rec[p]}
        BY <1>2 DEF Charged
    <2>2. IsFiniteSet(Charged)
        <3>1. IsFiniteSet(Record)
            BY SizesAssumption, FS_Interval DEF Record
        <3>2. Charged \subseteq Record
            BY DEF TypeOK, Charged
        <3> QED BY <3>1, <3>2, FS_Subset
    <2>3. /\ IsFiniteSet(Charged \cup {rec[p]})
          /\ Cardinality(Charged \cup {rec[p]}) <= Cardinality(Charged) + 1
        <3>1. Cardinality(Charged) \in Nat
            BY <2>2, FS_CardinalityType
        <3>2. /\ IsFiniteSet(Charged \cup {rec[p]})
              /\ Cardinality(Charged \cup {rec[p]}) =
                     IF rec[p] \in Charged THEN Cardinality(Charged) ELSE Cardinality(Charged) + 1
            BY <2>2, FS_AddElement
        <3> QED BY <3>1, <3>2
    <2>4. IsFiniteSet(Charged') /\ Cardinality(Charged') <= Cardinality(Charged \cup {rec[p]})
        BY <2>1, <2>3, FS_Subset
    <2>5. /\ Cardinality(Charged) \in Nat /\ Cardinality(Charged') \in Nat
          /\ Cardinality(Charged \cup {rec[p]}) \in Nat
        BY <2>2, <2>3, <2>4, FS_CardinalityType
    <2>6. ~closed => Cardinality(Charged) <= postTrip
        BY DEF Budgeted
    <2>7. ~closed => Cardinality(Charged') <= postTrip + 1
        BY <1>3, <2>3, <2>4, <2>5, <2>6
    <2>8. Limit > 0 => postTrip + 1 <= Limit
        BY <1>3, SizesAssumption DEF Spent, Budgeted
    <2> QED BY <2>7, <2>8 DEF Budgeted
<1>11. OwedUnlessBudgetSpent' /\ NothingBufferedLate'
    <2>1. Spent => Spent'
        BY <1>3, SizesAssumption DEF Spent
    <2> QED BY <2>1 DEF OwedUnlessBudgetSpent, NothingBufferedLate, HasTripped
<1> QED BY <1>4, <1>5, <1>6, <1>7, <1>8, <1>9, <1>10, <1>11

\* Emitted: it was pending, so no item has it; below the level only after the trip;
\* and if it is the trigger, the batch has been written.
LEMMA EmitStep ==
    ASSUME IInv, NEW p \in Proc, Emit(p)
    PROVE  IInv'
<1> USE DEF IInv, carrierVars, ringVars, recordVars
<1>1. /\ Return(p, "emit", "emitted") /\ out' = Append(out, Live(rec[p]))
      /\ UNCHANGED <<carrierVars, ringVars, replayed, recordVars, trigger, wins>>
    BY DEF Emit
<1>2. /\ pc[p] = "emit" /\ pc'[p] = "idle" /\ rec'[p] = NoRecord
      /\ pc' \in [Proc -> At] /\ rec' \in [Proc -> Record \cup {NoRecord}]
      /\ \A q \in Proc : q # p => pc'[q] = pc[q] /\ rec'[q] = rec[q]
      /\ fate' \in [Record -> Fate]
      /\ \A r \in Record : fate'[r] = IF r = rec[p] THEN "emitted" ELSE fate[r]
    BY <1>1, Returned DEF Fate
<1>3. /\ rec[p] \in Record /\ fate[rec[p]] = "pending" /\ rec[p] <= issued
      /\ rec \in [Proc -> Record \cup {NoRecord}]
      /\ level[rec[p]] = "debug" => HasTripped
      /\ rec[p] \in trigger => replayed = Len(batch)
    BY <1>2 DEF Placed, Fits, TypeOK
<1>4. Live(rec[p]) \in [kind : {"live", "replay", "notice"}, n : Nat \ {0}]
      /\ Live(rec[p]).kind = "live" /\ Live(rec[p]).n = rec[p]
    BY <1>3, NoRecordIsNone DEF Live
<1>5. /\ out' \in Seq([kind : {"live", "replay", "notice"}, n : Nat \ {0}])
      /\ Len(out) \in Nat
      /\ DOMAIN out = 1 .. Len(out) /\ DOMAIN out' = 1 .. Len(out) + 1
      /\ \A i \in 1 .. Len(out) : out'[i] = out[i]
      /\ out'[Len(out) + 1] = Live(rec[p])
    BY <1>1, <1>4, OutGrows
<1>6. \A i \in DOMAIN out : out[i].kind # "notice" => out[i].n # rec[p]
    BY <1>3, ItemsSettled
<1> USE <1>1
<1>7. TypeOK'
    BY <1>2, <1>5 DEF TypeOK, Fate
<1>8. Apart'
    BY <1>2 DEF Apart
<1>9. Placed'
    <2>1. ASSUME NEW q \in Proc, q # p PROVE Fits(pc[q], rec[q])'
        <3>1. rec[q] # NoRecord => rec[q] \in Record /\ fate'[rec[q]] = fate[rec[q]]
            BY <1>2, <1>3, <2>1 DEF Apart
        <3>2. Fits(pc[q], rec[q])
            BY DEF Placed
        <3> QED BY <1>2, <2>1, <3>1, <3>2 DEF Fits, HasTripped
    <2>2. Fits(pc[p], rec[p])'
        BY <1>2 DEF Fits
    <2> QED BY <2>1, <2>2 DEF Placed
<1>10. Flags'
    BY DEF Flags
<1>11. \A r \in Record : fate[r] # "pending" => fate'[r] = fate[r]
    BY <1>2, <1>3
<1>12. Recorded'
    <2>1. \A r \in Record : issued < r => fate'[r] = "pending"
        <3> SUFFICES ASSUME NEW r \in Record, issued < r PROVE fate'[r] = "pending"
            OBVIOUS
        <3>1. r # rec[p] /\ fate[r] = "pending"
            BY <1>3, SizesAssumption DEF Recorded, TypeOK, Record
        <3> QED BY <1>2, <3>1
    <2>2. \A i \in DOMAIN log : log[i] \in Record
        BY ElementOfSeq, LenProperties DEF TypeOK
    <2> QED BY <1>11, <2>1, <2>2 DEF Recorded, HasTripped
<1>13. Written'
    <2>1. ASSUME NEW i \in DOMAIN out'
          PROVE  /\ out'[i].kind = "live" => out'[i].n \in Record /\ fate'[out'[i].n] = "emitted"
                 /\ out'[i].kind = "replay" => \E k \in 1 .. replayed : out'[i].n = batch[k]
        <3>1. CASE i \in DOMAIN out
            BY <1>5, <1>11, <3>1 DEF Written
        <3>2. CASE i = Len(out) + 1
            BY <1>2, <1>3, <1>4, <1>5, <3>2
        <3> QED BY <1>5, <3>1, <3>2
    <2>2. \A k \in 1 .. replayed : \E i \in DOMAIN out' : out'[i] = Replay(batch[k])
        BY <1>5 DEF Written
    <2> QED BY <2>1, <2>2 DEF Written
<1>14. Flushed' = Flushed /\ Following'
    BY <1>3, LiveItem
<1>15. Progress'
    BY <1>2, <1>14 DEF Progress
<1>16. BelowLevelNeedsTrip'
    BY <1>3, <1>4, <1>5 DEF BelowLevelNeedsTrip, HasTripped
<1>17. WrittenOnce'
    BY <1>4, <1>5, <1>6 DEF WrittenOnce
<1>18. TriggerAfterBatch'
    <2> SUFFICES ASSUME NEW i \in DOMAIN out', out'[i].kind = "live", out'[i].n \in trigger,
                        NEW k \in DOMAIN batch
                 PROVE  \E j \in 1 .. i - 1 : out'[j] = Replay(batch[k])
        BY DEF TriggerAfterBatch
    <2>1. CASE i \in DOMAIN out
        <3>1. PICK j \in 1 .. i - 1 : out[j] = Replay(batch[k])
            BY <1>5, <2>1 DEF TriggerAfterBatch
        <3> QED BY <1>5, <2>1, <3>1
    <2>2. CASE i = Len(out) + 1
        <3>1. replayed = Len(batch) /\ k \in 1 .. replayed
            BY <1>3, <1>4, <1>5, <2>2, LenProperties DEF TypeOK
        <3>2. PICK j \in DOMAIN out : out[j] = Replay(batch[k])
            BY <3>1 DEF Written
        <3> QED BY <1>5, <2>2, <3>2
    <2> QED BY <1>5, <2>1, <2>2
<1>19. Budgeted'
    <2>1. Charged' \subseteq Charged
        <3>1. late \subseteq Record
            BY DEF TypeOK
        <3> QED BY <1>2, <1>3, <3>1 DEF Charged
    <2> QED BY <2>1, ChargeKept
<1>20. OwedUnlessBudgetSpent' /\ NothingBufferedLate'
    <2>1. late \subseteq Record
        BY DEF TypeOK
    <2> QED BY <1>2, <1>3, <2>1
            DEF OwedUnlessBudgetSpent, NothingBufferedLate, HasTripped, Spent
<1> QED BY <1>7, <1>8, <1>9, <1>10, <1>12, <1>13, <1>14, <1>15, <1>16, <1>17, <1>18,
           <1>19, <1>20

-----------------------------------------------------------------------------
(* The invariant, and what it gives.                                          *)

\* The carrier and the handler start with nothing logged and nobody in a call.
LEMMA InitIInv == Init => IInv
<1> SUFFICES ASSUME Init PROVE IInv
    OBVIOUS
<1> USE DEF Init
<1>1. Len(<<>>) = 0 /\ DOMAIN <<>> = {}
    OBVIOUS
<1>2. TypeOK
    <2>1. /\ level \in [Record -> Level]
          /\ fate \in [Record -> {"pending", "buffered", "dropped", "suppressed", "emitted"}]
          /\ pc \in [Proc -> At] /\ rec \in [Proc -> Record \cup {NoRecord}]
        BY DEF Level, At
    <2>2. 0 \in 0 .. MaxRecords /\ 0 \in 0 .. Len(batch)
        BY <1>1, SizesAssumption
    <2>3. {bound, preTripped, closed, tripped, shut} \subseteq BOOLEAN
        OBVIOUS
    <2> QED BY <2>1, <2>2, <2>3 DEF TypeOK
<1>3. Placed /\ Apart
    BY DEF Placed, Fits, Apart
<1>4. Flags /\ Recorded /\ Written
    BY <1>1 DEF Flags, Recorded, Written
<1>5. Flushed = {} /\ Charged = {}
    BY <1>1 DEF Flushed, Charged
<1>6. Progress /\ Following
    BY <1>5, FS_EmptySet DEF Progress, Following
<1>7. Budgeted
    BY <1>5, FS_EmptySet, SizesAssumption DEF Budgeted
<1>8. BelowLevelNeedsTrip /\ WrittenOnce /\ TriggerAfterBatch
    BY <1>1 DEF BelowLevelNeedsTrip, WrittenOnce, TriggerAfterBatch
<1>9. OwedUnlessBudgetSpent /\ NothingBufferedLate
    BY DEF OwedUnlessBudgetSpent, NothingBufferedLate
<1> QED BY <1>2, <1>3, <1>4, <1>6, <1>7, <1>8, <1>9 DEF IInv

\* Every step of every goroutine keeps the invariant.
LEMMA NextIInv == IInv /\ [Next]_vars => IInv'
<1> SUFFICES ASSUME IInv, [Next]_vars PROVE IInv'
    OBVIOUS
<1>1. CASE UNCHANGED vars
    <2> USE <1>1 DEF vars, carrierVars, ringVars, recordVars, IInv
    <2>1. TypeOK' /\ Placed' /\ Apart' /\ Flags' /\ Recorded'
        BY DEF TypeOK, Placed, Fits, Apart, Flags, Recorded, HasTripped
    <2>2. /\ Written' /\ Following' /\ BelowLevelNeedsTrip' /\ WrittenOnce'
          /\ TriggerAfterBatch' /\ Flushed' = Flushed
        BY OutputKept DEF HasTripped
    <2>3. Progress'
        BY <2>2 DEF Progress
    <2>4. Budgeted'
        BY ChargeKept DEF Charged
    <2>5. OwedUnlessBudgetSpent' /\ NothingBufferedLate'
        BY DEF OwedUnlessBudgetSpent, NothingBufferedLate, HasTripped, Spent
    <2> QED BY <2>1, <2>2, <2>3, <2>4, <2>5
<1>2. ASSUME NEW p \in Proc, Begin(p) \/ Step(p) PROVE IInv'
    BY <1>2, MovingSteps, HandleStep, DoneSteps, BindSlowStep, MarkFirstStep, FlushTripsStep,
       NotifyStep, ReplayNextStep, BuffersStep, GrantedStep, EmitStep DEF Begin, Step
<1> QED BY <1>1, <1>2 DEF Next

\* The invariant holds throughout every behaviour.
LEMMA Invariance == Spec => []IInv
BY InitIInv, NextIInv, PTL DEF Spec

-----------------------------------------------------------------------------
\* Type correctness, for any number of goroutines and of records.
THEOREM HandlerTypeCorrect == Spec => []TypeOK
<1>1. IInv => TypeOK
    BY DEF IInv
<1> QED BY <1>1, Invariance, PTL

\* The batch comes out as the notice of what was lost and then the newest records,
\* oldest first, each once, whoever else writes in between (carrier.go:274-281).
THEOREM FlushKeepsOrder == Spec => []ReplayFollowsScript
<1>1. IInv => ReplayFollowsScript
    BY DEF IInv, Following, Flags, ReplayFollowsScript
<1> QED BY <1>1, Invariance, PTL

\* Nothing below the level is written unless the scope tripped (scope.go:121-125).
THEOREM LevelHoldsUntilTrip == Spec => []BelowLevelNeedsTrip
<1>1. IInv => BelowLevelNeedsTrip
    BY DEF IInv
<1> QED BY <1>1, Invariance, PTL

\* No record reaches the downstream twice, live or replayed.
THEOREM NothingTwice == Spec => []WrittenOnce
<1>1. IInv => WrittenOnce
    BY DEF IInv
<1> QED BY <1>1, Invariance, PTL

\* The record that trips the scope follows its whole batch (handler.go:257-259).
THEOREM BatchThenTrigger == Spec => []TriggerAfterBatch
<1>1. IInv => TriggerAfterBatch
    BY DEF IInv
<1> QED BY <1>1, Invariance, PTL

\* A record at or above the level is withheld only by a spent budget, after the trip,
\* and the trigger never is (handler.go:257-261, 270-276).
THEOREM OnlyBudgetWithholds == Spec => []OwedUnlessBudgetSpent
<1>1. IInv => OwedUnlessBudgetSpent
    BY DEF IInv
<1> QED BY <1>1, Invariance, PTL

\* Nothing is buffered after the trip, where nobody would replay it
\* (carrier.go:60-63, scope.go:207-210).
THEOREM NoBufferAfterTrip == Spec => []NothingBufferedLate
<1>1. IInv => NothingBufferedLate
    BY DEF IInv
<1> QED BY <1>1, Invariance, PTL

\* While the scope lives, no more than Limit of the records logged after its trip are
\* written (scope.go:152-157).
THEOREM BudgetIsABound == Spec => []BudgetBoundsOutput
<1>1. IInv => BudgetBoundsOutput
    <2> SUFFICES ASSUME IInv, Limit > 0, ~closed
                 PROVE  Cardinality({r \in late : fate[r] = "emitted"}) <= Limit
        BY DEF BudgetBoundsOutput
    <2> DEFINE Through == {r \in late : fate[r] = "emitted"}
    <2>1. Through \subseteq Charged /\ Charged \subseteq Record
        BY DEF Charged, IInv, TypeOK
    <2>2. IsFiniteSet(Charged)
        <3>1. IsFiniteSet(Record)
            BY SizesAssumption, FS_Interval DEF Record
        <3> QED BY <2>1, <3>1, FS_Subset
    <2>3. IsFiniteSet(Through) /\ Cardinality(Through) <= Cardinality(Charged)
        BY <2>1, <2>2, FS_Subset
    <2>4. Cardinality(Through) \in Nat /\ Cardinality(Charged) \in Nat
        BY <2>2, <2>3, FS_CardinalityType
    <2>5. Cardinality(Charged) <= postTrip /\ postTrip <= Limit /\ postTrip \in Nat
        BY DEF IInv, Budgeted, TypeOK
    <2> QED BY <2>3, <2>4, <2>5, SizesAssumption
<1> QED BY <1>1, Invariance, PTL

-----------------------------------------------------------------------------
(* The whole handler keeps SharedScope's promise to its goroutines: calls that *)
(* decide on loads taken at different moments attach, trip, close and release  *)
(* only as the abstract scope allows.                                          *)

\* A step that leaves the carrier's flags and the ring's alone is none of the scope's.
LEMMA Untouched ==
    ASSUME UNCHANGED <<bound, preTripped, closed, tripped, shut, wins>>
    PROVE  UNCHANGED S!vars
BY DEF S!vars, HasTripped

\* The steps that touch a flag are those of done, of Bind's and MarkTripped's
\* critical sections, and of a flush that wins.
LEMMA FewTouch ==
    ASSUME NEW p \in Proc, Begin(p) \/ Step(p)
    PROVE  \/ UNCHANGED <<bound, preTripped, closed, tripped, shut, wins>>
           \/ Done(p) \/ Shut(p) \/ MarkFirst(p) \/ FlushTrips(p) \/ BindSlow(p)
<1> USE DEF carrierVars, ringVars, Quiet
<1>1. CASE Begin(p)
    BY <1>1 DEF Begin, Handle, BareTrip
<1>2. CASE \/ ContextReleased(p) \/ ContextLive(p) \/ TripContext(p) \/ MarkScope(p)
           \/ MarkSlowClosed(p) \/ MarkSlowBound(p) \/ MarkSlowAgain(p) \/ FlushRefused(p)
    BY <1>2 DEF ContextReleased, ContextLive, TripContext, MarkScope, MarkSlowClosed,
       MarkSlowBound, MarkSlowAgain, FlushRefused
<1>3. CASE \/ Notify(p) \/ ReplayNext(p) \/ ReplayEnds(p)
           \/ AskPre(p) \/ AskScope(p) \/ AskRing(p)
           \/ BindClosed(p) \/ BindScope(p) \/ BindSlowClosed(p)
    BY <1>3 DEF Notify, ReplayNext, ReplayEnds, AskPre, AskScope, AskRing, BindClosed,
       BindScope, BindSlowClosed
<1>4. CASE \/ AppendShut(p) \/ AppendBuffers(p) \/ PassFree(p)
           \/ OfferSpent(p) \/ OfferGranted(p) \/ Emit(p)
    BY <1>4 DEF AppendShut, AppendBuffers, PassFree, OfferSpent, OfferGranted, Emit
<1> QED BY <1>1, <1>2, <1>3, <1>4 DEF Step

\* A trip is the abstract scope's one trip: it had not tripped, neither before
\* its ring nor on it.
LEMMA TripRefines ==
    ASSUME IInv, NEW p \in Proc, MarkFirst(p) \/ FlushTrips(p)
    PROVE  S!Trip
<1>1. /\ ~HasTripped /\ HasTripped' /\ ~shut
      /\ ~closed \/ bound
      /\ UNCHANGED <<bound, closed, shut>>
    <2>1. CASE MarkFirst(p)
        BY <2>1 DEF IInv, Flags, MarkFirst, HasTripped, ringVars
    <2>2. CASE FlushTrips(p)
        BY <2>2 DEF IInv, Flags, Placed, Fits, FlushTrips, Goto, HasTripped, carrierVars
    <2> QED BY <2>1, <2>2
<1>2. HasTripped' = TRUE /\ bound \in BOOLEAN
    BY <1>1 DEF HasTripped, IInv, TypeOK
<1>3. wins' = wins + 1
    BY DEF MarkFirst, FlushTrips
<1>4. ~closed \/ bound # FALSE
    BY <1>1, <1>2
<1> QED BY <1>1, <1>2, <1>3, <1>4 DEF S!Trip

\* Every step of every goroutine is a step of the abstract scope or none.
LEMMA NextRefines == IInv /\ [Next]_vars => [S!Next]_S!vars
<1> SUFFICES ASSUME IInv, [Next]_vars PROVE [S!Next]_S!vars
    OBVIOUS
<1>t. {bound, preTripped, closed, tripped, shut} \subseteq BOOLEAN
    BY DEF IInv, TypeOK
<1>1. CASE UNCHANGED <<bound, preTripped, closed, tripped, shut, wins>>
    BY <1>1, Untouched
<1>2. ASSUME NEW p \in Proc, Done(p) PROVE [S!Next]_S!vars
    <2>1. /\ ~closed /\ closed' = TRUE /\ UNCHANGED <<bound, shut, wins>>
          /\ HasTripped' = HasTripped
        BY <1>2 DEF Done, Quiet, ringVars, HasTripped
    <2>2. S!Close
        BY <2>1 DEF S!Close
    <2> QED BY <2>2 DEF S!Next
<1>3. ASSUME NEW p \in Proc, Shut(p) PROVE [S!Next]_S!vars
    <2>1. closed /\ bound
        BY <1>3 DEF Shut, Goto, IInv, Placed, Fits
    <2>2. shut' = TRUE /\ UNCHANGED <<bound, closed, wins>> /\ HasTripped' = HasTripped
        BY <1>3 DEF Shut, Quiet, carrierVars, HasTripped
    <2>3. CASE shut
        BY <1>t, <2>2, <2>3 DEF S!vars
    <2>4. CASE ~shut
        <3>1. S!Release
            BY <1>t, <2>1, <2>2, <2>4 DEF S!Release
        <3> QED BY <3>1 DEF S!Next
    <2> QED BY <2>3, <2>4
<1>4. ASSUME NEW p \in Proc, MarkFirst(p) \/ FlushTrips(p) PROVE [S!Next]_S!vars
    BY <1>4, TripRefines DEF S!Next
<1>5. ASSUME NEW p \in Proc, BindSlow(p) PROVE [S!Next]_S!vars
    <2>1. ~closed /\ bound' = TRUE /\ UNCHANGED <<closed, shut, wins>>
        BY <1>5 DEF BindSlow, Quiet
    <2>2. HasTripped' = HasTripped
        BY <1>t, <1>5 DEF BindSlow, HasTripped
    <2>3. CASE bound
        BY <1>t, <2>1, <2>2, <2>3 DEF S!vars
    <2>4. CASE ~bound
        <3>1. S!Attach
            BY <1>t, <2>1, <2>2, <2>4 DEF S!Attach
        <3> QED BY <3>1 DEF S!Next
    <2> QED BY <2>3, <2>4
<1>6. CASE UNCHANGED vars
    BY <1>1, <1>6 DEF vars, carrierVars, ringVars
<1> QED BY <1>1, <1>2, <1>3, <1>4, <1>5, <1>6, FewTouch DEF Next

\* Handle, Trip and done change an operation's scope only as SharedScope allows,
\* for any number of goroutines (handler.go:189-276, scope.go:157-216).
THEOREM HandlerKeepsSharedScope == Spec => KeepsSharedScope
<1>1. Init => S!Init
    BY DEF Init, S!Init, HasTripped
<1> QED BY <1>1, NextRefines, Invariance, PTL DEF Spec, S!Spec, KeepsSharedScope
=============================================================================
