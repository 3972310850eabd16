--------------------------- MODULE ReleaseProofs ---------------------------
(* Theorems about Release, for any number of versions and of commits. *)
EXTENDS Release, SequenceTheorems, TLAPS

-----------------------------------------------------------------------------
(* The inductive invariant: what a branch is made of, and what each step of a *)
(* run has behind it.                                                         *)

AnyVersion == Version \cup {NoVersion}

\* A release commit adds the heading of its own version.
CommitSet ==
    {c \in [n : Nat, subject : AnyVersion, heading : AnyVersion] :
        c.subject # NoVersion => c.heading = c.subject}

Typed ==
    /\ vcs \in {"git", "jj"}
    /\ made \in Nat
    /\ local \in Seq(CommitSet) /\ local # <<>>
    /\ remote \in Seq(CommitSet) /\ remote # <<>>
    /\ tags \in [Version -> Seq(CommitSet)]
    /\ rtags \in [Version -> Seq(CommitSet)]
    /\ tree.heading \in AnyVersion
    /\ tree \in [pins : BOOLEAN, gate : BOOLEAN, heading : AnyVersion]
    /\ version \in AnyVersion

Chosen == {"gate", "pins", "changelog"}
Committed == {"tag", "branch", "publish"}

\* A version that is chosen is new to the branch; one that is committed heads it;
\* one about to be published is tagged there and the remote has the branch.
Behind ==
    /\ step \in {"none", "checks", "commit"} \cup Chosen \cup Committed
    /\ step \in Chosen => version \in Version /\ version \notin Headings(local)
    /\ step = "commit" => version \in Version /\ tree.heading = version
    /\ step \in Committed => version \in Version /\ Last(local).subject = version
    /\ step = "branch" /\ vcs = "git" => tags[version] = local
    /\ step = "tag" /\ vcs = "jj" => IsPrefix(local, remote)
    /\ step = "publish" => tags[version] = local /\ IsPrefix(local, remote)

IInv == Typed /\ Behind /\ PublishedTagIsReleased /\ StampedOnce

-----------------------------------------------------------------------------
(* Branches. *)

\* A branch contains itself.
LEMMA PrefixSelf ==
    ASSUME NEW S, NEW s \in Seq(S)
    PROVE  IsPrefix(s, s)
BY DEF IsPrefix

\* A branch is an ancestor of another when the other starts with the same commits.
LEMMA PrefixElements ==
    ASSUME NEW S, NEW s \in Seq(S), NEW t \in Seq(S)
    PROVE  IsPrefix(s, t) <=> Len(s) <= Len(t) /\ \A i \in 1 .. Len(s) : s[i] = t[i]
<1>1. Len(s) \in Nat /\ Len(t) \in Nat /\ \A i \in 1 .. Len(s) : s[i] \in S
    BY LenProperties, ElementOfSeq
<1>2. \A i \in 1 .. Len(t) : t[i] \in S
    BY ElementOfSeq
<1>3. CASE Len(s) <= Len(t)
    <2>1. /\ SubSeq(s, 1, Len(s)) \in Seq(S) /\ Len(SubSeq(s, 1, Len(s))) = Len(s)
          /\ \A i \in 1 .. Len(s) : SubSeq(s, 1, Len(s))[i] = s[i]
        BY <1>1, SubSeqProperties
    <2>2. /\ SubSeq(t, 1, Len(s)) \in Seq(S) /\ Len(SubSeq(t, 1, Len(s))) = Len(s)
          /\ \A i \in 1 .. Len(s) : SubSeq(t, 1, Len(s))[i] = t[i]
        BY <1>1, <1>2, <1>3, SubSeqProperties
    <2>3. SubSeq(s, 1, Len(s)) = SubSeq(t, 1, Len(s))
              <=> \A i \in 1 .. Len(s) : s[i] = t[i]
        <3>1. ASSUME \A i \in 1 .. Len(s) : s[i] = t[i]
              PROVE  SubSeq(s, 1, Len(s)) = SubSeq(t, 1, Len(s))
            <4>1. \A i \in 1 .. Len(s) : SubSeq(s, 1, Len(s))[i] = SubSeq(t, 1, Len(s))[i]
                BY <2>1, <2>2, <3>1
            <4> QED BY <2>1, <2>2, <4>1, SeqEqual
        <3>2. ASSUME SubSeq(s, 1, Len(s)) = SubSeq(t, 1, Len(s)), NEW i \in 1 .. Len(s)
              PROVE  s[i] = t[i]
            BY <2>1, <2>2, <3>2
        <3> QED BY <3>1, <3>2
    <2> QED BY <1>3, <2>3 DEF IsPrefix
<1>4. CASE ~(Len(s) <= Len(t))
    BY <1>4 DEF IsPrefix
<1> QED BY <1>3, <1>4

\* An ancestor's ancestor is an ancestor.
LEMMA PrefixTrans ==
    ASSUME NEW S, NEW s \in Seq(S), NEW t \in Seq(S), NEW u \in Seq(S),
           IsPrefix(s, t), IsPrefix(t, u)
    PROVE  IsPrefix(s, u)
BY PrefixElements, LenProperties

\* A commit more keeps the ancestors.
LEMMA PrefixAppend ==
    ASSUME NEW S, NEW s \in Seq(S), NEW t \in Seq(S), NEW c \in S, IsPrefix(s, t)
    PROVE  IsPrefix(s, Append(t, c))
<1> DEFINE u == Append(t, c)
<1>1. u \in Seq(S) /\ Len(u) = Len(t) + 1 /\ \A i \in 1 .. Len(t) : u[i] = t[i]
    BY AppendProperties
<1>2. Len(t) \in Nat
    BY LenProperties
<1> HIDE DEF u
<1>3. IsPrefix(t, u)
    BY <1>1, <1>2, PrefixElements
<1>4. IsPrefix(s, u)
    BY <1>1, <1>3, PrefixTrans
<1> QED BY <1>4 DEF u

\* The head is the commit made last.
LEMMA LastOfAppend ==
    ASSUME NEW S, NEW s \in Seq(S), NEW c \in S
    PROVE  Last(Append(s, c)) = c
BY AppendProperties DEF Last

\* The head is one of the branch's commits.
LEMMA LastIsCommit ==
    ASSUME NEW s \in Seq(CommitSet), s # <<>>
    PROVE  Last(s) \in CommitSet
BY LenProperties, ElementOfSeq, EmptySeq DEF Last

\* A new commit whose heading the branch has not keeps the branch stamped once.
LEMMA DistinctAppend ==
    ASSUME NEW s \in Seq(CommitSet), NEW c \in CommitSet,
           Distinct(s), c.heading \notin Headings(s)
    PROVE  Distinct(Append(s, c))
<1>1. /\ Append(s, c) \in Seq(CommitSet) /\ Len(Append(s, c)) = Len(s) + 1
      /\ \A i \in 1 .. Len(s) : Append(s, c)[i] = s[i]
      /\ Append(s, c)[Len(s) + 1] = c
    BY AppendProperties
<1>2. Len(s) \in Nat /\ DOMAIN s = 1 .. Len(s) /\ DOMAIN Append(s, c) = 1 .. Len(s) + 1
    BY <1>1, LenProperties
<1>3. \A i \in 1 .. Len(s) : s[i].heading = c.heading => c.heading = NoVersion
    BY <1>2 DEF Headings
<1>4. \A i, j \in 1 .. Len(s) : s[i].heading = s[j].heading /\ i # j => s[i].heading = NoVersion
    BY <1>2 DEF Distinct
<1> SUFFICES ASSUME NEW i \in 1 .. Len(s) + 1, NEW j \in 1 .. Len(s) + 1,
                    Append(s, c)[i].heading = Append(s, c)[j].heading, i # j
             PROVE  Append(s, c)[i].heading = NoVersion
    BY <1>2 DEF Distinct
<1>5. CASE i \in 1 .. Len(s) /\ j \in 1 .. Len(s)
    BY <1>1, <1>4, <1>5
<1>6. CASE i = Len(s) + 1
    <2>1. j \in 1 .. Len(s)
        BY <1>2, <1>6
    <2> QED BY <1>1, <1>3, <1>6, <2>1
<1>7. CASE j = Len(s) + 1
    <2>1. i \in 1 .. Len(s)
        BY <1>2, <1>7
    <2> QED BY <1>1, <1>3, <1>7, <2>1
<1> QED BY <1>2, <1>5, <1>6, <1>7

\* A commit without a heading counts for no version.
LEMMA NoNoVersion ==
    ASSUME NEW s
    PROVE  NoVersion \notin Headings(s)
BY DEF Headings

\* Dropping the head keeps the branch stamped once.
LEMMA DistinctFront ==
    ASSUME NEW s \in Seq(CommitSet), Len(s) > 1, Distinct(s)
    PROVE  /\ Front(s) \in Seq(CommitSet) /\ Front(s) # <<>>
           /\ Distinct(Front(s)) /\ Headings(Front(s)) \subseteq Headings(s)
<1>1. Len(s) \in Nat /\ DOMAIN s = 1 .. Len(s) /\ \A i \in 1 .. Len(s) : s[i] \in CommitSet
    BY LenProperties, ElementOfSeq
<1>2. /\ Front(s) \in Seq(CommitSet) /\ Len(Front(s)) = Len(s) - 1
      /\ \A i \in 1 .. Len(s) - 1 : Front(s)[i] = s[i]
    BY <1>1, SubSeqProperties DEF Front
<1>3. DOMAIN Front(s) = 1 .. Len(s) - 1
    BY <1>2, LenProperties
<1>4. \A i \in 1 .. Len(s) - 1 : i \in 1 .. Len(s)
    BY <1>1
<1>5. Front(s) # <<>>
    BY <1>1, <1>2, EmptySeq
<1>6. Distinct(Front(s))
    BY <1>1, <1>2, <1>3, <1>4 DEF Distinct
<1>7. Headings(Front(s)) \subseteq Headings(s)
    BY <1>1, <1>2, <1>3, <1>4 DEF Headings
<1> QED BY <1>2, <1>5, <1>6, <1>7

\* The end of a branch stamped once is stamped once.
LEMMA DistinctSuffix ==
    ASSUME NEW s \in Seq(CommitSet), NEW k \in 0 .. Len(s), Distinct(s)
    PROVE  /\ SubSeq(s, k + 1, Len(s)) \in Seq(CommitSet)
           /\ Distinct(SubSeq(s, k + 1, Len(s)))
<1>1. /\ Len(s) \in Nat /\ k \in Nat /\ k <= Len(s) /\ DOMAIN s = 1 .. Len(s)
      /\ \A i \in 1 .. Len(s) : s[i] \in CommitSet
    BY LenProperties, ElementOfSeq
<1> DEFINE own == SubSeq(s, k + 1, Len(s))
<1>2. /\ own \in Seq(CommitSet)
      /\ Len(own) = IF k + 1 <= Len(s) THEN Len(s) - (k + 1) + 1 ELSE 0
      /\ \A i \in 1 .. Len(s) - (k + 1) + 1 : own[i] = s[k + 1 + i - 1]
    <2>1. \A i \in k + 1 .. Len(s) : s[i] \in CommitSet
        BY <1>1
    <2>2. k + 1 \in Int /\ Len(s) \in Int
        BY <1>1
    <2> QED BY <2>1, <2>2, SubSeqProperties
<1> HIDE DEF own
<1>3. Len(own) = Len(s) - k
    <2>1. CASE k + 1 <= Len(s)
        <3>1. Len(own) = Len(s) - (k + 1) + 1
            BY <1>2, <2>1
        <3> QED BY <1>1, <3>1
    <2>2. CASE ~(k + 1 <= Len(s))
        <3>1. Len(own) = 0
            BY <1>2, <2>2
        <3>2. \A a, b \in Nat : a <= b /\ ~(a + 1 <= b) => b - a = 0
            OBVIOUS
        <3>3. Len(s) - k = 0
            BY <1>1, <2>2, <3>2
        <3> QED BY <3>1, <3>3
    <2> QED BY <2>1, <2>2
<1>4. DOMAIN own = 1 .. Len(s) - k
    BY <1>2, <1>3, LenProperties
<1>5. ASSUME NEW i \in 1 .. Len(s) - k
      PROVE  own[i] = s[k + i] /\ k + i \in 1 .. Len(s)
    <2>1. i \in 1 .. Len(s) - (k + 1) + 1 /\ k + 1 + i - 1 = k + i /\ k + i \in 1 .. Len(s)
        BY <1>1
    <2>2. own[i] = s[k + 1 + i - 1]
        BY <1>2, <2>1
    <2> QED BY <2>1, <2>2
<1>6. \A i, j \in 1 .. Len(s) - k : i # j => k + i # k + j
    BY <1>1
<1>7. ASSUME NEW i \in 1 .. Len(s) - k, NEW j \in 1 .. Len(s) - k,
             own[i].heading = own[j].heading, i # j
      PROVE  own[i].heading = NoVersion
    <2>1. own[i] = s[k + i] /\ own[j] = s[k + j] /\ k + i \in DOMAIN s /\ k + j \in DOMAIN s
        BY <1>1, <1>5
    <2>2. k + i # k + j
        BY <1>6, <1>7
    <2> QED BY <1>7, <2>1, <2>2 DEF Distinct
<1>8. Distinct(own)
    BY <1>4, <1>7 DEF Distinct
<1> QED BY <1>2, <1>8 DEF own

\* Commits made again keep their headings.
LEMMA DistinctAgain ==
    ASSUME NEW own \in Seq(CommitSet), NEW m \in Nat, Distinct(own),
           NEW again, again = [i \in 1 .. Len(own) |-> [own[i] EXCEPT !.n = m + i]]
    PROVE  again \in Seq(CommitSet) /\ Distinct(again) /\ Headings(again) = Headings(own)
<1>1. Len(own) \in Nat /\ DOMAIN own = 1 .. Len(own)
    BY LenProperties
<1>2. \A i \in 1 .. Len(own) : again[i] \in CommitSet /\ again[i].heading = own[i].heading
    <2> SUFFICES ASSUME NEW i \in 1 .. Len(own)
                 PROVE  again[i] \in CommitSet /\ again[i].heading = own[i].heading
        OBVIOUS
    <2>1. own[i] \in CommitSet
        BY ElementOfSeq
    <2>2. again[i] = [own[i] EXCEPT !.n = m + i]
        OBVIOUS
    <2>3. m + i \in Nat
        BY <1>1
    <2> QED BY <2>1, <2>2, <2>3 DEF CommitSet
<1>3. again \in [1 .. Len(own) -> CommitSet]
    BY <1>2
<1>4. again \in Seq(CommitSet)
    BY <1>1, <1>3, IsASeq
<1>5. DOMAIN again = DOMAIN own
    BY <1>1, <1>3
<1>6. Distinct(again)
    BY <1>1, <1>2, <1>5 DEF Distinct
<1>7. Headings(again) = Headings(own)
    BY <1>1, <1>2, <1>5 DEF Headings
<1> QED BY <1>4, <1>6, <1>7

\* Two branches stamped once without a heading in common make one.
LEMMA DistinctConcat ==
    ASSUME NEW t \in Seq(CommitSet), NEW r \in Seq(CommitSet), t # <<>>,
           Distinct(t), Distinct(r), Headings(r) \cap Headings(t) = {}
    PROVE  t \o r \in Seq(CommitSet) /\ t \o r # <<>> /\ Distinct(t \o r)
<1>1. Len(t) \in Nat /\ Len(r) \in Nat /\ DOMAIN t = 1 .. Len(t) /\ DOMAIN r = 1 .. Len(r)
    BY LenProperties
<1>2. /\ t \o r \in Seq(CommitSet) /\ Len(t \o r) = Len(t) + Len(r)
      /\ \A i \in 1 .. Len(t) + Len(r) :
             (t \o r)[i] = IF i <= Len(t) THEN t[i] ELSE r[i - Len(t)]
    BY ConcatProperties
<1>3. DOMAIN (t \o r) = 1 .. Len(t) + Len(r)
    BY <1>2, LenProperties
<1>4. t \o r # <<>>
    BY ConcatEqualIffEmpty
<1>5. ASSUME NEW i \in 1 .. Len(t) + Len(r), NEW j \in 1 .. Len(t) + Len(r),
             (t \o r)[i].heading = (t \o r)[j].heading, i # j
      PROVE  (t \o r)[i].heading = NoVersion
    <2>1. \A a \in DOMAIN r, b \in DOMAIN t :
              r[a].heading = t[b].heading => t[b].heading = NoVersion
        BY DEF Headings
    <2>2. i \in DOMAIN t \/ (i - Len(t) \in DOMAIN r /\ ~(i <= Len(t)))
        BY <1>1
    <2>3. j \in DOMAIN t \/ (j - Len(t) \in DOMAIN r /\ ~(j <= Len(t)))
        BY <1>1
    <2>4. CASE i \in DOMAIN t /\ j \in DOMAIN t
        <3>1. (t \o r)[i] = t[i] /\ (t \o r)[j] = t[j]
            BY <1>1, <1>2, <2>4
        <3> QED BY <1>5, <2>4, <3>1 DEF Distinct
    <2>5. CASE i \in DOMAIN t /\ j - Len(t) \in DOMAIN r /\ ~(j <= Len(t))
        <3>1. (t \o r)[i] = t[i] /\ (t \o r)[j] = r[j - Len(t)]
            BY <1>1, <1>2, <2>5
        <3> QED BY <1>5, <2>1, <2>5, <3>1
    <2>6. CASE i - Len(t) \in DOMAIN r /\ ~(i <= Len(t)) /\ j \in DOMAIN t
        <3>1. (t \o r)[i] = r[i - Len(t)] /\ (t \o r)[j] = t[j]
            BY <1>1, <1>2, <2>6
        <3> QED BY <1>5, <2>1, <2>6, <3>1
    <2>7. CASE /\ i - Len(t) \in DOMAIN r /\ ~(i <= Len(t))
               /\ j - Len(t) \in DOMAIN r /\ ~(j <= Len(t))
        <3>1. (t \o r)[i] = r[i - Len(t)] /\ (t \o r)[j] = r[j - Len(t)]
            BY <1>1, <1>2, <2>7
        <3>2. i - Len(t) # j - Len(t)
            BY <1>1, <1>5
        <3> QED BY <1>5, <2>7, <3>1, <3>2 DEF Distinct
    <2> QED BY <2>2, <2>3, <2>4, <2>5, <2>6, <2>7
<1> QED BY <1>2, <1>3, <1>4, <1>5 DEF Distinct

-----------------------------------------------------------------------------
(* The invariant is inductive. *)

\* The clone starts with the invariant.
LEMMA InitInvariant == Init => IInv
<1> SUFFICES ASSUME Init PROVE IInv
    OBVIOUS
<1> DEFINE c == [n |-> 1, subject |-> NoVersion, heading |-> NoVersion]
<1>1. c \in CommitSet
    BY DEF CommitSet, AnyVersion
<1> HIDE DEF c
<1>2. local = <<c>> /\ remote = local
    BY DEF Init, c
<1>3. <<c>> \in Seq(CommitSet) /\ <<c>> # <<>> /\ DOMAIN <<c>> = {1}
    BY <1>1
<1>4. <<>> \in Seq(CommitSet)
    OBVIOUS
<1>5. Typed
    BY <1>2, <1>3, <1>4 DEF Init, Typed, Clean, AnyVersion
<1>6. Behind
    BY DEF Init, Behind, Chosen, Committed
<1>7. Tagged(rtags) = {}
    BY DEF Init, Tagged
<1>8. Distinct(local) /\ Distinct(remote)
    BY <1>2, <1>3 DEF Distinct
<1>9. tree.heading \notin Headings(local)
    BY NoNoVersion DEF Init, Clean
<1> QED BY <1>5, <1>6, <1>7, <1>8, <1>9 DEF IInv, PublishedTagIsReleased, StampedOnce

\* The remote's branch only grows, and its tags stay.
LEMMA RemoteStays ==
    ASSUME IInv, remote' \in Seq(CommitSet), IsPrefix(remote, remote'), rtags' = rtags
    PROVE  PublishedTagIsReleased'
<1>1. rtags \in [Version -> Seq(CommitSet)] /\ remote \in Seq(CommitSet)
    BY DEF IInv, Typed
<1>2. \A v \in Tagged(rtags) : v \in Version /\ rtags[v] \in Seq(CommitSet)
    BY <1>1 DEF Tagged
<1>3. \A v \in Tagged(rtags) : IsPrefix(rtags[v], remote')
    BY <1>1, <1>2, PrefixTrans DEF IInv, PublishedTagIsReleased
<1> QED BY <1>3 DEF IInv, PublishedTagIsReleased

\* A step that leaves the branches and the remote's tags alone.
LEMMA BranchesStay ==
    ASSUME IInv, UNCHANGED <<local, remote, rtags>>, tree'.heading \notin Headings(local)
    PROVE  PublishedTagIsReleased' /\ StampedOnce'
BY DEF IInv, PublishedTagIsReleased, StampedOnce

\* Tags fetched are tags of the same versions.
LEMMA FetchedTags ==
    ASSUME IInv, FetchTags
    PROVE  tags' \in [Version -> Seq(CommitSet)]
BY DEF IInv, Typed, FetchTags

\* No step of the run, of the developer or of others leaves the invariant.
LEMMA StepInvariant == IInv /\ [Next]_vars => IInv'
<1> SUFFICES ASSUME IInv, [Next]_vars PROVE IInv'
    OBVIOUS
<1> USE DEF IInv
<1>typed. Typed /\ Behind /\ PublishedTagIsReleased /\ StampedOnce
    OBVIOUS
<1>1. CASE Fetch
    <2>1. Typed'
        BY <1>1, FetchedTags DEF Fetch, At, Dies, Continue, Typed, remoteVars, AnyVersion
    <2>2. Behind'
        BY <1>1 DEF Fetch, At, Dies, Continue, Behind, Chosen, Committed
    <2>3. PublishedTagIsReleased' /\ StampedOnce'
        BY <1>1, BranchesStay DEF Fetch, remoteVars, StampedOnce
    <2> QED BY <2>1, <2>2, <2>3
<1>2. CASE ChooseVersion
    <2>1. PICK v \in Version \ (Tagged(tags) \cup Headings(local)) : version' = v
        BY <1>2 DEF ChooseVersion
    <2>2. step' = "gate" /\ UNCHANGED <<vcs, local, tags, remote, rtags, tree, made>>
        BY <1>2 DEF ChooseVersion, At, cloneVars, remoteVars
    <2>3. Typed'
        BY <2>1, <2>2 DEF Typed, AnyVersion
    <2>4. Behind'
        BY <2>1, <2>2 DEF Behind, Chosen, Committed
    <2>5. PublishedTagIsReleased' /\ StampedOnce'
        BY <2>2, BranchesStay DEF StampedOnce
    <2> QED BY <2>3, <2>4, <2>5
<1>3. CASE Gate
    <2>1. UNCHANGED <<vcs, local, tags, remote, rtags, made>>
        BY <1>3 DEF Gate, At, cloneVars, remoteVars
    <2>2. /\ tree' \in [pins : BOOLEAN, gate : BOOLEAN, heading : AnyVersion]
          /\ tree'.heading = tree.heading
        BY <1>3 DEF Gate, Typed
    <2>3. Typed'
        BY <1>3, <2>1, <2>2 DEF Gate, Dies, Continue, Typed, AnyVersion
    <2>4. Behind'
        BY <1>3, <2>1 DEF Gate, At, Dies, Continue, Behind, Chosen, Committed
    <2>5. PublishedTagIsReleased' /\ StampedOnce'
        BY <2>1, <2>2, BranchesStay DEF StampedOnce
    <2> QED BY <2>3, <2>4, <2>5
<1>4. CASE StampPins
    <2>1. UNCHANGED <<vcs, local, tags, remote, rtags, made, version>> /\ step' = "changelog"
        BY <1>4 DEF StampPins, At, Continue, cloneVars, remoteVars
    <2>2. /\ tree' \in [pins : BOOLEAN, gate : BOOLEAN, heading : AnyVersion]
          /\ tree'.heading = tree.heading
        BY <1>4 DEF StampPins, Typed
    <2>3. Typed'
        BY <2>1, <2>2 DEF Typed
    <2>4. Behind'
        BY <1>4, <2>1 DEF StampPins, At, Behind, Chosen, Committed
    <2>5. PublishedTagIsReleased' /\ StampedOnce'
        BY <2>1, <2>2, BranchesStay DEF StampedOnce
    <2> QED BY <2>3, <2>4, <2>5
<1>5. CASE StampChangelog
    <2>1. UNCHANGED <<vcs, local, tags, remote, rtags, made, version>> /\ step' = "commit"
        BY <1>5 DEF StampChangelog, At, Continue, cloneVars, remoteVars
    <2>2. version \in Version /\ version \notin Headings(local)
        BY <1>5 DEF StampChangelog, At, Behind, Chosen
    <2>3. /\ tree' \in [pins : BOOLEAN, gate : BOOLEAN, heading : AnyVersion]
          /\ tree'.heading = version
        BY <1>5 DEF StampChangelog, Typed
    <2>4. Typed'
        BY <2>1, <2>3 DEF Typed
    <2>5. Behind'
        BY <2>1, <2>2, <2>3 DEF Behind, Chosen, Committed
    <2>6. PublishedTagIsReleased' /\ StampedOnce'
        BY <2>1, <2>2, <2>3, BranchesStay DEF StampedOnce
    <2> QED BY <2>4, <2>5, <2>6
<1>6. CASE CommitRelease
    <2> DEFINE c == Commit(version, tree.heading)
    <2>1. /\ UNCHANGED <<vcs, tags, remote, rtags, version>> /\ tree' = Clean
          /\ local' = Append(local, c) /\ made' = made + 1
          /\ step' = IF vcs = "git" THEN "tag" ELSE "branch"
        BY <1>6 DEF CommitRelease, At, Continue, MakesCommit, remoteVars
    <2>2. version \in Version /\ tree.heading = version
        BY <1>6 DEF CommitRelease, At, Behind
    <2>3. /\ c \in CommitSet /\ c.subject = version /\ c.heading = tree.heading
          /\ made' \in Nat
        BY <2>1, <2>2 DEF Typed, Commit, CommitSet, AnyVersion
    <2> HIDE DEF c
    <2>4. local' \in Seq(CommitSet) /\ local' # <<>> /\ Last(local') = c
        BY <2>1, <2>3, AppendProperties, LastOfAppend DEF Typed
    <2>5. Clean \in [pins : BOOLEAN, gate : BOOLEAN, heading : AnyVersion]
          /\ Clean.heading = NoVersion
        BY DEF Clean, AnyVersion
    <2>6. Typed'
        BY <2>1, <2>3, <2>4, <2>5 DEF Typed
    <2>7. Behind'
        BY <2>1, <2>2, <2>3, <2>4 DEF Behind, Chosen, Committed, Typed
    <2>8. Distinct(local')
        BY <2>1, <2>3, DistinctAppend DEF Typed, StampedOnce
    <2>9. StampedOnce'
        BY <2>1, <2>5, <2>8, NoNoVersion DEF StampedOnce
    <2>10. PublishedTagIsReleased'
        BY <2>1 DEF PublishedTagIsReleased
    <2> QED BY <2>6, <2>7, <2>9, <2>10
<1>7. CASE Tag
    <2>1. /\ UNCHANGED <<vcs, local, remote, rtags, tree, made, version>> /\ step = "tag"
          /\ tags' = [tags EXCEPT ![version] = local]
          /\ step' = IF vcs = "git" THEN "branch" ELSE "publish"
        BY <1>7 DEF Tag, At, Continue, remoteVars
    <2>2. version \in Version /\ Last(local).subject = version
        BY <2>1 DEF Behind, Committed
    <2>3. tags'[version] = local /\ tags' \in [Version -> Seq(CommitSet)]
        BY <2>1, <2>2 DEF Typed
    <2>4. Typed'
        BY <2>1, <2>3 DEF Typed
    <2>5. Behind'
        BY <2>1, <2>2, <2>3 DEF Behind, Chosen, Committed, Typed
    <2>6. PublishedTagIsReleased' /\ StampedOnce'
        BY <2>1, BranchesStay DEF StampedOnce
    <2> QED BY <2>4, <2>5, <2>6
<1>8. CASE PushBranch
    <2>1. UNCHANGED <<vcs, local, tags, rtags, tree, made>> /\ step = "branch"
        BY <1>8 DEF PushBranch, At, cloneVars
    <2>2. version \in Version /\ Last(local).subject = version
        BY <2>1 DEF Behind, Committed
    <2>3. CASE ~IsPrefix(remote, local)
        <3>1. UNCHANGED remote /\ Dies
            BY <1>8, <2>3 DEF PushBranch
        <3>2. Typed'
            BY <2>1, <3>1 DEF Typed, Dies, AnyVersion
        <3>3. Behind'
            BY <2>1, <3>1 DEF Behind, Dies, Chosen, Committed
        <3>4. PublishedTagIsReleased' /\ StampedOnce'
            BY <2>1, <3>1, BranchesStay DEF StampedOnce
        <3> QED BY <3>2, <3>3, <3>4
    <2>4. CASE IsPrefix(remote, local)
        <3>1. /\ remote' = local /\ UNCHANGED version
              /\ step' = IF vcs = "git" THEN "publish" ELSE "tag"
            BY <1>8, <2>4 DEF PushBranch, Continue
        <3>2. IsPrefix(local, local)
            BY PrefixSelf DEF Typed
        <3>3. Typed'
            BY <2>1, <3>1 DEF Typed
        <3>4. Behind'
            BY <2>1, <2>2, <3>1, <3>2 DEF Behind, Chosen, Committed, Typed
        <3>5. PublishedTagIsReleased'
            BY <2>1, <2>4, <3>1, RemoteStays DEF Typed
        <3>6. StampedOnce'
            BY <2>1, <3>1 DEF StampedOnce
        <3> QED BY <3>3, <3>4, <3>5, <3>6
    <2> QED BY <2>3, <2>4
<1>9. CASE PushTag
    <2>1. /\ UNCHANGED <<vcs, local, tags, remote, tree, made>> /\ step = "publish" /\ Dies
          /\ rtags' = [rtags EXCEPT ![version] = IF @ = <<>> THEN tags[version] ELSE @]
        BY <1>9 DEF PushTag, At, cloneVars
    <2>2. /\ version \in Version /\ Last(local).subject = version
          /\ tags[version] = local /\ IsPrefix(local, remote)
        BY <2>1 DEF Behind, Committed
    <2>3. Last(local).heading = version
        BY <2>2, LastIsCommit, SMTT(30) DEF Typed, CommitSet, Version, NoVersion
    <2>4. /\ rtags' \in [Version -> Seq(CommitSet)]
          /\ \A v \in Version : rtags'[v] = rtags[v] \/ (v = version /\ rtags'[v] = local)
        BY <2>1, <2>2 DEF Typed
    <2>5. Typed'
        BY <2>1, <2>4 DEF Typed, Dies, AnyVersion
    <2>6. Behind'
        BY <2>1 DEF Behind, Dies, Chosen, Committed
    <2>7. PublishedTagIsReleased'
        BY <2>1, <2>2, <2>3, <2>4 DEF PublishedTagIsReleased, Tagged
    <2>8. StampedOnce'
        BY <2>1 DEF StampedOnce
    <2> QED BY <2>5, <2>6, <2>7, <2>8
<1>10. CASE Crash
    <2>1. UNCHANGED <<vcs, local, tags, remote, rtags, tree, made>> /\ Dies
        BY <1>10 DEF Crash, cloneVars, remoteVars
    <2>2. Typed'
        BY <2>1 DEF Typed, Dies, AnyVersion
    <2>3. Behind'
        BY <2>1 DEF Behind, Dies, Chosen, Committed
    <2>4. PublishedTagIsReleased' /\ StampedOnce'
        BY <2>1, BranchesStay DEF StampedOnce
    <2> QED BY <2>2, <2>3, <2>4
<1>11. CASE OthersPush
    <2>1. UNCHANGED <<vcs, local, tags, tree, step, version>> /\ made' = made + 1
        BY <1>11 DEF OthersPush, MakesCommit, cloneVars, runVars
    <2>2. /\ made \in Nat /\ made' \in Nat /\ remote \in Seq(CommitSet) /\ remote # <<>>
          /\ local \in Seq(CommitSet) /\ Distinct(remote)
          /\ rtags \in [Version -> Seq(CommitSet)]
        BY <2>1 DEF Typed, StampedOnce
    \* What the commit they push does, whichever it is.
    <2>3. ASSUME NEW c \in CommitSet, remote' = Append(remote, c),
                 c.heading \notin Headings(remote)
          PROVE  /\ remote' \in Seq(CommitSet) /\ remote' # <<>> /\ Distinct(remote')
                 /\ \A s \in Seq(CommitSet) : IsPrefix(s, remote) => IsPrefix(s, remote')
                 /\ Last(remote') = c
        <3>1. Append(remote, c) \in Seq(CommitSet) /\ Append(remote, c) # <<>>
            BY <2>2, AppendProperties
        <3>2. Distinct(Append(remote, c))
            BY <2>2, <2>3, DistinctAppend
        <3>3. \A s \in Seq(CommitSet) : IsPrefix(s, remote) => IsPrefix(s, Append(remote, c))
            BY <2>2, PrefixAppend
        <3>4. Last(Append(remote, c)) = c
            BY <2>2, LastOfAppend
        <3> QED BY <2>3, <3>1, <3>2, <3>3, <3>4
    <2>4. ASSUME remote' \in Seq(CommitSet), remote' # <<>>, Distinct(remote'),
                 \A s \in Seq(CommitSet) : IsPrefix(s, remote) => IsPrefix(s, remote'),
                 rtags' \in [Version -> Seq(CommitSet)]
          PROVE  Typed' /\ Behind' /\ StampedOnce'
        <3>1. Typed'
            BY <2>1, <2>2, <2>4 DEF Typed
        <3>2. IsPrefix(local, remote) => IsPrefix(local, remote')
            BY <2>2, <2>4
        <3>3. Behind'
            BY <2>1, <3>2 DEF Behind, Chosen, Committed
        <3>4. StampedOnce'
            BY <2>1, <2>4 DEF StampedOnce
        <3> QED BY <3>1, <3>3, <3>4
    <2>5. CASE remote' = Append(remote, Commit(NoVersion, NoVersion)) /\ UNCHANGED rtags
        <3> DEFINE c == Commit(NoVersion, NoVersion)
        <3>1. c \in CommitSet /\ c.heading = NoVersion
            BY <2>2 DEF Commit, CommitSet, AnyVersion
        <3> HIDE DEF c
        <3>2. remote' = Append(remote, c)
            BY <2>5 DEF c
        <3>3. /\ remote' \in Seq(CommitSet) /\ remote' # <<>> /\ Distinct(remote')
              /\ \A s \in Seq(CommitSet) : IsPrefix(s, remote) => IsPrefix(s, remote')
            BY <2>3, <3>1, <3>2, NoNoVersion
        <3>4. IsPrefix(remote, remote')
            BY <2>2, <3>3, PrefixSelf
        <3>5. PublishedTagIsReleased'
            BY <2>5, <3>3, <3>4, RemoteStays
        <3> QED BY <2>2, <2>4, <2>5, <3>3, <3>5
    <2>6. CASE \E v \in Version \ (Tagged(rtags) \cup Headings(remote)) :
                  /\ remote' = Append(remote, Commit(v, v))
                  /\ rtags' = [rtags EXCEPT ![v] = remote']
        <3>1. PICK v \in Version \ (Tagged(rtags) \cup Headings(remote)) :
                  /\ remote' = Append(remote, Commit(v, v))
                  /\ rtags' = [rtags EXCEPT ![v] = remote']
            BY <2>6
        <3> DEFINE c == Commit(v, v)
        <3>2. c \in CommitSet /\ c.heading = v /\ c.subject = v
            BY <2>2 DEF Commit, CommitSet, AnyVersion
        <3> HIDE DEF c
        <3>3. remote' = Append(remote, c)
            BY <3>1 DEF c
        <3>4. /\ remote' \in Seq(CommitSet) /\ remote' # <<>> /\ Distinct(remote')
              /\ \A s \in Seq(CommitSet) : IsPrefix(s, remote) => IsPrefix(s, remote')
              /\ Last(remote') = c
            BY <2>3, <3>2, <3>3
        <3>5. /\ rtags' \in [Version -> Seq(CommitSet)]
              /\ rtags'[v] = remote'
              /\ \A w \in Version : w # v => rtags'[w] = rtags[w]
            BY <2>2, <3>1, <3>4
        <3>6. IsPrefix(remote', remote')
            BY <3>4, PrefixSelf
        <3>7. PublishedTagIsReleased'
            <4> SUFFICES ASSUME NEW w \in Tagged(rtags')
                         PROVE  /\ IsPrefix(rtags'[w], remote')
                                /\ Last(rtags'[w]).subject = w
                                /\ Last(rtags'[w]).heading = w
                BY DEF PublishedTagIsReleased
            <4>1. w \in Version
                BY DEF Tagged
            <4>2. CASE w = v
                BY <3>2, <3>4, <3>5, <3>6, <4>2
            <4>3. CASE w # v
                <5>1. rtags'[w] = rtags[w] /\ w \in Tagged(rtags) /\ rtags[w] \in Seq(CommitSet)
                    BY <2>2, <3>5, <4>1, <4>3 DEF Tagged
                <5> QED BY <3>4, <5>1 DEF PublishedTagIsReleased
            <4> QED BY <4>2, <4>3
        <3> QED BY <2>4, <3>4, <3>5, <3>7
    <2> QED BY <1>11, <2>5, <2>6 DEF OthersPush
<1>12. CASE Work
    <2> DEFINE c == Commit(NoVersion, tree.heading)
    <2>1. /\ UNCHANGED <<vcs, tags, remote, rtags, step, version>> /\ step = "none"
          /\ tree' = Clean /\ local' = Append(local, c) /\ made' = made + 1
        BY <1>12 DEF Work, At, MakesCommit, remoteVars, runVars
    <2>2. c \in CommitSet /\ c.heading = tree.heading /\ made' \in Nat
        BY <2>1 DEF Typed, Commit, CommitSet, AnyVersion
    <2> HIDE DEF c
    <2>3. local' \in Seq(CommitSet) /\ local' # <<>>
        BY <2>1, <2>2, AppendProperties DEF Typed
    <2>4. Clean \in [pins : BOOLEAN, gate : BOOLEAN, heading : AnyVersion]
          /\ Clean.heading = NoVersion
        BY DEF Clean, AnyVersion
    <2>5. Typed'
        BY <2>1, <2>2, <2>3, <2>4 DEF Typed
    <2>6. Behind'
        BY <2>1 DEF Behind, Chosen, Committed
    <2>7. Distinct(local')
        BY <2>1, <2>2, DistinctAppend DEF Typed, StampedOnce
    <2>8. StampedOnce'
        BY <2>1, <2>4, <2>7, NoNoVersion DEF StampedOnce
    <2>9. PublishedTagIsReleased'
        BY <2>1 DEF PublishedTagIsReleased
    <2> QED BY <2>5, <2>6, <2>8, <2>9
<1>13. CASE Discard
    <2>1. UNCHANGED <<vcs, local, tags, remote, rtags, made, step, version>> /\ tree' = Clean
        BY <1>13 DEF Discard, At, cloneVars, remoteVars, runVars
    <2>2. Clean \in [pins : BOOLEAN, gate : BOOLEAN, heading : AnyVersion]
          /\ Clean.heading = NoVersion
        BY DEF Clean, AnyVersion
    <2>3. Typed'
        BY <2>1, <2>2 DEF Typed
    <2>4. Behind'
        BY <1>13, <2>1 DEF Discard, At, Behind, Chosen, Committed
    <2>5. PublishedTagIsReleased' /\ StampedOnce'
        BY <2>1, <2>2, NoNoVersion, BranchesStay
    <2> QED BY <2>3, <2>4, <2>5
<1>14. CASE DropCommit
    <2>1. /\ UNCHANGED <<vcs, tags, remote, rtags, tree, made, step, version>>
          /\ step = "none" /\ Len(local) > 1 /\ local' = Front(local)
        BY <1>14 DEF DropCommit, At, remoteVars, runVars
    <2>2. /\ local' \in Seq(CommitSet) /\ local' # <<>>
          /\ Distinct(local') /\ Headings(local') \subseteq Headings(local)
        BY <2>1, DistinctFront DEF Typed, StampedOnce
    <2>3. Typed'
        BY <2>1, <2>2 DEF Typed
    <2>4. Behind'
        BY <2>1 DEF Behind, Chosen, Committed
    <2>5. PublishedTagIsReleased'
        BY <2>1 DEF PublishedTagIsReleased
    <2>6. StampedOnce'
        BY <2>1, <2>2 DEF StampedOnce
    <2> QED BY <2>3, <2>4, <2>5, <2>6
<1>15. CASE FinishByHand
    <2> DEFINE v == Last(local).subject
    <2>1. /\ UNCHANGED <<vcs, local, tags, remote, rtags, tree, made>>
          /\ v # NoVersion /\ version' = v /\ tags[v] \in {<<>>, local}
          /\ step' = IF tags[v] # local /\ (IsPrefix(local, remote) \/ vcs = "git") THEN "tag"
                     ELSE IF IsPrefix(local, remote) THEN "publish" ELSE "branch"
        BY <1>15 DEF FinishByHand, At, cloneVars, remoteVars
    <2>2. v \in Version
        BY <2>1, LastIsCommit DEF Typed, CommitSet, AnyVersion
    <2>3. Typed'
        BY <2>1, <2>2 DEF Typed, AnyVersion
    <2>4. Behind'
        <3> HIDE DEF v
        <3>1. v = Last(local).subject
            BY DEF v
        <3> QED BY <2>1, <2>2, <3>1 DEF Behind, Chosen, Committed, Typed
    <2>5. PublishedTagIsReleased' /\ StampedOnce'
        BY <2>1, BranchesStay DEF StampedOnce
    <2> QED BY <2>3, <2>4, <2>5
<1>16. CASE Rebase
    <2>1. PICK fork \in 0 .. Len(local) :
              LET own == SubSeq(local, fork + 1, Len(local)) IN
              /\ made' = made + Len(own)
              /\ local' = IF Headings(own) \cap Headings(remote) # {} THEN remote
                    ELSE remote \o [i \in 1 .. Len(own) |-> [own[i] EXCEPT !.n = made + i]]
        BY <1>16 DEF Rebase
    <2>2. /\ UNCHANGED <<vcs, remote, rtags, tree, step, version>> /\ FetchTags
          /\ step = "none" /\ tree = Clean
        BY <1>16 DEF Rebase, At, remoteVars, runVars
    <2> DEFINE own == SubSeq(local, fork + 1, Len(local))
               again == [i \in 1 .. Len(own) |-> [own[i] EXCEPT !.n = made + i]]
    <2>3. own \in Seq(CommitSet) /\ Distinct(own)
        BY DistinctSuffix DEF Typed, StampedOnce
    <2>4. /\ made' = made + Len(own)
          /\ local' = IF Headings(own) \cap Headings(remote) # {} THEN remote
                      ELSE remote \o again
        BY <2>1
    <2> HIDE DEF own
    <2>5. again \in Seq(CommitSet) /\ Distinct(again) /\ Headings(again) = Headings(own)
        <3>1. again = [i \in 1 .. Len(own) |-> [own[i] EXCEPT !.n = made + i]]
            OBVIOUS
        <3>2. made \in Nat
            BY DEF Typed
        <3> HIDE DEF again
        <3> QED BY <2>3, <3>1, <3>2, DistinctAgain
    <2> HIDE DEF again
    <2>6. /\ remote \in Seq(CommitSet) /\ remote # <<>> /\ Distinct(remote)
        BY DEF Typed, StampedOnce
    <2>7. local' \in Seq(CommitSet) /\ local' # <<>> /\ Distinct(local')
        <3>1. CASE Headings(own) \cap Headings(remote) # {}
            BY <2>4, <2>6, <3>1
        <3>2. CASE Headings(own) \cap Headings(remote) = {}
            <4>1. local' = remote \o again
                BY <2>4, <3>2
            <4>2. Headings(again) \cap Headings(remote) = {}
                BY <2>5, <3>2
            <4> QED BY <2>5, <2>6, <4>1, <4>2, DistinctConcat
        <3> QED BY <3>1, <3>2
    <2>8. made' \in Nat
        BY <2>3, <2>4, LenProperties DEF Typed
    <2>9. Typed'
        BY <2>2, <2>7, <2>8, FetchedTags DEF Typed
    <2>10. Behind'
        BY <2>2 DEF Behind, Chosen, Committed
    <2>11. PublishedTagIsReleased'
        BY <2>2 DEF PublishedTagIsReleased
    <2>12. StampedOnce'
        BY <2>2, <2>6, <2>7, NoNoVersion DEF StampedOnce, Clean
    <2> QED BY <2>9, <2>10, <2>11, <2>12
<1>17. CASE UNCHANGED vars
    <2>1. UNCHANGED <<vcs, local, tags, remote, rtags, tree, step, version, made>>
        BY <1>17 DEF vars, cloneVars, remoteVars, runVars
    <2>2. Typed'
        BY <2>1 DEF Typed
    <2>3. Behind'
        BY <2>1 DEF Behind
    <2>4. PublishedTagIsReleased' /\ StampedOnce'
        BY <2>1, BranchesStay DEF StampedOnce
    <2> QED BY <2>2, <2>3, <2>4
<1> QED BY <1>1, <1>2, <1>3, <1>4, <1>5, <1>6, <1>7, <1>8, <1>9, <1>10, <1>11, <1>12,
           <1>13, <1>14, <1>15, <1>16, <1>17 DEF Next, Run

\* The invariant holds in every reachable state.
LEMMA Invariant == Spec => []IInv
BY InitInvariant, StepInvariant, PTL DEF Spec

-----------------------------------------------------------------------------
\* The release build starts from a tag the remote has, and every one names the release
\* commit of its version, on the remote's branch and with its changelog heading,
\* wherever a run was cut and whatever others pushed meanwhile.
THEOREM PublishedTagsAreReleases == Spec => []PublishedTagIsReleased
<1>1. IInv => PublishedTagIsReleased
    BY DEF IInv
<1> QED BY <1>1, Invariant, PTL

\* A run that starts again over what another left never adds a changelog heading its
\* branch already carries, and no branch ever has the heading of a version twice.
THEOREM StampedOnlyOnce == Spec => []StampedOnce
<1>1. IInv => StampedOnce
    BY DEF IInv
<1> QED BY <1>1, Invariant, PTL
=============================================================================
