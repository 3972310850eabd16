------------------------------ MODULE Release ------------------------------
(* scripts/release.sh in one clone: the run's steps, a crash between any two  *)
(* of them, what a developer does between two runs, and a remote that others  *)
(* commit to and release from.                                                *)
(*                                                                            *)
(* A branch is the sequence of its commits, so a prefix is an ancestor and a  *)
(* tag is the branch up to the commit it names.  A version is a number: the   *)
(* script proposes one, and its caller may choose any other.  Of a commit the *)
(* model keeps the version in its subject, if it is a release commit, and the *)
(* version whose changelog heading it adds.                                   *)
EXTENDS Integers, Sequences, SequencesExt, FiniteSets, FiniteSetsExt

CONSTANTS MaxVersion,  \* bound: versions that may be chosen
          MaxCommits   \* bound: commits made in one behaviour

ASSUME BoundsAssumption == MaxVersion \in Nat \ {0} /\ MaxCommits \in Nat

Version == 1 .. MaxVersion
NoVersion == 0
Clean == [pins |-> FALSE, gate |-> FALSE, heading |-> NoVersion]

VARIABLES
    vcs,              \* "git" or "jj", for good
    local, tags,      \* the clone's branch, and its tags: a branch or <<>>
    remote, rtags,    \* the same on the remote
    tree,             \* what the working tree has that the head has not
    step, version,    \* the run: its next step, the version it chose
    made              \* bound: commits made, which number them

cloneVars == <<local, tags>>
remoteVars == <<remote, rtags>>
runVars == <<step, version>>
vars == <<vcs, cloneVars, remoteVars, tree, runVars, made>>

Commit(subject, heading) == [n |-> made + 1, subject |-> subject, heading |-> heading]
MakesCommit == made < MaxCommits /\ made' = made + 1

Headings(branch) == {branch[i].heading : i \in DOMAIN branch} \ {NoVersion}
Tagged(t) == {v \in Version : t[v] # <<>>}

Init ==
    /\ vcs \in {"git", "jj"}
    /\ local = <<[n |-> 1, subject |-> NoVersion, heading |-> NoVersion]>>
    /\ remote = local /\ made = 1
    /\ tags = [v \in Version |-> <<>>] /\ rtags = tags
    /\ tree = Clean
    /\ step = "none" /\ version = NoVersion

-----------------------------------------------------------------------------
(* The run.  It goes on to the next step or, by set -e or die, ends; what it  *)
(* did stays.                                                                 *)

At(s) == step = s /\ UNCHANGED vcs
Continue(s) == step' = s /\ UNCHANGED version
Dies == step' = "none" /\ version' = NoVersion

\* A fetch brings the remote's branch, and of its tags those the clone has not.
FetchTags == tags' = [v \in Version |-> IF tags[v] = <<>> THEN rtags[v] ELSE tags[v]]
Diverged == ~IsPrefix(remote, local)

Fetch ==
    /\ At("none")
    /\ tree = Clean
    /\ FetchTags
    /\ IF Diverged THEN Dies ELSE Continue("checks")
    /\ UNCHANGED <<local, remoteVars, tree, made>>

HalfFinished ==
    LET v == Last(local).subject IN v # NoVersion /\ tags[v] = <<>>
\* The branch has commits that the newest version's tag has not.
Unreleased == Tagged(tags) # {} => ~IsPrefix(local, tags[Max(Tagged(tags))])

ChooseRestamps ==
    /\ At("checks")
    /\ ~HalfFinished /\ Unreleased
    /\ \E v \in Version \ Tagged(tags) : version' = v
    /\ step' = "gate"
    /\ UNCHANGED <<cloneVars, remoteVars, tree, made>>
\* The version is not tagged, and the changelog does not carry it.
ChooseVersion ==
    /\ At("checks")
    /\ ~HalfFinished /\ Unreleased
    /\ \E v \in Version \ (Tagged(tags) \cup Headings(local)) : version' = v
    /\ step' = "gate"
    /\ UNCHANGED <<cloneVars, remoteVars, tree, made>>

Gate ==
    /\ At("gate")
    /\ \/ Continue("pins") /\ UNCHANGED tree
       \/ Dies /\ tree' \in {tree, [tree EXCEPT !.gate = TRUE]}
    /\ UNCHANGED <<cloneVars, remoteVars, made>>

\* Without an earlier version there is no pin to rewrite.
StampPins ==
    /\ At("pins") /\ Continue("changelog")
    /\ tree' = [tree EXCEPT !.pins = Tagged(tags) # {}]
    /\ UNCHANGED <<cloneVars, remoteVars, made>>

StampChangelog ==
    /\ At("changelog") /\ Continue("commit")
    /\ tree' = [tree EXCEPT !.heading = version]
    /\ UNCHANGED <<cloneVars, remoteVars, made>>

CommitRelease ==
    /\ At("commit") /\ MakesCommit
    /\ Continue(IF vcs = "git" THEN "tag" ELSE "branch")
    /\ local' = Append(local, Commit(version, tree.heading))
    /\ tree' = Clean
    /\ UNCHANGED <<tags, remoteVars>>

Tag ==
    /\ At("tag") /\ Continue(IF vcs = "git" THEN "branch" ELSE "publish")
    /\ tags' = [tags EXCEPT ![version] = local]
    /\ UNCHANGED <<local, remoteVars, tree, made>>

PushBranchUnchecked ==
    /\ At("branch") /\ Continue(IF vcs = "git" THEN "publish" ELSE "tag")
    /\ remote' = IF IsPrefix(remote, local) THEN local ELSE remote
    /\ UNCHANGED <<cloneVars, rtags, tree, made>>
\* The remote refuses a branch that does not contain its own.
PushBranch ==
    /\ At("branch")
    /\ IF IsPrefix(remote, local)
       THEN remote' = local /\ Continue(IF vcs = "git" THEN "publish" ELSE "tag")
       ELSE UNCHANGED remote /\ Dies
    /\ UNCHANGED <<cloneVars, rtags, tree, made>>

\* The last step: a tag the remote has it does not replace.
PushTag ==
    /\ At("publish") /\ Dies
    /\ rtags' = [rtags EXCEPT ![version] = IF @ = <<>> THEN tags[version] ELSE @]
    /\ UNCHANGED <<cloneVars, remote, tree, made>>

\* A refusal before the gate, a failed command, an interrupt.
Crash ==
    /\ step # "none" /\ Dies
    /\ UNCHANGED <<vcs, cloneVars, remoteVars, tree, made>>

-----------------------------------------------------------------------------
(* Between two runs. *)

\* New work, with whatever the tree holds.
Work ==
    /\ At("none") /\ MakesCommit
    /\ local' = Append(local, Commit(NoVersion, tree.heading))
    /\ tree' = Clean
    /\ UNCHANGED <<tags, remoteVars, runVars>>

Discard ==
    /\ At("none") /\ tree # Clean
    /\ tree' = Clean
    /\ UNCHANGED <<cloneVars, remoteVars, runVars, made>>

\* The two ways out that the refusal of a half-finished run names.
DropCommit ==
    /\ At("none") /\ tree = Clean
    /\ HalfFinished /\ Len(local) > 1
    /\ local' = Front(local)
    /\ UNCHANGED <<tags, remoteVars, tree, runVars, made>>
FinishByHand ==
    LET v == Last(local).subject
        pushed == IsPrefix(local, remote)
        tagged == tags[v] = local
    IN  /\ At("none") /\ tree = Clean
        /\ v # NoVersion
        /\ tags[v] \in {<<>>, local} /\ rtags[v] = <<>>
        /\ version' = v
        /\ step' = IF ~tagged /\ (pushed \/ vcs = "git") THEN "tag"
                   ELSE IF pushed THEN "publish" ELSE "branch"
        /\ UNCHANGED <<cloneVars, remoteVars, tree, made>>

\* The clone's own commits, made again on the remote's branch.  A heading that is
\* there already is a conflict, and the developer gives their own commits up.
Rebase ==
    \E fork \in 0 .. Len(local) :
        LET own == SubSeq(local, fork + 1, Len(local)) IN
        /\ At("none") /\ tree = Clean
        /\ Diverged /\ made + Len(own) <= MaxCommits
        /\ fork = Len(LongestCommonPrefix({local, remote}))
        /\ made' = made + Len(own)
        /\ local' = IF Headings(own) \cap Headings(remote) # {} THEN remote
                    ELSE remote \o [i \in 1 .. Len(own) |-> [own[i] EXCEPT !.n = made + i]]
        /\ FetchTags
        /\ UNCHANGED <<remoteVars, tree, runVars>>

\* At any moment somebody else pushes work, or releases a version of their own.
OthersPush ==
    /\ MakesCommit
    /\ \/ remote' = Append(remote, Commit(NoVersion, NoVersion)) /\ UNCHANGED rtags
       \/ \E v \in Version \ (Tagged(rtags) \cup Headings(remote)) :
            /\ remote' = Append(remote, Commit(v, v))
            /\ rtags' = [rtags EXCEPT ![v] = remote']
    /\ UNCHANGED <<vcs, cloneVars, tree, runVars>>

-----------------------------------------------------------------------------
Run ==
    \/ Fetch \/ ChooseVersion \/ Gate \/ StampPins \/ StampChangelog
    \/ CommitRelease \/ Tag \/ PushBranch \/ PushTag \/ Crash

Next ==
    \/ Run \/ OthersPush
    \/ Work \/ Discard \/ DropCommit \/ FinishByHand \/ Rebase

Spec == Init /\ [][Next]_vars

-----------------------------------------------------------------------------
(* Properties. *)

\* Pushing the tag is what starts the release build (release.sh:17), so a tag the
\* remote has names a commit of the remote's branch, the release commit of that
\* version, with its changelog heading: whatever crashed, and whoever else moved
\* the remote between the fetch and the push.
PublishedTagIsReleased ==
    \A v \in Tagged(rtags) :
        /\ IsPrefix(rtags[v], remote)
        /\ Last(rtags[v]).subject = v /\ Last(rtags[v]).heading = v

\* "a re-run can never double-stamp" (release.sh:22): no branch carries two commits
\* that add the heading of one version, nor does the tree add one its branch has.
Distinct(branch) ==
    \A i, j \in DOMAIN branch :
        branch[i].heading = branch[j].heading /\ i # j => branch[i].heading = NoVersion
StampedOnce ==
    /\ Distinct(local) /\ Distinct(remote)
    /\ tree.heading \notin Headings(local)

\* "leftovers of an interrupted run ... are refused, so a re-run can never ... stack a
\* second release commit" (release.sh:20-22): a run that is about to make its release
\* commit has none under it whose version was not released.
NeverStacked ==
    step = "commit" =>
        \A i \in DOMAIN local : local[i].subject # NoVersion => rtags[local[i].subject] # <<>>
=============================================================================
