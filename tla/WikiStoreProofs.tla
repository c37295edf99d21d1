-------------------------- MODULE WikiStoreProofs --------------------------
(***************************************************************************)
(* Theorems about the wiki: for any pages and any number of versions, and  *)
(* whichever git commands fail or are cut off, nothing written outside a   *)
(* rebase is lost, and a push that succeeds publishes the tree.            *)
(***************************************************************************)
EXTENDS WikiStore, TLAPS

USE WikiAssumption

Commits == [Pages -> Versions]

TypesOK ==
  /\ tree \in Commits /\ main \in Commits /\ side \in Commits
  /\ base \in Commits /\ remote \in Commits /\ written \in Commits
  /\ rebase \in [on : BOOLEAN, orig : Commits]
  /\ detached \in BOOLEAN
  /\ versions \in 0..MaxVersions

\* The last version written to the page was on the remote, or may be lost.
Safe(p) == written[p] \in pushed \cup exposed

\* The commit holds what was last written to every page that is not safe.
Keeps(commit) == \A p \in Pages : Safe(p) \/ commit[p] = written[p]

\* A commit that others have.
Published(commit) == \A p \in Pages : commit[p] \in pushed

\* HEAD leaves the branch only for a rebase, and nothing is pushed in one.
HeadInv ==
  /\ detached => rebase.on
  /\ pc = "push" => ~rebase.on /\ tree = main

\* What is not safe is in the tree of a branch that is checked out, on the branch that
\* will be checked out again, and in the commit that a rebase would go back to.
KeptInv ==
  /\ ~detached => Keeps(tree)
  /\ detached => Keeps(main)
  /\ rebase.on => Keeps(rebase.orig)
  /\ Published(base) /\ Published(remote)

IInv == TypesOK /\ HeadInv /\ KeptInv

-----------------------------------------------------------------------------

\* The versions that pages have are versions.
LEMMA VersionsTyped ==
  /\ Absent \in Versions /\ Markers \in Versions
  /\ \A n \in 1..MaxVersions, text \in BOOLEAN : [n |-> n, text |-> text] \in Versions
  BY DEF Versions, Absent, Markers

\* A wiki without pages, in line with the remote.
LEMMA InitInv ==
  ASSUME Init
  PROVE  IInv
<1>1. tree \in Commits
  BY VersionsTyped DEF Init, Commits
<1>2. TypesOK
  <2>1. rebase \in [on : BOOLEAN, orig : Commits]
    BY <1>1 DEF Init
  <2>2. versions \in 0..MaxVersions
    BY DEF Init
  <2>3. QED
    BY <1>1, <2>1, <2>2 DEF Init, TypesOK
<1>3. HeadInv /\ KeptInv
  BY DEF Init, HeadInv, KeptInv, Keeps, Published, Safe
<1>4. QED
  BY <1>2, <1>3 DEF IInv

\* While nothing is written, what is safe stays safe, and what is kept stays kept.
LEMMA KeepsStays ==
  ASSUME written' = written, exposed' = exposed, pushed \subseteq pushed',
         NEW commit, Keeps(commit)
  PROVE  Keeps(commit)'
  BY DEF Keeps, Safe

\* The commit that a merge of branch and remote makes keeps what the branch kept: a
\* page that only the remote changed was on the remote.
LEMMA MergedKeeps ==
  ASSUME Keeps(main), Published(base), NEW p \in Pages
  PROVE  Safe(p) \/ Merged(p) = written[p]
  BY DEF Keeps, Published, Safe, Merged

\* write, append_log, update_index and delete: a new version of a page, in the tree.
\* On a detached HEAD a rebase is in progress, and the version is exposed.
LEMMA SavesKeeps ==
  ASSUME IInv, NEW q \in Pages, NEW text \in BOOLEAN, Saves(q, text)
  PROVE  IInv'
<1> DEFINE v == [n |-> versions + 1, text |-> text]
<1>1. versions' \in 0..MaxVersions /\ v \in Versions
  BY VersionsTyped DEF IInv, TypesOK, Saves
<1>2. /\ tree' = [tree EXCEPT ![q] = v] /\ written' = [written EXCEPT ![q] = v]
      /\ exposed' = IF rebase.on THEN exposed \cup {v} ELSE exposed
      /\ pc' = "add"
      /\ UNCHANGED <<main, detached, side, rebase, base, remote, pushed>>
  BY DEF Saves, git, Goes
<1> HIDE DEF v
<1>3. TypesOK'
  <2>1. tree' \in Commits /\ written' \in Commits
    BY <1>1, <1>2 DEF IInv, TypesOK, Commits
  <2>2. QED
    BY <1>1, <1>2, <2>1 DEF IInv, TypesOK
<1>4. /\ \A p \in Pages : tree'[p] = IF p = q THEN v ELSE tree[p]
      /\ \A p \in Pages : written'[p] = IF p = q THEN v ELSE written[p]
  BY <1>2 DEF IInv, TypesOK, Commits
<1>5. \A p \in Pages : p # q /\ Safe(p) => Safe(p)'
  BY <1>2, <1>4 DEF Safe
<1>6. rebase.on => Safe(q)'
  BY <1>2, <1>4 DEF Safe
<1>7. KeptInv'
  <2>1. detached => rebase.on
    BY DEF IInv, HeadInv
  <2>2. ~detached => Keeps(tree)'
    BY <1>4, <1>5 DEF IInv, KeptInv, Keeps
  <2>3. detached => Keeps(main)'
    BY <1>2, <1>4, <1>5, <1>6, <2>1 DEF IInv, KeptInv, Keeps
  <2>4. rebase.on => Keeps(rebase.orig)'
    BY <1>2, <1>4, <1>5, <1>6 DEF IInv, KeptInv, Keeps
  <2>5. QED
    BY <1>2, <2>2, <2>3, <2>4 DEF IInv, KeptInv, Published
<1>8. HeadInv'
  BY <1>2 DEF IInv, HeadInv
<1>9. QED
  BY <1>3, <1>7, <1>8 DEF IInv

\* git add, the commands that fail, and a branch that is checked out: HEAD, the tree
\* and the commits stay as they are.
LEMMA RestKeeps ==
  ASSUME IInv, UNCHANGED <<tree, git, remote, local, pushed>>, pc' # "push"
  PROVE  IInv'
  BY DEF IInv, TypesOK, HeadInv, KeptInv, Keeps, Published, Safe, git, local

\* git commit, wherever HEAD is.
LEMMA CommitKeeps ==
  ASSUME IInv, Commit
  PROVE  IInv'
<1>1. /\ UNCHANGED <<tree, detached, rebase, base, remote, written, exposed, versions, pushed>>
      /\ pc' # "push" /\ (detached => main' = main)
      /\ main' \in {main, tree} /\ side' \in {side, tree}
  BY DEF Commit, Goes, local
<1>2. QED
  BY <1>1 DEF IInv, TypesOK, HeadInv, KeptInv, Keeps, Published, Safe

\* git checkout of the branch: the tree is what the branch kept.
LEMMA ReattachKeeps ==
  ASSUME IInv, Reattach
  PROVE  IInv'
  BY DEF Reattach, Goes, local, IInv, TypesOK, HeadInv, KeptInv, Keeps, Published, Safe

\* git pull --rebase, or a fast-forward.
LEMMA PulledKeeps ==
  ASSUME IInv, Pulled
  PROVE  IInv'
<1>1. ~rebase.on /\ ~detached /\ tree = main /\ Keeps(main)
  BY DEF Pulled, MayRebase, IInv, HeadInv, KeptInv
<1>2. /\ main' = [p \in Pages |-> Merged(p)] /\ tree' = main' /\ base' = remote
      /\ UNCHANGED <<detached, side, rebase, remote, written, exposed, versions, pushed>>
  BY DEF Pulled, local
<1>3. TypesOK'
  <2>1. main' \in Commits
    BY <1>2 DEF IInv, TypesOK, Commits, Merged
  <2>2. QED
    BY <1>2, <2>1 DEF IInv, TypesOK
<1>4. Keeps(tree)'
  BY <1>1, <1>2, MergedKeeps DEF IInv, KeptInv, Keeps, Safe
<1>5. KeptInv' /\ HeadInv'
  BY <1>1, <1>2, <1>4 DEF IInv, KeptInv, HeadInv, Published
<1>6. QED
  BY <1>3, <1>5 DEF IInv

\* A rebase that stops in the middle, by a conflict or cut off.
LEMMA StartsRebaseKeeps ==
  ASSUME IInv, StartsRebase, pc' # "push"
  PROVE  IInv'
<1>1. ~rebase.on /\ ~detached /\ tree = main /\ Keeps(main)
  BY DEF StartsRebase, MayRebase, IInv, HeadInv, KeptInv
<1>2. /\ rebase' = [on |-> TRUE, orig |-> main] /\ detached' = TRUE /\ side' = remote
      /\ tree' = [p \in Pages |-> IF Conflicting(p) THEN Markers ELSE remote[p]]
      /\ UNCHANGED <<main, base, remote, written, exposed, versions, pushed>>
  BY DEF StartsRebase, local
<1>3. TypesOK'
  <2>1. tree' \in Commits
    BY <1>2, VersionsTyped DEF IInv, TypesOK, Commits
  <2>2. QED
    BY <1>2, <2>1 DEF IInv, TypesOK
<1>4. Keeps(main)' /\ rebase'.orig = main
  BY <1>1, <1>2, KeepsStays
<1>5. KeptInv' /\ HeadInv'
  BY <1>2, <1>4 DEF IInv, KeptInv, HeadInv, Published, Keeps, Safe
<1>6. QED
  BY <1>3, <1>5 DEF IInv

\* git rebase --abort goes back to a commit that kept everything.
LEMMA AbortKeeps ==
  ASSUME IInv, Abort
  PROVE  IInv'
<1>1. CASE rebase.on
  <2>1. /\ main' = rebase.orig /\ tree' = rebase.orig /\ detached' = FALSE
        /\ rebase' = [rebase EXCEPT !.on = FALSE] /\ pc' # "push"
        /\ UNCHANGED <<side, base, remote, written, exposed, versions, pushed>>
    BY <1>1 DEF Abort, local, Ends, Goes
  <2>2. rebase'.on = FALSE /\ rebase' \in [on : BOOLEAN, orig : Commits]
    BY <2>1 DEF IInv, TypesOK
  <2>3. TypesOK'
    BY <2>1, <2>2 DEF IInv, TypesOK
  <2>4. KeptInv' /\ HeadInv'
    BY <1>1, <2>1, <2>2 DEF IInv, KeptInv, HeadInv, Keeps, Published, Safe
  <2>5. QED
    BY <2>3, <2>4 DEF IInv
<1>2. CASE ~rebase.on
  BY <1>2, RestKeeps DEF Abort, Ends, Goes
<1>3. QED
  BY <1>1, <1>2

\* git push: branch and remote are one.
LEMMA PushKeeps ==
  ASSUME IInv, Push
  PROVE  IInv'
<1>1. /\ remote' = main /\ base' = main /\ pushed' = pushed \cup {main[p] : p \in Pages}
      /\ UNCHANGED <<tree, main, detached, side, rebase, written, exposed, versions>>
      /\ pc' # "push"
  BY DEF Push, local, Ends, Goes
<1>2. TypesOK' /\ HeadInv'
  BY <1>1 DEF IInv, TypesOK, HeadInv
<1>3. KeptInv'
  BY <1>1 DEF IInv, KeptInv, Keeps, Published, Safe
<1>4. QED
  BY <1>2, <1>3 DEF IInv

\* Another clone pushes a page.
LEMMA OtherPushesKeeps ==
  ASSUME IInv, NEW q \in Pages, OtherPushes(q)
  PROVE  IInv'
<1> DEFINE v == [n |-> versions + 1, text |-> TRUE]
<1>1. versions' \in 0..MaxVersions /\ v \in Versions
  <2>1. versions' \in 0..MaxVersions /\ versions + 1 \in 1..MaxVersions
    BY DEF IInv, TypesOK, OtherPushes
  <2>2. QED
    BY <2>1, VersionsTyped
<1>2. /\ remote' = [remote EXCEPT ![q] = v] /\ pushed' = pushed \cup {v}
      /\ UNCHANGED <<pc, tree, main, detached, side, rebase, base, written, exposed>>
  BY DEF OtherPushes, git
<1> HIDE DEF v
<1>3. TypesOK'
  <2>1. remote' \in Commits
    BY <1>1, <1>2 DEF IInv, TypesOK, Commits
  <2>2. QED
    BY <1>1, <1>2, <2>1 DEF IInv, TypesOK
<1>4. Published(remote)'
  BY <1>2 DEF IInv, TypesOK, Commits, KeptInv, Published
<1>5. KeptInv' /\ HeadInv'
  BY <1>2, <1>4 DEF IInv, KeptInv, HeadInv, Keeps, Published, Safe
<1>6. QED
  BY <1>3, <1>5 DEF IInv

\* Every step keeps the invariant.
LEMMA Step ==
  ASSUME IInv, [Next]_vars
  PROVE  IInv'
<1>1. ASSUME NEW p \in Pages, Write(p) \/ Delete(p) \/ OtherPushes(p)
      PROVE  IInv'
  BY <1>1, SavesKeeps, OtherPushesKeeps DEF Write, Delete
<1>2. CASE Commit
  BY <1>2, CommitKeeps
<1>3. CASE Reattach
  BY <1>3, ReattachKeeps
<1>4. CASE Pulled
  BY <1>4, PulledKeeps
<1>5. CASE PullConflicts \/ PullCutOff
  BY <1>5, StartsRebaseKeeps DEF PullConflicts, PullCutOff, Ends, Goes
<1>6. CASE Abort
  BY <1>6, AbortKeeps
<1>7. CASE Push
  BY <1>7, PushKeeps
<1>8. CASE Add \/ OnBranch \/ PullFails \/ GivesUp
  BY <1>8, RestKeeps DEF Add, OnBranch, PullFails, GivesUp, Ends, Goes
<1>9. CASE UNCHANGED vars
  BY <1>9 DEF vars, git, local, IInv, TypesOK, HeadInv, KeptInv, Keeps, Published, Safe
<1>10. QED
  BY <1>1, <1>2, <1>3, <1>4, <1>5, <1>6, <1>7, <1>8, <1>9 DEF Next

-----------------------------------------------------------------------------

\* The invariant that the theorems follow from.
THEOREM WikiInvariant == Spec => []IInv
<1>1. Init => IInv
  BY InitInv
<1>2. IInv /\ [Next]_vars => IInv'
  BY Step
<1>3. QED
  BY <1>1, <1>2, PTL DEF Spec

\* Whichever git commands fail, conflict or are cut off, what was last written to a
\* page is in the tree, on the branch or was on the remote, unless it was written in the
\* middle of a rebase (_git_commit_push).
THEOREM NothingElseIsLost == Spec => []LostOnlyMidRebase
<1>1. IInv => LostOnlyMidRebase
  BY DEF IInv, TypesOK, KeptInv, Keeps, Safe, LostOnlyMidRebase
<1>2. QED
  BY <1>1, WikiInvariant, PTL

\* A push that succeeds brings the tree to the remote, with everything that earlier
\* commands failed to bring there (_git_commit_push).
THEOREM PushesPublish == Spec => PushPublishes
<1> DEFINE Publishes ==
      pc = "push" /\ pc' = "idle" /\ remote' # remote =>
        /\ remote' = tree
        /\ \A p \in Pages : written[p] \in pushed' \cup exposed
<1>1. IInv /\ [Next]_vars => [Publishes]_vars
  <2> SUFFICES ASSUME IInv, [Next]_vars, pc = "push", pc' = "idle", remote' # remote
               PROVE  Publishes
    OBVIOUS
  <2>1. Push
    BY DEF Next, vars, git, local, Write, Delete, Saves, OtherPushes, Goes, Ends, Add, Commit,
       OnBranch, Reattach, Pulled, PullConflicts, PullCutOff, PullFails, StartsRebase, Abort,
       GivesUp
  <2>2. /\ remote' = main /\ pushed' = pushed \cup {main[p] : p \in Pages}
        /\ tree = main /\ Keeps(tree)
    BY <2>1 DEF Push, IInv, HeadInv, KeptInv
  <2>3. QED
    BY <2>2 DEF Keeps, Safe
<1>2. QED
  BY <1>1, WikiInvariant, PTL DEF Spec, PushPublishes
=============================================================================
