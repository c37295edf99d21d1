----------------------------- MODULE WikiStore -----------------------------
(***************************************************************************)
(* The wiki of an agent: a working tree that write, delete, append_log and *)
(* update_index change, each followed by _git_commit_push, which commits   *)
(* everything and brings the branch in line with the remote, where others  *)
(* push too.  Every git command may fail, or be cut off by its timeout or  *)
(* the death of the process, and the function then returns.  The function  *)
(* blocks the event loop, so it is only the remote that moves meanwhile.   *)
(*                                                                         *)
(* git is external.  A page is merged as a whole: two versions conflict.   *)
(***************************************************************************)
EXTENDS Integers

CONSTANTS
  Pages,
  MaxVersions   \* bound: versions written here or by others

ASSUME WikiAssumption == MaxVersions \in Nat

VARIABLES
  pc,           \* the git command to come, or "idle"
  tree,         \* the working tree: page -> version
  main,         \* the commit of the branch
  detached,     \* HEAD is not at the branch
  side,         \* the commit of a detached HEAD
  rebase,       \* a rebase is in progress, and the commit it started from
  base,         \* the last commit that branch and remote have in common
  remote,       \* the commit of the remote branch
  written,      \* history: the last version written to each page here
  pushed,       \* history: versions that were on the remote
  exposed,      \* history: versions written while a rebase was in progress
  versions      \* versions so far

git == <<main, detached, side, rebase, base>>
local == <<written, exposed, versions>>
vars == <<pc, tree, git, remote, local, pushed>>

Absent == [n |-> 0, text |-> FALSE]
Markers == [n |-> -1, text |-> TRUE]
Versions == {Absent, Markers} \cup [n : 1..MaxVersions, text : BOOLEAN]
Init ==
  /\ pc = "idle"
  /\ tree = [p \in Pages |-> Absent]
  /\ main = tree /\ side = tree /\ base = tree /\ remote = tree
  /\ detached = FALSE /\ rebase = [on |-> FALSE, orig |-> tree]
  /\ written = tree /\ pushed = {Absent} /\ exposed = {} /\ versions = 0

Goes(from, to) == pc = from /\ pc' = to

\* The function returns, for whatever reason.
Ends(from) == Goes(from, "idle")

-----------------------------------------------------------------------------
(* The pages *)

Saves(p, text) ==
  LET v == [n |-> versions + 1, text |-> text] IN
  /\ versions < MaxVersions /\ versions' = versions + 1
  /\ tree' = [tree EXCEPT ![p] = v]
  /\ written' = [written EXCEPT ![p] = v]
  /\ exposed' = IF rebase.on THEN exposed \cup {v} ELSE exposed
  /\ Goes("idle", "add")
  /\ UNCHANGED <<git, remote, pushed>>

\* write; append_log and update_index likewise, from the text they find.
Write(p) == Saves(p, TRUE)

Delete(p) == tree[p].text /\ Saves(p, FALSE)

-----------------------------------------------------------------------------
(* _git_commit_push *)

\* git add -A
Add == Goes("add", "commit") /\ UNCHANGED <<tree, git, remote, local, pushed>>

\* git commit: on the branch or on the detached HEAD, also when that is the
\* middle of a rebase; or there is nothing to commit.
Commit ==
  /\ \E to \in {"branch", "idle"} : Goes("commit", to)
  /\ IF detached THEN side' = tree /\ UNCHANGED main
                 ELSE main' = tree /\ UNCHANGED side
  /\ UNCHANGED <<tree, detached, rebase, base, remote, local, pushed>>

OnBranch ==
  /\ ~detached /\ Goes("branch", "pull")
  /\ UNCHANGED <<tree, git, remote, local, pushed>>

\* A detached HEAD: the branch of the remote is checked out, and the tree with it.
Reattach ==
  /\ detached
  /\ \E to \in {"pull", "idle"} : Goes("branch", to)
  /\ tree' = main /\ detached' = FALSE
  /\ UNCHANGED <<main, side, rebase, base, remote, local, pushed>>

Merged(p) == IF main[p] = base[p] THEN remote[p] ELSE main[p]
Conflicting(p) == main[p] # base[p] /\ remote[p] # base[p] /\ main[p] # remote[p]
Conflict == \E p \in Pages : Conflicting(p)

\* git pull --rebase starts a rebase: not when one is in progress, nor when there
\* are changes that were not committed.
MayRebase == ~rebase.on /\ tree = main

\* Bug: -X ours, which in a rebase takes the side of the remote.
PulledTheirs ==
  /\ MayRebase
  /\ \E to \in {"push", "idle"} : Goes("pull", to)
  /\ main' = [p \in Pages |-> IF Conflicting(p) THEN remote[p] ELSE Merged(p)]
  /\ tree' = main' /\ base' = remote
  /\ UNCHANGED <<detached, side, rebase, remote, local, pushed>>

Pulled ==
  /\ MayRebase /\ ~Conflict
  /\ \E to \in {"push", "idle"} : Goes("pull", to)
  /\ main' = [p \in Pages |-> Merged(p)] /\ tree' = main' /\ base' = remote
  /\ UNCHANGED <<detached, side, rebase, remote, local, pushed>>

\* There is nothing to rebase when only one of the two moved on.
StartsRebase ==
  /\ MayRebase /\ main # base /\ remote # base
  /\ rebase' = [on |-> TRUE, orig |-> main] /\ detached' = TRUE /\ side' = remote
  /\ tree' = [p \in Pages |-> IF Conflicting(p) THEN Markers ELSE remote[p]]
  /\ UNCHANGED <<main, base, remote, local, pushed>>

PullConflicts == Conflict /\ Goes("pull", "abort") /\ StartsRebase

\* git is cut off in the middle of the rebase.
PullCutOff == Ends("pull") /\ StartsRebase

PullFails == Goes("pull", "abort") /\ UNCHANGED <<tree, git, remote, local, pushed>>

\* Bug: git rebase --quit, which leaves HEAD where it is.
AbortQuitting ==
  /\ Ends("abort")
  /\ rebase' = [rebase EXCEPT !.on = FALSE]
  /\ UNCHANGED <<tree, main, detached, side, base, remote, local, pushed>>

\* git rebase --abort goes back to the commit the rebase started from, if there
\* is a rebase.
Abort ==
  /\ Ends("abort")
  /\ IF rebase.on
       THEN /\ main' = rebase.orig /\ tree' = rebase.orig /\ detached' = FALSE
            /\ rebase' = [rebase EXCEPT !.on = FALSE]
            /\ UNCHANGED <<side, base>>
       ELSE UNCHANGED <<tree, git>>
  /\ UNCHANGED <<remote, local, pushed>>

\* git push is rejected when the remote has moved on.
Push ==
  /\ remote = base /\ Ends("push")
  /\ remote' = main /\ base' = main
  /\ pushed' = pushed \cup {main[p] : p \in Pages}
  /\ UNCHANGED <<tree, main, detached, side, rebase, local>>

\* A command fails, or is cut off before it has done anything.
GivesUp ==
  /\ \E at \in {"add", "commit", "branch", "pull", "abort", "push"} : Ends(at)
  /\ UNCHANGED <<tree, git, remote, local, pushed>>

-----------------------------------------------------------------------------

\* Another clone pushes a page.
OtherPushes(p) ==
  LET v == [n |-> versions + 1, text |-> TRUE] IN
  /\ versions < MaxVersions /\ versions' = versions + 1
  /\ remote' = [remote EXCEPT ![p] = v] /\ pushed' = pushed \cup {v}
  /\ UNCHANGED <<pc, tree, git, written, exposed>>

Next ==
  \/ \E p \in Pages : Write(p) \/ Delete(p) \/ OtherPushes(p)
  \/ Add \/ Commit \/ OnBranch \/ Reattach
  \/ Pulled \/ PullConflicts \/ PullCutOff \/ PullFails \/ Abort
  \/ Push \/ GivesUp

Spec == Init /\ [][Next]_vars

-----------------------------------------------------------------------------
(* Properties *)

\* What was last written to a page is in the tree, on the branch, or was on the
\* remote: whichever commands fail, conflict or are cut off.  Only what is
\* written while a rebase is left in progress may be lost, when the branch is
\* checked out again or the rebase aborted at last.
LostOnlyMidRebase ==
  \A p \in Pages :
    \/ written[p] \in {tree[p], main[p]} \cup pushed
    \/ written[p] \in exposed

\* A push that succeeds brings everything to the remote, also what was written
\* when the commands after an earlier write had failed: the remote is the tree.
PushPublishes ==
  [][ pc = "push" /\ pc' = "idle" /\ remote' # remote =>
        /\ remote' = tree
        /\ \A p \in Pages : written[p] \in pushed' \cup exposed ]_vars
=============================================================================
