---------------------------- MODULE Integration -----------------------------
(***************************************************************************)
(* Isolated tasks and their way into the primary repository                *)
(* (control/workspaces.py, with the completion of control/verification.py):*)
(* a worktree and branch per task, the integration gate, the fast-forward  *)
(* merge, refresh and cleanup.  Git and the database do not share a        *)
(* transaction: a call is killed between the two, agents edit and commit   *)
(* while a call is under way, and the owner edits the primary tree.        *)
(*                                                                         *)
(* A commit is the sequence of the writes its history made, one file each, *)
(* so that a branch can be fast-forwarded to another exactly when it is a  *)
(* prefix of it.  Contents come back: edits are discarded, commits undone  *)
(* and branches reset.                                                     *)
(*                                                                         *)
(* The calls measure a tree several times; each measurement is a step.     *)
(***************************************************************************)
EXTENDS Integers, Sequences, FiniteSets, SequencesExt

CONSTANTS Tasks,      \* isolated tasks
          TreeFiles,  \* the files of the repository
          Inputs,     \* task -> the files its verifiers read
          Contents,   \* what a file may hold
          Original,   \* what files hold at first
          MaxHistory, \* writes in the history of a commit (bound)
          None        \* absent record

Writes == [file: TreeFiles, data: Contents]

Commits == Seq(Writes)

Trees == [TreeFiles -> Contents]

Workspaces == [base: Commits, files: Trees, removed: BOOLEAN]

Bindings(t) == [Inputs[t] -> Contents]

Integrations(t) == [binding: Bindings(t), merged: Trees \cup {None}]

IntegrationAssumption ==
  /\ Inputs \in [Tasks -> SUBSET TreeFiles]
  /\ Original \in Contents /\ MaxHistory \in Nat
  /\ None \notin Commits \cup Trees \cup Workspaces
  /\ \A t \in Tasks : None \notin Integrations(t)

VARIABLES
  primary,   \* the commit the primary repository is at
  checkout,  \* what the files of the primary hold
  branch,    \* task -> the commit of its branch, or None
  worktree,  \* task -> what the files of its worktree hold, or None
  workspace, \* task -> the workspace record, or None
  task,      \* task -> the parts of its record integration reads and writes
  call,      \* task -> the gate, merge or completion its session is at, or None
  upkeep     \* task -> the refresh or cleanup under way for it, or None

git == <<primary, checkout, branch, worktree>>
calls == <<call, upkeep>>
vars == <<primary, checkout, branch, worktree, workspace, task, call, upkeep>>

-----------------------------------------------------------------------------
States == {"READY", "CLAIMED", "VERIFYING", "COMPLETED", "NEEDS_REVALIDATION"}

TaskRecords(t) ==
  [state: States, integration: Integrations(t) \cup {None}, proof: Bindings(t) \cup {None}]

\* same: the record of the task is as the call read it.  still: the tree the task stands
\* for is as the call measured it; the code does not know this, it is for the properties.
Calls(t) ==
  [at: {"examined"}]
    \cup [at: {"gated"}, still: BOOLEAN, binding: Bindings(t)]
    \cup [at: {"recorded", "merged", "proven", "compared", "bound"}, still: BOOLEAN]
    \cup [at: {"moved"}, same: BOOLEAN]
    \cup [at: {"read", "matched"}, same: BOOLEAN, still: BOOLEAN, tree: Trees]

Upkeeps == [at: {"rebased"}, same: BOOLEAN, target: Commits] \cup [at: {"removed"}]

TypeOK ==
  /\ primary \in Commits /\ checkout \in Trees
  /\ branch \in [Tasks -> Commits \cup {None}]
  /\ worktree \in [Tasks -> Trees \cup {None}]
  /\ workspace \in [Tasks -> Workspaces \cup {None}]
  /\ \A t \in Tasks : task[t] \in TaskRecords(t) /\ call[t] \in Calls(t) \cup {None}
  /\ upkeep \in [Tasks -> Upkeeps \cup {None}]

\* The files at a commit.
LastWrite(f, commit) ==
  CHOOSE n \in DOMAIN commit :
    commit[n].file = f /\ \A m \in n + 1..Len(commit) : commit[m].file # f

TreeOf(commit) ==
  [f \in TreeFiles |->
     IF \E n \in DOMAIN commit : commit[n].file = f THEN commit[LastWrite(f, commit)].data
     ELSE Original]

Init ==
  /\ primary = << >> /\ checkout = TreeOf(<< >>)
  /\ branch = [t \in Tasks |-> None]
  /\ worktree = [t \in Tasks |-> None]
  /\ workspace = [t \in Tasks |-> None]
  /\ task = [t \in Tasks |-> [state |-> "READY", integration |-> None, proof |-> None]]
  /\ call = [t \in Tasks |-> None]
  /\ upkeep = [t \in Tasks |-> None]

-----------------------------------------------------------------------------
\* Trees

\* The files of the primary with edits that are not committed.
Drafts == {f \in TreeFiles : checkout[f] # TreeOf(primary)[f]}

Merged(t) == task[t].integration # None /\ task[t].integration.merged # None

\* The writes of a commit since it parted from another.
Since(commit, other) ==
  SubSeq(commit, Len(LongestCommonPrefix({commit, other})) + 1, Len(commit))

EditedSince(commit, other) == {w.file : w \in ToSet(Since(commit, other))}

\* workspace_root of a task not yet completed: the tree it stands for; "lost" when its
\* worktree is gone.  With a workspace that was removed and no integration, the lookup
\* itself fails.
WorkRoot(t) ==
  IF workspace[t] = None THEN "primary"
  ELSE IF workspace[t].removed /\ task[t].integration = None THEN "raises"
  ELSE IF workspace[t].removed /\ Merged(t) THEN "primary"
  ELSE IF worktree[t] # None THEN "worktree" ELSE "lost"

Root(t) == IF task[t].state = "COMPLETED" /\ Merged(t) THEN "primary" ELSE WorkRoot(t)

Tree(t) == IF Root(t) = "primary" THEN checkout ELSE worktree[t]

WorkTree(t) == IF WorkRoot(t) = "primary" THEN checkout ELSE worktree[t]

HeadOf(t) == IF Root(t) = "primary" THEN primary ELSE branch[t]

Clean(t) == Tree(t) = TreeOf(HeadOf(t))

Found(t) == Root(t) \in {"primary", "worktree"}

\* What evidence of t is bound to, in a tree.
BindingIn(t, tree) == [f \in Inputs[t] |-> tree[f]]

Binding(t) == BindingIn(t, Tree(t))

\* completion_proof: the last evidence passed on what the files are now.
Proven(t) == Found(t) /\ task[t].proof = Binding(t)

Owned(t) == task[t].state \in {"CLAIMED", "VERIFYING"}

At(t, at) == call[t] # None /\ call[t].at = at

KeepingAt(t, at) == upkeep[t] # None /\ upkeep[t].at = at

\* A merge and a completion hold the write lock of the database while they look at files.
Unlocked ==
  \A t \in Tasks : ~(call[t] # None /\ call[t].at \in {"merged", "proven", "compared", "bound"})

\* Write the record of t; a call that read it before has an older version.
Outdated(c) == IF c # None /\ "same" \in DOMAIN c THEN [c EXCEPT !.same = FALSE] ELSE c

WriteTask(t, r) ==
  /\ task' = [task EXCEPT ![t] = r]
  /\ call' = [call EXCEPT ![t] = Outdated(@)]
  /\ upkeep' = [upkeep EXCEPT ![t] = Outdated(@)]

\* Calls under way when files change.
Watched(t) ==
  IF call[t] # None /\ "still" \in DOMAIN call[t]
  THEN [call[t] EXCEPT !.still = @ /\ WorkTree(t)' = WorkTree(t)] ELSE call[t]

Watch ==
  /\ call' = [t \in Tasks |-> Watched(t)]
  /\ UNCHANGED upkeep

-----------------------------------------------------------------------------
\* The agent and the owner

\* create_workspace: a worktree on a new branch from a committed primary tree.  What
\* it measures is the primary tree.
CreateWorkspace(t) ==
  /\ Unlocked
  /\ workspace[t] = None /\ task[t].state = "READY" /\ Drafts = {}
  /\ branch[t] = None
  /\ branch' = [branch EXCEPT ![t] = primary]
  /\ worktree' = [worktree EXCEPT ![t] = TreeOf(primary)]
  /\ workspace' = [workspace EXCEPT ![t] =
       [base |-> primary, files |-> checkout, removed |-> FALSE]]
  /\ UNCHANGED <<primary, checkout, task, calls>>

Claim(t) ==
  /\ Unlocked
  /\ workspace[t] # None /\ task[t].state = "READY" /\ Found(t)
  /\ WriteTask(t, [task[t] EXCEPT !.state = "CLAIMED"])
  /\ UNCHANGED <<git, workspace>>

\* release, or the sweep of a lease that ran out.
Release(t) ==
  /\ Unlocked /\ Owned(t)
  /\ WriteTask(t, [task[t] EXCEPT !.state = "READY"])
  /\ UNCHANGED <<git, workspace>>

\* An agent edits where the task stands for, whether or not it may; also back to what it
\* was before.
Edit(t, f, data) ==
  /\ workspace[t] # None /\ Found(t) /\ Tree(t)[f] # data
  /\ IF Root(t) = "worktree"
     THEN worktree' = [worktree EXCEPT ![t] = [worktree[t] EXCEPT ![f] = data]] /\ UNCHANGED checkout
     ELSE checkout' = [checkout EXCEPT ![f] = data] /\ UNCHANGED worktree
  /\ UNCHANGED <<primary, branch, workspace, task>>
  /\ Watch

CommitEdit(t) ==
  /\ worktree[t] # None /\ Len(branch[t]) < MaxHistory
  /\ \E f \in TreeFiles :
       /\ worktree[t][f] # TreeOf(branch[t])[f]
       /\ branch' = [branch EXCEPT ![t] = Append(@, [file |-> f, data |-> worktree[t][f]])]
  /\ UNCHANGED <<primary, checkout, worktree, workspace, task, calls>>

\* git reset --hard in the worktree, to an earlier commit.
Reset(t) ==
  /\ worktree[t] # None
  /\ \E commit \in Prefixes(branch[t]) :
       /\ branch' = [branch EXCEPT ![t] = commit]
       /\ worktree' = [worktree EXCEPT ![t] = TreeOf(commit)]
  /\ UNCHANGED <<primary, checkout, workspace, task>>
  /\ Watch

OwnerEdits(f, data) ==
  /\ checkout[f] # data
  /\ checkout' = [checkout EXCEPT ![f] = data]
  /\ UNCHANGED <<primary, branch, worktree, workspace, task>>
  /\ Watch

OwnerCommits ==
  /\ Len(primary) < MaxHistory
  /\ \E f \in Drafts : primary' = Append(primary, [file |-> f, data |-> checkout[f]])
  /\ UNCHANGED <<checkout, branch, worktree, workspace, task, calls>>

\* verify: the last evidence is of the contents before and after the run, if it passed.
Verify(t, passed) ==
  /\ Unlocked /\ Owned(t) /\ Found(t)
  /\ WriteTask(t, [task[t] EXCEPT !.state = "VERIFYING",
                                  !.proof = IF passed THEN Binding(t) ELSE None])
  /\ UNCHANGED <<git, workspace>>

-----------------------------------------------------------------------------
\* integration_gate and merge_workspace

\* The primary tree is what the workspace was made or refreshed from.
AtBaseline(t) == primary = workspace[t].base /\ checkout = workspace[t].files

\* The gate examines everything before the transaction that records its outcome,
GateExamine(t) ==
  /\ call[t] = None /\ Owned(t) /\ workspace[t] # None
  /\ AtBaseline(t) /\ Proven(t)
  /\ call' = [call EXCEPT ![t] = [at |-> "examined"]]
  /\ UNCHANGED <<git, workspace, task, upkeep>>

\* and measures the inputs of the task once more for the record, of a task read before:
\* whatever became of it, it was not completed then.
GateBind(t) ==
  /\ At(t, "examined") /\ WorkRoot(t) \in {"primary", "worktree"}
  /\ call' = [call EXCEPT ![t] =
       [at |-> "gated", still |-> TRUE,
        binding |-> BindingIn(t, WorkTree(t))]]
  /\ UNCHANGED <<git, workspace, task, upkeep>>

\* Its transaction reads the task again, so any version is written over.
GateRecord(t) ==
  /\ Unlocked
  /\ At(t, "gated") /\ Owned(t)
  /\ task' = [task EXCEPT ![t].integration = [binding |-> call[t].binding, merged |-> None]]
  /\ call' = [call EXCEPT ![t] = [at |-> "recorded", still |-> call[t].still]]
  /\ upkeep' = [upkeep EXCEPT ![t] = Outdated(@)]
  /\ UNCHANGED <<git, workspace>>

\* The files a move of the primary to another commit changes.
Differing(commit) == {f \in TreeFiles : TreeOf(commit)[f] # TreeOf(primary)[f]}

\* merge_workspace goes on: checks and the merge inside a transaction.  git refuses to
\* write over edits.
MergeGit(t) ==
  /\ Unlocked
  /\ At(t, "recorded")
  /\ Owned(t) /\ Found(t) /\ Clean(t)
  /\ AtBaseline(t)
  /\ IsPrefix(primary, branch[t])
  /\ Drafts \cap Differing(branch[t]) = {}
  /\ primary' = branch[t]
  /\ checkout' = [f \in TreeFiles |->
       IF f \in Differing(branch[t]) THEN TreeOf(branch[t])[f] ELSE checkout[f]]
  /\ UNCHANGED <<branch, worktree, workspace, task, upkeep>>
  /\ call' = [u \in Tasks |-> IF u = t THEN [Watched(t) EXCEPT !.at = "merged"] ELSE Watched(u)]

\* The trees must agree, then the record is committed.
MergeRecord(t) ==
  /\ At(t, "merged") /\ task[t].integration # None
  /\ Found(t) /\ checkout = Tree(t)
  /\ task' = [task EXCEPT ![t].integration.merged = checkout]
  /\ call' = [call EXCEPT ![t] = None]
  /\ upkeep' = [upkeep EXCEPT ![t] = Outdated(@)]
  /\ UNCHANGED <<git, workspace>>

\* What the gate recorded is what the task is bound to now.
Gated(t) == task[t].integration # None /\ task[t].integration.binding = Binding(t)

\* merge_workspace finds its merge done, the record missing: it was killed in between.
RecoverProve(t) ==
  /\ call[t] = None /\ Owned(t) /\ workspace[t] # None
  /\ Proven(t) /\ primary # workspace[t].base /\ primary = HeadOf(t)
  /\ call' = [call EXCEPT ![t] = [at |-> "moved", same |-> TRUE]]
  /\ UNCHANGED <<git, workspace, task, upkeep>>

\* It measures the primary, what it will record as merged,
RecoverRead(t) ==
  /\ At(t, "moved")
  /\ call' = [call EXCEPT ![t] =
       [at |-> "read", same |-> call[t].same, still |-> TRUE, tree |-> checkout]]
  /\ UNCHANGED <<git, workspace, task, upkeep>>

\* Faulty variant: a merge is recovered whatever the gate was passed on.
RecoverAny(t) ==
  /\ At(t, "read")
  /\ Found(t) /\ task[t].integration # None
  /\ call' = [call EXCEPT ![t] = [call[t] EXCEPT !.at = "matched"]]
  /\ UNCHANGED <<git, workspace, task, upkeep>>

\* the inputs, which must be those of the gate,
RecoverMatch(t) ==
  /\ At(t, "read")
  /\ Found(t) /\ Gated(t)
  /\ call' = [call EXCEPT ![t] = [call[t] EXCEPT !.at = "matched"]]
  /\ UNCHANGED <<git, workspace, task, upkeep>>

\* and the worktree; the record is written if the task is as it was read.
MergeRecover(t) ==
  /\ Unlocked
  /\ At(t, "matched") /\ call[t].same /\ Owned(t)
  /\ Found(t) /\ call[t].tree = Tree(t)
  /\ task' = [task EXCEPT ![t].integration.merged = call[t].tree]
  /\ call' = [call EXCEPT ![t] = None]
  /\ upkeep' = [upkeep EXCEPT ![t] = Outdated(@)]
  /\ UNCHANGED <<git, workspace>>

\* The gate was all that was asked for, a check fails, or the process is killed: SQLite
\* rolls back, git does not.
Cut(t) ==
  /\ call[t] # None
  /\ call' = [call EXCEPT ![t] = None]
  /\ UNCHANGED <<git, workspace, task, upkeep>>

-----------------------------------------------------------------------------
\* refresh_workspace and cleanup

\* The branch rebased: its writes since it parted from the target, after the target.
Rebased(commit, target) == target \o Since(commit, target)

\* git rebase outside the transaction; a text conflict aborts it.  Where the worktree was
\* removed it is the primary tree that is rebased on itself.
RefreshRebase(t) ==
  /\ upkeep[t] = None
  /\ workspace[t] # None /\ task[t].state # "COMPLETED"
  /\ Found(t) /\ Clean(t) /\ Drafts = {}
  /\ IF Root(t) = "primary" THEN UNCHANGED <<branch, worktree>>
     ELSE /\ EditedSince(branch[t], primary) \cap EditedSince(primary, branch[t]) = {}
          /\ Len(Rebased(branch[t], primary)) <= MaxHistory
          /\ branch' = [branch EXCEPT ![t] = Rebased(@, primary)]
          /\ worktree' = [worktree EXCEPT ![t] = TreeOf(Rebased(branch[t], primary))]
  /\ upkeep' = [upkeep EXCEPT ![t] = [at |-> "rebased", same |-> TRUE, target |-> primary]]
  /\ UNCHANGED <<primary, checkout, workspace, task>>
  /\ call' = [u \in Tasks |-> Watched(u)]

\* The record, if the task is as it was read; the files are those of the primary now.
RefreshRecord(t) ==
  /\ Unlocked
  /\ KeepingAt(t, "rebased") /\ upkeep[t].same
  /\ task' = [task EXCEPT ![t].integration = None]
  /\ workspace' = [workspace EXCEPT ![t].base = upkeep[t].target, ![t].files = checkout]
  /\ call' = [call EXCEPT ![t] = Outdated(@)]
  /\ upkeep' = [upkeep EXCEPT ![t] = None]
  /\ UNCHANGED git

\* git refuses to remove a worktree with edits; the branch stays.
CleanupGit(t) ==
  /\ upkeep[t] = None
  /\ task[t].state = "COMPLETED" /\ worktree[t] # None /\ worktree[t] = TreeOf(branch[t])
  /\ worktree' = [worktree EXCEPT ![t] = None]
  /\ upkeep' = [upkeep EXCEPT ![t] = [at |-> "removed"]]
  /\ UNCHANGED <<primary, checkout, branch, workspace, task>>
  /\ call' = [u \in Tasks |-> Watched(u)]

CleanupRecord(t) ==
  /\ Unlocked
  /\ KeepingAt(t, "removed")
  /\ workspace' = [workspace EXCEPT ![t].removed = TRUE]
  /\ upkeep' = [upkeep EXCEPT ![t] = None]
  /\ UNCHANGED <<git, task>>
  /\ call' = [u \in Tasks |-> Watched(u)]

\* A check fails, or the process is killed.
CutUpkeep(t) ==
  /\ upkeep[t] # None
  /\ upkeep' = [upkeep EXCEPT ![t] = None]
  /\ UNCHANGED <<git, workspace, task, call>>

-----------------------------------------------------------------------------
\* complete and invalidate

\* The transaction of complete looks at the files four times: for the proof,
CompleteProve(t) ==
  /\ Unlocked
  /\ call[t] = None /\ task[t].state = "VERIFYING" /\ Proven(t)
  /\ call' = [call EXCEPT ![t] = [at |-> "proven", still |-> TRUE]]
  /\ UNCHANGED <<git, workspace, task, upkeep>>

\* whether the primary holds what was merged,
CompleteCompare(t) ==
  /\ At(t, "proven")
  /\ Merged(t) /\ task[t].integration.merged = checkout
  /\ call' = [call EXCEPT ![t].at = "compared"]
  /\ UNCHANGED <<git, workspace, task, upkeep>>

\* whether the tree of the task holds what was gated,
CompleteBind(t) ==
  /\ At(t, "compared")
  /\ Found(t) /\ Gated(t)
  /\ call' = [call EXCEPT ![t].at = "bound"]
  /\ UNCHANGED <<git, workspace, task, upkeep>>

\* Faulty variant: the primary is not looked at again.
HeldBefore(t) == TRUE

Held(t) == BindingIn(t, checkout) = task[t].integration.binding

\* and whether the primary does.  With the last look the task is written.
Complete(t) ==
  /\ At(t, "bound") /\ Held(t)
  /\ task' = [task EXCEPT ![t].state = "COMPLETED"]
  /\ call' = [call EXCEPT ![t] = None]
  /\ upkeep' = [upkeep EXCEPT ![t] = Outdated(@)]
  /\ UNCHANGED <<git, workspace>>

Invalidate(t) ==
  /\ Unlocked
  /\ \A u \in Tasks : Root(u) # "raises"
  /\ task[t].state = "COMPLETED" /\ ~Proven(t)
  /\ WriteTask(t, [task[t] EXCEPT !.state = "NEEDS_REVALIDATION"])
  /\ UNCHANGED <<git, workspace>>

Ready(t) ==
  /\ Unlocked
  /\ task[t].state = "NEEDS_REVALIDATION"
  /\ WriteTask(t, [task[t] EXCEPT !.state = "READY"])
  /\ UNCHANGED <<git, workspace>>

Next ==
  \/ \E f \in TreeFiles, data \in Contents : OwnerEdits(f, data)
  \/ OwnerCommits
  \/ \E t \in Tasks :
       \/ CreateWorkspace(t) \/ Claim(t) \/ Release(t)
       \/ \E f \in TreeFiles, data \in Contents : Edit(t, f, data)
       \/ CommitEdit(t) \/ Reset(t)
       \/ \E passed \in BOOLEAN : Verify(t, passed)
       \/ GateExamine(t) \/ GateBind(t) \/ GateRecord(t)
       \/ MergeGit(t) \/ MergeRecord(t)
       \/ RecoverProve(t) \/ RecoverRead(t) \/ RecoverMatch(t) \/ MergeRecover(t) \/ Cut(t)
       \/ RefreshRebase(t) \/ RefreshRecord(t)
       \/ CleanupGit(t) \/ CleanupRecord(t) \/ CutUpkeep(t)
       \/ CompleteProve(t) \/ CompleteCompare(t) \/ CompleteBind(t) \/ Complete(t)
       \/ Invalidate(t) \/ Ready(t)

Spec == Init /\ [][Next]_vars

-----------------------------------------------------------------------------
\* Properties

\* A task becomes COMPLETED only when what its verifiers passed on is what the primary
\* repository holds at that moment, whoever merged, rebased, undid, edited or was killed
\* since; unless the tree of the task was edited while complete looked at it.
CompletedInPrimary ==
  [][\A t \in Tasks :
       task[t].state # "COMPLETED" /\ task'[t].state = "COMPLETED" /\ call[t].still =>
         task[t].proof = BindingIn(t, checkout)]_vars

\* "recover only the exact gated tree" (docs/v2/README.md:200), and so for every merge put
\* on record: what is recorded as merged is what the gate was passed on, also where git and
\* the database were cut apart; unless the tree of the task was edited after the call
\* measured it.
MergedAsGated ==
  [][\A t \in Tasks :
       task'[t].integration # task[t].integration /\ Merged(t)' /\ call[t].still =>
         BindingIn(t, task'[t].integration.merged) = task'[t].integration.binding]_vars

\* "merge only a verified fast-forward branch" (control/workspaces.py:218): what git
\* merges is bound to what the gate recorded.
MergesOnlyVerified ==
  [][\A t \in Tasks : At(t, "recorded") /\ At(t, "merged")' =>
       task[t].integration.binding = BindingIn(t, checkout')]_vars
=============================================================================
