----------------------------- MODULE Completion -----------------------------
(***************************************************************************)
(* What the completion of a task rests on: the assurance of its claims and *)
(* the integration of its workspace, side by side, with what the second    *)
(* promises.                                                               *)
(***************************************************************************)
EXTENDS Assurance

CONSTANTS Tasks, TreeFiles, Inputs, TreeContents, Original, MaxHistory \* Integration

VARIABLES primary, checkout, branch, worktree, workspace, task, integrating, upkeep

integration == <<primary, checkout, branch, worktree, workspace, task, integrating, upkeep>>

Merging == INSTANCE Integration_proofs WITH Contents <- TreeContents, call <- integrating

ASSUME CompletionAssumption == Merging!IntegrationAssumption

CompletionSpec == Spec /\ Merging!Spec

-----------------------------------------------------------------------------
\* The records of the assurance and of the integration keep their types.
TypesOK == TypeOK /\ Merging!TypeOK

\* A merge is recorded of what its gate was passed on (workspaces.merge_workspace).
MergedAsGated == Merging!MergedAsGated

\* What was verified is in the primary repository when a task completes
\* (verification.complete).
CompletedInPrimary == Merging!CompletedInPrimary
=============================================================================
