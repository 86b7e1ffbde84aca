--------------------------- MODULE ParallelSafety ---------------------------
(***************************************************************************)
(* When two task contracts may be worked on at the same time               *)
(* (control/workspaces.py, parallel_safety).                               *)
(*                                                                         *)
(* A scope path is the sequence of its components: "src/app" is            *)
(* <<"src", "app">> and the whole tree, ".", is <<>>.  The string test     *)
(* a.startswith(b.rstrip("/") + "/") together with a == b is then          *)
(* "b is a prefix of a", and "." is a prefix of every path.                *)
(***************************************************************************)
EXTENDS Sequences, Naturals

CONSTANTS PathNames,       \* names of files and directories
          BoundaryNames    \* interfaces, tables, topics... a task may touch

Risks == {"LOW", "STANDARD", "HIGH", "CRITICAL"}

\* The part of a task contract parallel_safety reads.
Contracts == [scope: SUBSET Seq(PathNames), boundaries: SUBSET BoundaryNames,
              risk: Risks]

\* b is a or a directory above a; the faulty variant compares whole paths only.
SamePath(b, a) == b = a

Covers(b, a) == Len(b) <= Len(a) /\ \A i \in 1..Len(b) : b[i] = a[i]

PathOverlap(left, right) ==
  {pair \in left.scope \X right.scope :
     Covers(pair[1], pair[2]) \/ Covers(pair[2], pair[1])}

SharedBoundaries(left, right) == left.boundaries \cap right.boundaries

NeedsReview(contract) == contract.risk \in {"HIGH", "CRITICAL"}

SafetyStatus(left, right) ==
  IF PathOverlap(left, right) # {} THEN "CONFLICTING"
  ELSE IF SharedBoundaries(left, right) # {} THEN "SERIALIZE"
  ELSE IF NeedsReview(left) \/ NeedsReview(right) THEN "PARALLEL_WITH_REVIEW"
  ELSE "SAFE_PARALLEL"

SafeParallel(left, right) == SafetyStatus(left, right) = "SAFE_PARALLEL"
=============================================================================
