------------------------------ MODULE MCClaims ------------------------------
(***************************************************************************)
(* What a completion rests on, in three instances side by side: the        *)
(* assurance with calls that overlap and one evidence record, the          *)
(* assurance with calls one after the other and two records, and the       *)
(* integration of the workspace.  Files change, plans are compiled and     *)
(* completions are undone at any time in all of them.                      *)
(***************************************************************************)
EXTENDS MCAssurance, Completion

VARIABLE part \* which of the three

\* The verifiers of a task read every file of the repository.
MCInputs == [t \in Tasks |-> TreeFiles]

Overlapping == INSTANCE Assurance WITH MaxEvidence <- 1

OneAtATime == \A p, q \in Procs : p # q => None \in {call'[p], call'[q]}

MCInit == Init /\ Merging!Init /\ part \in {"overlap", "repeat", "integration"}

MCNext ==
  /\ \/ part = "overlap" /\ Overlapping!Next /\ UNCHANGED integration
     \/ part = "repeat" /\ Next /\ OneAtATime /\ UNCHANGED integration
     \/ part = "integration" /\ Merging!Next /\ UNCHANGED vars
  /\ UNCHANGED part

MCSpec == MCInit /\ [][MCNext]_<<vars, integration, part>>
=============================================================================
