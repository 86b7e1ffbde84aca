---------------------------- MODULE MCAssurance -----------------------------
(***************************************************************************)
(* Small instances of the assurance.                                       *)
(***************************************************************************)
EXTENDS AssuranceDecision, TLC

\* The planner's place of a verifier is its depth.
MCLevel == [s \in Specs |-> CASE s = "unit" -> 1 [] s = "property" -> 2 [] OTHER -> 3]

\* A criterion is bound to the unit tests; a policy claim can be settled by any
\* verifier deeper or as deep as them.
MCSupplies == [c \in Claims |-> IF c \in Contractual THEN Specs \cap {"unit"}
                                ELSE IF c \in HumanOnly THEN {} ELSE Specs]

\* A policy claim is raised by a change of the first file.
MCRaisedBy == [c \in Claims |-> IF c \in ByRisk \cup Contractual THEN {}
                                 ELSE Files \cap {"api"}]

MCSymmetry == Permutations(Procs)
=============================================================================
