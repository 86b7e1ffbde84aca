-------------------------- MODULE AssuranceDecision -------------------------
(***************************************************************************)
(* What the assurance engine tells the agent to do next (decision.py, and  *)
(* service.pending_specs): a function of the claims that are outstanding,  *)
(* of whether the task has another attempt, and of the policy.             *)
(***************************************************************************)
EXTENDS Assurance

CONSTANTS Severe,         \* claims of high or critical criticality
          ProtectedFiles  \* the files of the policy nobody may repair

ASSUME DecisionAssumption == Severe \subseteq Claims /\ ProtectedFiles \subseteq Files

Outstanding(status) == {c \in Debt : Resolution(c) = status}

\* A failure is repaired inside the scope, with an attempt left (`spent`: there is none).
Repairable(claims, spent) ==
  ~spent /\ \A c \in claims : obligation[c].paths \cap ProtectedFiles = {}

\* Not rerun: a claim whose route gave no verdict, or on which evidence conflicts.
Rerun == Outstanding("STALE") \cup Outstanding("UNRESOLVED")

\* What a verification runs next; a human is not run.
PendingSpecs ==
  (UNION {obligation[c].required : c \in Rerun \cup Outstanding("FAILED")}) \ {Human}

Refuting(spent) ==
  CASE Outstanding("CONFLICTED") # {} -> "BLOCK"
    [] OTHER -> IF Repairable(Outstanding("FAILED"), spent) THEN "REPAIR" ELSE "BLOCK"

Silent ==
  \/ Outstanding("BLOCKED") # {}
  \/ Outstanding("UNKNOWN") # {} /\ Debt \cap Severe # {}

Decision(spent) ==
  IF Recorded = {} THEN "CONTINUE"
  ELSE IF Debt = {} THEN "COMPLETE"
  ELSE IF \E c \in Debt : Refuted(c) THEN Refuting(spent)
  ELSE IF Silent THEN "ESCALATE"
  ELSE IF Outstanding("HUMAN_REQUIRED") # {} THEN "HUMAN_REQUIRED"
  ELSE IF \E c \in Rerun : obligation[c].required # {} THEN "EXPAND_VERIFICATION"
  ELSE "ESCALATE"

\* Passes that count for a claim: no opinion where a deterministic kind reaches it.
Counting(c) == IF c \in Dominated THEN Specs \ Judgment ELSE Specs

-----------------------------------------------------------------------------
\* What the documentation says

\* "When no automated verifier can settle a claim, the engine says so with a concrete
\* request" (docs/v2.1/README.md): it does not ask for a verifier to be run while only
\* the human can settle what is outstanding.
HumanIsAsked ==
  \A spent \in BOOLEAN :
    Decision(spent) = "EXPAND_VERIFICATION" => PendingSpecs # {}

\* Verification is not asked for again where no verifier of the route can settle it.
ExpansionCanSettle ==
  \A spent \in BOOLEAN :
    Decision(spent) = "EXPAND_VERIFICATION" =>
      \E c \in Rerun : obligation[c].required \subseteq Counting(c)
=============================================================================
