-------------------------- MODULE CanonicalClaims ---------------------------
(***************************************************************************)
(* Which of the claims made about a subject is the canonical one           *)
(* (control/knowledge.py, claim and resolve_claim; control/verification.py,*)
(* invalidate).  A claim that cites evidence has it examined before the    *)
(* transaction that records the claim.                                     *)
(***************************************************************************)
EXTENDS Integers, Sequences, FiniteSets

CONSTANTS Subjects,    \* entities claims are made about, each with one predicate
          Values,      \* what can be claimed
          Authorities, \* classes of authority
          Rank,        \* authority -> its rank
          Deciding,    \* authorities whose word counts without proof
          Owner,       \* the authority of an owner's decision
          Callers,     \* calls of claim in progress (bound)
          MaxClaims,   \* claims recorded (bound)
          None         \* no call

ClaimsAssumption ==
  /\ Rank \in [Authorities -> Nat] /\ Owner \in Deciding /\ Deciding \subseteq Authorities
  /\ \A a \in Authorities : Rank[a] <= Rank[Owner]
  /\ MaxClaims \in Nat

VARIABLES
  claims,  \* the claims, in the order they were recorded
  retired, \* subjects whose entity is retired or stale
  proof,   \* the evidence: "current", "moved" once its inputs changed, "marked" stale
  call     \* caller -> the claim whose evidence was found current, or None

vars == <<claims, retired, proof, call>>

-----------------------------------------------------------------------------
Stated == [subject: Subjects, value: Values, authority: Authorities, verified: BOOLEAN]

Dispositions == {"CANONICAL", "CANDIDATE", "CONFLICTING", "REJECTED", "SUPERSEDED", "STALE"}

TypeOK ==
  /\ \A n \in DOMAIN claims :
       claims[n] \in [subject: Subjects, value: Values, authority: Authorities,
                      verified: BOOLEAN, disposition: Dispositions]
  /\ retired \subseteq Subjects
  /\ proof \in {"current", "moved", "marked"}
  /\ call \in [Callers -> Stated \cup {None}]

Init ==
  /\ claims = << >>
  /\ retired = {}
  /\ proof = "current"
  /\ call = [c \in Callers |-> None]

Standing == {"CANONICAL", "CANDIDATE", "CONFLICTING"}

\* The claims a statement contradicts.
Conflicts(d) ==
  {n \in DOMAIN claims : /\ claims[n].subject = d.subject
                         /\ claims[n].disposition \in Standing
                         /\ claims[n].value # d.value}

Outranked(d) == \E n \in Conflicts(d) : Rank[claims[n].authority] >= Rank[d.authority]

Eligible(d) == d.verified \/ d.authority \in Deciding

BecomesCanonical(d) == Eligible(d) /\ ~Outranked(d) /\ d.subject \notin retired

Disposition(d) ==
  IF BecomesCanonical(d) THEN "CANONICAL"
  ELSE IF \E n \in Conflicts(d) : /\ claims[n].disposition = "CANONICAL"
                                  /\ Rank[claims[n].authority] > Rank[d.authority]
  THEN "REJECTED"
  ELSE IF Conflicts(d) # {} THEN "CONFLICTING" ELSE "CANDIDATE"

\* Faulty variant: whatever it contradicts yields.
AllYield(d) == Conflicts(d)

\* The contradicted claims that lose their standing to the new one.
Yielding(d) == {n \in Conflicts(d) : Rank[claims[n].authority] <= Rank[d.authority]}

-----------------------------------------------------------------------------
\* Before the transaction: cited evidence must pass, not be marked, and be fresh.
Examine(c, d) ==
  /\ call[c] = None
  /\ d.verified => proof = "current"
  /\ call' = [call EXCEPT ![c] = d]
  /\ UNCHANGED <<claims, retired, proof>>

Claim(c) ==
  LET d == call[c]
      added == [subject |-> d.subject, value |-> d.value, authority |-> d.authority,
                verified |-> d.verified, disposition |-> Disposition(d)]
  IN  /\ d # None /\ Len(claims) < MaxClaims
      /\ claims' = Append(
           [n \in DOMAIN claims |-> IF n \in Yielding(d)
              THEN [claims[n] EXCEPT !.disposition =
                      IF BecomesCanonical(d) THEN "SUPERSEDED" ELSE "CONFLICTING"]
              ELSE claims[n]], added)
      /\ call' = [call EXCEPT ![c] = None]
      /\ UNCHANGED <<retired, proof>>

\* Faulty variant: promotes a claim beside the others.
ResolveAlone(k) ==
  /\ k \in DOMAIN claims /\ claims[k].subject \notin retired
  /\ claims' = [claims EXCEPT ![k].disposition = "CANONICAL", ![k].authority = Owner,
                              ![k].verified = FALSE]
  /\ UNCHANGED <<retired, proof, call>>

\* The owner decides for one claim; every other about the subject is superseded.
ResolveClaim(k) ==
  /\ k \in DOMAIN claims /\ claims[k].subject \notin retired
  /\ claims' = [n \in DOMAIN claims |->
       IF n = k THEN [claims[n] EXCEPT !.disposition = "CANONICAL", !.authority = Owner,
                                       !.verified = FALSE]
       ELSE IF claims[n].subject = claims[k].subject
       THEN [claims[n] EXCEPT !.disposition = "SUPERSEDED"] ELSE claims[n]]
  /\ UNCHANGED <<retired, proof, call>>

\* The entity of a subject is retired.
Retire(s) ==
  /\ retired' = retired \cup {s}
  /\ UNCHANGED <<claims, proof, call>>

\* What the evidence was produced from changes, or is brought back.
InputsMove ==
  /\ proof \in {"current", "moved"}
  /\ proof' = IF proof = "current" THEN "moved" ELSE "current"
  /\ UNCHANGED <<claims, retired, call>>

\* invalidate, first part: evidence that is no longer fresh is marked for good.
MarkEvidence ==
  /\ proof = "moved"
  /\ proof' = "marked"
  /\ UNCHANGED <<claims, retired, call>>

\* A canonical claim whose subject is retired or whose evidence is marked.
Unfounded(d) == d.subject \in retired \/ (d.verified /\ proof = "marked")

\* invalidate, second part: canonical claims that are unfounded.
MarkClaims ==
  /\ \E n \in DOMAIN claims : claims[n].disposition = "CANONICAL" /\ Unfounded(claims[n])
  /\ claims' = [n \in DOMAIN claims |->
       IF claims[n].disposition = "CANONICAL" /\ Unfounded(claims[n])
       THEN [claims[n] EXCEPT !.disposition = "STALE"] ELSE claims[n]]
  /\ UNCHANGED <<retired, proof, call>>

Next ==
  \/ \E c \in Callers : Claim(c) \/ \E d \in Stated : Examine(c, d)
  \/ \E k \in DOMAIN claims : ResolveClaim(k)
  \/ \E s \in Subjects : Retire(s)
  \/ InputsMove \/ MarkEvidence \/ MarkClaims

Spec == Init /\ [][Next]_vars

-----------------------------------------------------------------------------
\* Properties

Canonical(s) == {n \in DOMAIN claims : claims[n].subject = s
                                       /\ claims[n].disposition = "CANONICAL"}

\* The canonical claims about a subject never contradict one another, in whatever order
\* claims, owner decisions and invalidations come.
OneTruth == \A s \in Subjects : Cardinality({claims[n].value : n \in Canonical(s)}) <= 1

\* A canonical claim that is well founded yields only to a claim of at least its
\* authority or to the owner.
NotDisplacedFromBelow ==
  \A n \in DOMAIN claims :
    /\ claims[n].disposition = "CANONICAL" /\ claims'[n].disposition # "CANONICAL"
    /\ ~Unfounded(claims[n])
    => \E m \in DOMAIN claims' :
         /\ m \notin DOMAIN claims \/ claims'[m].disposition = "CANONICAL"
         /\ Rank[claims'[m].authority] >= Rank[claims[n].authority]

\* What is canonical is one truth, and it changes hands only by authority.
OneTruthByAuthority == [][OneTruth' /\ NotDisplacedFromBelow]_vars
=============================================================================
