--------------------------- MODULE Records_proofs ---------------------------
(***************************************************************************)
(* Theorems about the components of Records: those proved in modules of    *)
(* their own, stated of the instances the runs explore, and those of the   *)
(* smaller components.                                                     *)
(***************************************************************************)
EXTENDS Records, Integers, Sequences, SequenceTheorems, FiniteSetTheorems, TLAPS

-----------------------------------------------------------------------------
\* What modules of their own prove

\* Events, revisions and records of the database tell one history, whatever transactions
\* commit, abort and overlap (control/store.py, Store_proofs).
THEOREM StoreKeepsAuditTrail == Storing!Spec => []AuditTrail
BY RecordsAssumption, Storing!AuditTrailAlways DEF AuditTrail

\* The store implements the versioned records it promises (control/store.py, Store_proofs).
THEOREM StoreKeepsVersions == Storing!Spec => ImplementsRecords
BY RecordsAssumption, Storing!StoreImplementsRecords DEF ImplementsRecords

\* What was true at a knowledge version stays what it was, and a rollback brings it back
\* (control/knowledge.py, KnowledgeGraph_proofs).
THEOREM RollbackKeepsPast == Graph!Spec => PastKept
<1>1. Graph!Spec => Graph!PastKept
  BY RecordsAssumption, Graph!GraphKeepsPast
<1>2. QED
  BY <1>1 DEF PastKept

\* Current entities depend, without cycles, on current entities (control/knowledge.py,
\* KnowledgeGraph_proofs).
THEOREM DependenciesStaySound == Graph!Spec => []DependenciesSound
<1>1. Graph!Spec => []Graph!DependenciesSound
  BY RecordsAssumption, Graph!GraphKeepsDependencies
<1>2. QED
  BY <1>1 DEF DependenciesSound

\* The mutants of what a pull request names are answered for when it is merged
\* (scripts/mutation_scope.py, scripts/mutation_gate.py, MutationGate_proofs).
THEOREM GateMergesAnswered == Gate!Spec => MergedAnswered
<1>1. Gate!Spec => Gate!MergedAnswered
  BY RecordsAssumption, Gate!MergedAnsweredAlways
<1>2. QED
  BY <1>1 DEF MergedAnswered

-----------------------------------------------------------------------------
\* The canonical claims

ClaimRecords ==
  [subject: Subjects, value: Values, authority: Authorities, verified: BOOLEAN,
   disposition: Claiming!Dispositions]

\* Canonical claims about a subject agree.
Agree ==
  \A n, m \in DOMAIN claims :
    /\ claims[n].subject = claims[m].subject
    /\ claims[n].disposition = "CANONICAL" /\ claims[m].disposition = "CANONICAL"
    => claims[n].value = claims[m].value

ClaimsInv ==
  /\ claims \in Seq(ClaimRecords)
  /\ retired \subseteq Subjects
  /\ proof \in {"current", "moved", "marked"}
  /\ claiming \in [Writers -> Claiming!Stated \cup {Missing}]
  /\ Agree

\* Every claim is a record of its type, at one of the places counted.
LEMMA ClaimTypes ==
  ASSUME ClaimsInv
  PROVE  /\ Len(claims) \in Nat /\ DOMAIN claims = 1..Len(claims)
         /\ \A n \in 1..Len(claims) : claims[n] \in ClaimRecords
BY LenProperties, ElementOfSeq DEF ClaimsInv

\* The types are part of the invariant.
LEMMA ClaimsTypesOK == ClaimsInv => Claiming!TypeOK
BY ClaimTypes DEF ClaimsInv, Claiming!TypeOK, ClaimRecords

\* The instance counts as its module does.
LEMMA ClaimingCounts == \A S : Claiming!Cardinality(S) = Cardinality(S)
BY DEF Claiming!Cardinality, Cardinality

\* Canonical claims that agree have one value or none.
LEMMA AgreeIsOneTruth == Agree => Claiming!OneTruth
<1> SUFFICES ASSUME Agree, NEW s \in Subjects
             PROVE  Cardinality({claims[n].value : n \in Claiming!Canonical(s)}) <= 1
  BY ClaimingCounts DEF Claiming!OneTruth
<1>1. CASE Claiming!Canonical(s) = {}
  <2>1. {claims[n].value : n \in Claiming!Canonical(s)} = {}
    BY <1>1
  <2>2. QED
    BY <2>1, FS_EmptySet
<1>2. CASE Claiming!Canonical(s) # {}
  <2>1. PICK m \in Claiming!Canonical(s) : TRUE
    BY <1>2
  <2>2. {claims[n].value : n \in Claiming!Canonical(s)} = {claims[m].value}
    BY <2>1 DEF Claiming!Canonical, Agree
  <2>3. Cardinality({claims[m].value}) = 1
    BY FS_Singleton
  <2>4. Cardinality({claims[n].value : n \in Claiming!Canonical(s)}) = 1
    BY <2>2, <2>3, Zenon
  <2>5. QED
    BY <2>4
<1>3. QED
  BY <1>1, <1>2

\* What was claimed before and does not yield stands beside the new claim only if it
\* agrees with it.
LEMMA ClaimStep ==
  ASSUME ClaimsInv, NEW c \in Writers, Claiming!Claim(c)
  PROVE  ClaimsInv' /\ Claiming!NotDisplacedFromBelow
<1> DEFINE d == claiming[c]
           L == Len(claims)
           added == [subject |-> d.subject, value |-> d.value, authority |-> d.authority,
                     verified |-> d.verified, disposition |-> Claiming!Disposition(d)]
           lower == IF Claiming!BecomesCanonical(d) THEN "SUPERSEDED" ELSE "CONFLICTING"
           kept(n) == IF n \in Claiming!Yielding(d)
                      THEN [claims[n] EXCEPT !.disposition = lower] ELSE claims[n]
<1>1. /\ d \in Claiming!Stated
      /\ claims' = Append([n \in DOMAIN claims |-> kept(n)], added)
      /\ claiming' = [claiming EXCEPT ![c] = Missing] /\ UNCHANGED <<retired, proof>>
  BY DEF Claiming!Claim, ClaimsInv
<1>2. L \in Nat /\ DOMAIN claims = 1..L /\ \A n \in 1..L : claims[n] \in ClaimRecords
  BY ClaimTypes
<1>3. added \in ClaimRecords
  BY <1>1 DEF Claiming!Stated, ClaimRecords, Claiming!Disposition, Claiming!Dispositions
<1>4. lower \in Claiming!Dispositions /\ lower # "CANONICAL"
  BY DEF Claiming!Dispositions
<1>5. \A n \in 1..L : kept(n) \in ClaimRecords
  BY <1>2, <1>4 DEF ClaimRecords
<1> HIDE DEF kept, lower, added, d
<1>6. /\ [n \in DOMAIN claims |-> kept(n)] \in Seq(ClaimRecords)
      /\ Len([n \in DOMAIN claims |-> kept(n)]) = L
  BY <1>2, <1>5
<1>7. /\ claims' \in Seq(ClaimRecords) /\ Len(claims') = L + 1
      /\ \A n \in 1..L : claims'[n] = kept(n)
      /\ claims'[L + 1] = added
  BY <1>1, <1>2, <1>3, <1>6, AppendProperties
<1>8. DOMAIN claims' = 1..(L + 1)
  BY <1>7, LenProperties
<1>9. ASSUME NEW n \in 1..L
      PROVE  /\ kept(n).subject = claims[n].subject /\ kept(n).value = claims[n].value
             /\ kept(n).disposition = "CANONICAL" =>
                  n \notin Claiming!Yielding(d) /\ claims[n].disposition = "CANONICAL"
             /\ n \notin Claiming!Yielding(d) => kept(n) = claims[n]
  BY <1>2, <1>4 DEF kept, ClaimRecords
<1>10. added.subject = d.subject /\ added.value = d.value /\ added.authority = d.authority
       /\ (added.disposition = "CANONICAL" => Claiming!BecomesCanonical(d))
  BY DEF added, Claiming!Disposition
<1>11. ASSUME NEW n \in 1..L, Claiming!BecomesCanonical(d), claims[n].subject = d.subject,
              claims[n].disposition = "CANONICAL", n \notin Claiming!Yielding(d)
       PROVE  claims[n].value = d.value
  <2>1. n \in Claiming!Conflicts(d) => ~(Rank[claims[n].authority] >= Rank[d.authority])
    BY <1>11 DEF Claiming!BecomesCanonical, Claiming!Outranked
  <2>2. Rank[claims[n].authority] \in Nat /\ Rank[d.authority] \in Nat
    BY <1>1, <1>2, RecordsAssumption DEF Claiming!ClaimsAssumption, ClaimRecords, Claiming!Stated
  <2>3. n \notin Claiming!Conflicts(d)
    BY <1>11, <2>1, <2>2 DEF Claiming!Yielding
  <2>4. QED
    BY <1>2, <1>11, <2>3 DEF Claiming!Conflicts, Claiming!Standing
<1>12. Agree'
  <2> SUFFICES ASSUME NEW n \in 1..(L + 1), NEW m \in 1..(L + 1),
                      claims'[n].subject = claims'[m].subject,
                      claims'[n].disposition = "CANONICAL", claims'[m].disposition = "CANONICAL"
               PROVE  claims'[n].value = claims'[m].value
    BY <1>8 DEF Agree
  <2>1. CASE n \in 1..L /\ m \in 1..L
    BY <1>2, <1>7, <1>9, <2>1 DEF ClaimsInv, Agree
  <2>2. CASE n = L + 1 /\ m \in 1..L
    BY <1>2, <1>7, <1>9, <1>10, <1>11, <2>2
  <2>3. CASE n \in 1..L /\ m = L + 1
    BY <1>2, <1>7, <1>9, <1>10, <1>11, <2>3
  <2>4. QED
    BY <1>2, <2>1, <2>2, <2>3
<1>13. Claiming!NotDisplacedFromBelow
  <2> SUFFICES ASSUME NEW n \in 1..L, claims[n].disposition = "CANONICAL",
                      claims'[n].disposition # "CANONICAL"
               PROVE  \E m \in 1..(L + 1) :
                        /\ m \notin 1..L \/ claims'[m].disposition = "CANONICAL"
                        /\ Rank[claims'[m].authority] >= Rank[claims[n].authority]
    BY <1>2, <1>8 DEF Claiming!NotDisplacedFromBelow
  <2>1. n \in Claiming!Yielding(d)
    BY <1>7, <1>9
  <2>2. Rank[claims[n].authority] <= Rank[d.authority]
    BY <2>1 DEF Claiming!Yielding
  <2>3. Rank[claims[n].authority] \in Nat /\ Rank[d.authority] \in Nat
    BY <1>1, <1>2, RecordsAssumption DEF Claiming!ClaimsAssumption, ClaimRecords, Claiming!Stated
  <2>4. L + 1 \in 1..(L + 1) /\ L + 1 \notin 1..L /\ claims'[L + 1].authority = d.authority
    BY <1>2, <1>7, <1>10
  <2>5. QED
    BY <2>2, <2>3, <2>4
<1>14. QED
  BY <1>1, <1>7, <1>12, <1>13 DEF ClaimsInv

\* The owner's decision leaves one canonical claim, and no authority is above the owner.
LEMMA ResolveStep ==
  ASSUME ClaimsInv, NEW k \in DOMAIN claims, Claiming!ResolveClaim(k)
  PROVE  ClaimsInv' /\ Claiming!NotDisplacedFromBelow
<1> DEFINE L == Len(claims)
           next(n) == IF n = k THEN [claims[n] EXCEPT !.disposition = "CANONICAL", !.authority = Owner,
                                                      !.verified = FALSE]
                      ELSE IF claims[n].subject = claims[k].subject
                      THEN [claims[n] EXCEPT !.disposition = "SUPERSEDED"] ELSE claims[n]
<1>1. L \in Nat /\ DOMAIN claims = 1..L /\ \A n \in 1..L : claims[n] \in ClaimRecords
  BY ClaimTypes
<1>2. claims' = [n \in 1..L |-> next(n)] /\ UNCHANGED <<retired, proof, claiming>>
  BY <1>1 DEF Claiming!ResolveClaim
<1>3. Owner \in Authorities /\ {"CANONICAL", "SUPERSEDED"} \subseteq Claiming!Dispositions
  BY RecordsAssumption DEF Claiming!ClaimsAssumption, Claiming!Dispositions
<1>4. ASSUME NEW n \in 1..L
      PROVE  /\ next(n) \in ClaimRecords
             /\ next(n).subject = claims[n].subject /\ next(n).value = claims[n].value
             /\ n = k => next(n).authority = Owner /\ next(n).disposition = "CANONICAL"
             /\ n # k /\ claims[n].subject = claims[k].subject => next(n).disposition = "SUPERSEDED"
             /\ n # k /\ claims[n].subject # claims[k].subject => next(n) = claims[n]
  BY <1>1, <1>3 DEF ClaimRecords
<1> HIDE DEF next
<1>5. claims' \in Seq(ClaimRecords) /\ DOMAIN claims' = 1..L /\ \A n \in 1..L : claims'[n] = next(n)
  BY <1>1, <1>2, <1>4
<1>6. Agree'
  <2> SUFFICES ASSUME NEW n \in 1..L, NEW m \in 1..L,
                      claims'[n].subject = claims'[m].subject,
                      claims'[n].disposition = "CANONICAL", claims'[m].disposition = "CANONICAL"
               PROVE  claims'[n].value = claims'[m].value
    BY <1>5 DEF Agree
  <2>1. CASE claims[n].subject = claims[k].subject
    BY <1>1, <1>4, <1>5, <2>1
  <2>2. CASE claims[n].subject # claims[k].subject
    BY <1>1, <1>4, <1>5, <2>2 DEF ClaimsInv, Agree
  <2>3. QED
    BY <2>1, <2>2
<1>7. Claiming!NotDisplacedFromBelow
  <2> SUFFICES ASSUME NEW n \in 1..L, claims[n].disposition = "CANONICAL",
                      claims'[n].disposition # "CANONICAL"
               PROVE  /\ claims'[k].disposition = "CANONICAL"
                      /\ Rank[claims'[k].authority] >= Rank[claims[n].authority]
    BY <1>1, <1>5 DEF Claiming!NotDisplacedFromBelow
  <2>1. claims[n].authority \in Authorities
    BY <1>1 DEF ClaimRecords
  <2>2. Rank[claims[n].authority] <= Rank[Owner] /\ Rank[claims[n].authority] \in Nat /\ Rank[Owner] \in Nat
    BY <1>3, <2>1, RecordsAssumption DEF Claiming!ClaimsAssumption
  <2>3. QED
    BY <1>1, <1>4, <1>5, <2>2
<1>8. QED
  BY <1>2, <1>5, <1>6, <1>7 DEF ClaimsInv

\* What loses its foundation is canonical no longer, and nothing becomes so.
LEMMA MarkStep ==
  ASSUME ClaimsInv, Claiming!MarkClaims
  PROVE  ClaimsInv' /\ Claiming!NotDisplacedFromBelow
<1> DEFINE L == Len(claims)
           next(n) == IF claims[n].disposition = "CANONICAL" /\ Claiming!Unfounded(claims[n])
                      THEN [claims[n] EXCEPT !.disposition = "STALE"] ELSE claims[n]
<1>1. L \in Nat /\ DOMAIN claims = 1..L /\ \A n \in 1..L : claims[n] \in ClaimRecords
  BY ClaimTypes
<1>2. claims' = [n \in 1..L |-> next(n)] /\ UNCHANGED <<retired, proof, claiming>>
  BY <1>1 DEF Claiming!MarkClaims
<1>3. ASSUME NEW n \in 1..L
      PROVE  /\ next(n) \in ClaimRecords
             /\ next(n).subject = claims[n].subject /\ next(n).value = claims[n].value
             /\ next(n).disposition = "CANONICAL" => claims[n].disposition = "CANONICAL"
             /\ ~Claiming!Unfounded(claims[n]) => next(n) = claims[n]
  BY <1>1 DEF ClaimRecords, Claiming!Dispositions
<1> HIDE DEF next
<1>4. claims' \in Seq(ClaimRecords) /\ DOMAIN claims' = 1..L /\ \A n \in 1..L : claims'[n] = next(n)
  BY <1>1, <1>2, <1>3
<1>5. Agree'
  BY <1>1, <1>3, <1>4 DEF Agree, ClaimsInv
<1>6. Claiming!NotDisplacedFromBelow
  BY <1>1, <1>3, <1>4 DEF Claiming!NotDisplacedFromBelow
<1>7. QED
  BY <1>2, <1>4, <1>5, <1>6 DEF ClaimsInv

\* Steps that leave the claims alone.
LEMMA ClaimsKept ==
  ASSUME ClaimsInv, UNCHANGED claims, retired' \subseteq Subjects,
         proof' \in {"current", "moved", "marked"},
         claiming' \in [Writers -> Claiming!Stated \cup {Missing}]
  PROVE  ClaimsInv' /\ Claiming!NotDisplacedFromBelow
BY DEF ClaimsInv, Agree, Claiming!NotDisplacedFromBelow

\* Nothing was claimed yet.
LEMMA ClaimsInit == Claiming!Init => ClaimsInv
<1> SUFFICES ASSUME Claiming!Init PROVE ClaimsInv
  OBVIOUS
<1>1. claims = << >> /\ DOMAIN claims = {} /\ claims \in Seq(ClaimRecords)
  BY DEF Claiming!Init
<1>2. QED
  BY <1>1 DEF Claiming!Init, ClaimsInv, Agree

\* Every step keeps the invariant, and none displaces a truth from below.
LEMMA ClaimsNext ==
  ClaimsInv /\ [Claiming!Next]_(Claiming!vars) => ClaimsInv' /\ Claiming!NotDisplacedFromBelow
<1> SUFFICES ASSUME ClaimsInv, [Claiming!Next]_(Claiming!vars)
             PROVE  ClaimsInv' /\ Claiming!NotDisplacedFromBelow
  OBVIOUS
<1>1. CASE UNCHANGED Claiming!vars
  BY <1>1, ClaimsKept DEF Claiming!vars, ClaimsInv
<1>2. ASSUME NEW c \in Writers, Claiming!Claim(c)
      PROVE  ClaimsInv' /\ Claiming!NotDisplacedFromBelow
  BY <1>2, ClaimStep
<1>3. ASSUME NEW c \in Writers, NEW d \in Claiming!Stated, Claiming!Examine(c, d)
      PROVE  ClaimsInv' /\ Claiming!NotDisplacedFromBelow
  BY <1>3, ClaimsKept DEF Claiming!Examine, ClaimsInv
<1>4. ASSUME NEW k \in DOMAIN claims, Claiming!ResolveClaim(k)
      PROVE  ClaimsInv' /\ Claiming!NotDisplacedFromBelow
  BY <1>4, ResolveStep
<1>5. ASSUME NEW s \in Subjects, Claiming!Retire(s)
      PROVE  ClaimsInv' /\ Claiming!NotDisplacedFromBelow
  BY <1>5, ClaimsKept DEF Claiming!Retire, ClaimsInv
<1>6. CASE Claiming!InputsMove \/ Claiming!MarkEvidence
  BY <1>6, ClaimsKept DEF Claiming!InputsMove, Claiming!MarkEvidence, ClaimsInv
<1>7. CASE Claiming!MarkClaims
  BY <1>7, MarkStep
<1>8. QED
  BY <1>1, <1>2, <1>3, <1>4, <1>5, <1>6, <1>7 DEF Claiming!Next

\* In whatever order claims, owner decisions and invalidations come, records keep their types
\* and the canonical claims about a subject agree.
THEOREM ClaimsInvariant == Claiming!Spec => [](Claiming!TypeOK /\ Claiming!OneTruth)
<1>1. ClaimsInv => Claiming!TypeOK /\ Claiming!OneTruth
  BY ClaimsTypesOK, AgreeIsOneTruth DEF ClaimsInv
<1>2. QED
  BY <1>1, ClaimsInit, ClaimsNext, PTL DEF Claiming!Spec

\* What is canonical is one truth, and a founded one yields only to an authority as high or
\* to the owner (control/knowledge.py, claim and resolve_claim).
THEOREM ClaimsKeepOneTruth == Claiming!Spec => OneTruthByAuthority
<1>1. ClaimsInv /\ [Claiming!Next]_(Claiming!vars)
        => ClaimsInv' /\ (Claiming!OneTruth' /\ Claiming!NotDisplacedFromBelow)
  <2>1. ClaimsInv' => Claiming!OneTruth'
    BY AgreeIsOneTruth, PTL DEF ClaimsInv
  <2>2. QED
    BY <2>1, ClaimsNext
<1>2. QED
  BY <1>1, ClaimsInit, PTL DEF Claiming!Spec, OneTruthByAuthority, Claiming!OneTruthByAuthority

-----------------------------------------------------------------------------
\* The evidence ledger

\* Who is past the lock has it; what was formed comes next in a readable ledger; what was
\* written is there.
LedgerInv ==
  /\ Ledger!TypeOK /\ Ledger!LedgerSound
  /\ \A p \in Clients : writer[p].at \in {"locked", "formed", "written"} => lock = p
  /\ \A p \in Clients : writer[p].at = "formed" =>
       /\ Ledger!Readable(lines)
       /\ \E a \in Artifacts : writer[p].record = Ledger!NextRecord(lines, Len(lines), a)
  /\ \A p \in Clients : writer[p].at = "written" =>
       writer[p].record \in Ledger!Records /\ \E n \in DOMAIN lines : lines[n] = writer[p].record

\* A finite set of places has a last one.
LEMMA LastPlace ==
  ASSUME NEW last \in Nat, NEW W \in SUBSET (1..last), W # {}
  PROVE  \E n \in W : \A m \in W : m <= n
<1> DEFINE T == {last - n : n \in W}
<1>1. T \in SUBSET Nat /\ T # {}
  <2>1. ASSUME NEW n \in W PROVE last - n \in Nat
    <3>1. n \in 1..last
      OBVIOUS
    <3>2. QED
      BY <3>1
  <2>2. QED
    BY <2>1
<1>2. PICK x \in T : \A y \in T : x <= y
  <2> HIDE DEF T
  <2>1. QED
    BY <1>1, Graph!LeastNatural
<1>3. PICK n \in W : x = last - n
  BY <1>2
<1>4. ASSUME NEW m \in W PROVE m <= n
  <2>1. last - n <= last - m
    BY <1>2, <1>3
  <2>2. m \in 1..last /\ n \in 1..last
    OBVIOUS
  <2>3. QED
    BY <2>1, <2>2
<1>5. QED
  BY <1>4

\* What comes next depends on what was read only.
LEMMA SameNext ==
  ASSUME NEW s, NEW t, NEW last \in Int, \A n \in 1..last : t[n] = s[n], NEW a
  PROVE  /\ Ledger!ReadRecords(t, last) = Ledger!ReadRecords(s, last)
         /\ Ledger!NextRecord(t, last, a) = Ledger!NextRecord(s, last, a)
<1>1. Ledger!ReadRecords(t, last) = Ledger!ReadRecords(s, last)
  BY DEF Ledger!ReadRecords
<1> DEFINE W == Ledger!ReadRecords(s, last)
           n == CHOOSE n \in W : \A m \in W : m <= n
<1>2. W \subseteq 1..last
  BY DEF Ledger!ReadRecords
<1>3. ASSUME W # {}, last \in Nat PROVE t[n] = s[n]
  <2>1. n \in W
    <3> HIDE DEF W
    <3>1. \E k \in W : \A m \in W : m <= k
      BY <1>2, <1>3, LastPlace
    <3>2. QED
      BY <3>1
  <2>2. QED
    BY <1>2, <2>1
<1>4. W # {} => last \in Nat
  BY <1>2
<1>5. Ledger!HeadHash(t, W) = Ledger!HeadHash(s, W)
  BY <1>3, <1>4 DEF Ledger!HeadHash
<1>6. QED
  BY <1>1, <1>5 DEF Ledger!NextRecord

\* The instance counts as its module does.
LEMMA LedgerCounts == \A S : Ledger!Cardinality(S) = Cardinality(S)
BY DEF Ledger!Cardinality, Cardinality

\* The next record is a record.
LEMMA NextType ==
  ASSUME NEW s \in Seq(Ledger!Tokens), NEW a \in Artifacts
  PROVE  /\ Ledger!NextRecord(s, Len(s), a) \in Ledger!Records
         /\ Ledger!NextRecord(s, Len(s), a).artifact = a
         /\ Ledger!NextRecord(s, Len(s), a).kind = "record"
<1> DEFINE W == Ledger!ReadRecords(s, Len(s))
           n == CHOOSE n \in W : \A m \in W : m <= n
<1>1. /\ Len(s) \in Nat /\ W \subseteq 1..Len(s)
      /\ \A m \in W : s[m] \in Ledger!Tokens /\ s[m].kind = "record"
  BY DEF Ledger!ReadRecords
<1>2. Cardinality(W) \in Nat
  <2> HIDE DEF W
  <2>1. IsFiniteSet(1..Len(s))
    BY <1>1, FS_Interval
  <2>2. QED
    BY <1>1, <2>1, FS_Subset, FS_CardinalityType
<1>3. Ledger!HeadHash(s, W) \in Seq(Nat \X Artifacts)
  <2>1. CASE W = {}
    BY <2>1, EmptySeq DEF Ledger!HeadHash
  <2>2. CASE W # {}
    <3>1. n \in W
      <4> HIDE DEF W
      <4>1. \E k \in W : \A m \in W : m <= k
        BY <1>1, <2>2, LastPlace
      <4>2. QED
        BY <4>1
    <3>2. s[n] \in Ledger!Records
      BY <1>1, <3>1 DEF Ledger!Tokens, Ledger!EndOfLine, Ledger!Fragment
    <3> HIDE DEF n
    <3>3. /\ s[n].previous \in Seq(Nat \X Artifacts)
          /\ <<s[n].sequence, s[n].artifact>> \in Nat \X Artifacts
      BY <3>2 DEF Ledger!Records
    <3>4. Ledger!RecordHash(s[n]) \in Seq(Nat \X Artifacts)
      BY <3>3, AppendProperties DEF Ledger!RecordHash
    <3>5. QED
      BY <2>2, <3>4 DEF Ledger!HeadHash, n
  <2>3. QED
    BY <2>1, <2>2
<1> HIDE DEF W, n
<1>4. Ledger!NextRecord(s, Len(s), a) = Ledger!RecordOf(Cardinality(W) + 1, a, Ledger!HeadHash(s, W))
  BY LedgerCounts DEF Ledger!NextRecord, W
<1>5. QED
  BY <1>2, <1>3, <1>4 DEF Ledger!RecordOf, Ledger!Records

\* A token behind a sound ledger keeps the chain, if a record is the one that comes next.
LEMMA AppendVerified ==
  ASSUME NEW s \in Seq(Ledger!Tokens), NEW x \in Ledger!Tokens, Ledger!VerifyLedger(s),
         x.kind = "record" => x = Ledger!NextRecord(s, Len(s), x.artifact)
  PROVE  /\ Append(s, x) \in Seq(Ledger!Tokens) /\ Ledger!VerifyLedger(Append(s, x))
         /\ Len(Append(s, x)) = Len(s) + 1 /\ Append(s, x)[Len(s) + 1] = x
         /\ \A n \in 1..Len(s) : Append(s, x)[n] = s[n]
<1> DEFINE t == Append(s, x)
<1>1. /\ t \in Seq(Ledger!Tokens) /\ Len(t) = Len(s) + 1 /\ t[Len(s) + 1] = x /\ Len(s) \in Nat
      /\ \A n \in 1..Len(s) : t[n] = s[n]
  BY AppendProperties
<1> HIDE DEF t
<1>2. ASSUME NEW n \in Ledger!ReadRecords(t, Len(t))
      PROVE  t[n] = Ledger!NextRecord(t, n - 1, t[n].artifact)
  <2>1. n \in 1..(Len(s) + 1) /\ t[n].kind = "record"
    BY <1>1 DEF Ledger!ReadRecords
  <2>2. /\ n - 1 \in Int
        /\ \A m \in 1..(n - 1) : t[m] = s[m]
    BY <1>1, <2>1
  <2>3. Ledger!NextRecord(t, n - 1, t[n].artifact) = Ledger!NextRecord(s, n - 1, t[n].artifact)
    BY <2>2, SameNext
  <2>4. CASE n \in 1..Len(s)
    <3>1. t[n] = s[n] /\ n \in Ledger!ReadRecords(s, Len(s))
      BY <1>1, <2>1, <2>4 DEF Ledger!ReadRecords
    <3>2. QED
      BY <2>3, <3>1 DEF Ledger!VerifyLedger
  <2>5. CASE n = Len(s) + 1
    <3>1. t[n] = x /\ n - 1 = Len(s)
      BY <1>1, <2>5
    <3>2. QED
      BY <2>1, <2>3, <3>1
  <2>6. QED
    BY <1>1, <2>1, <2>4, <2>5
<1>3. Ledger!VerifyLedger(t)
  BY <1>2 DEF Ledger!VerifyLedger
<1>4. QED
  BY <1>1, <1>3 DEF t

\* A file that goes on with (a part of) a record, and keeps what was in it.
Continued(f, r, left) ==
  /\ f \in Seq(Ledger!Tokens) /\ Ledger!VerifyLedger(f)
  /\ \A n \in DOMAIN lines : n \in DOMAIN f /\ f[n] = lines[n]
  /\ \A n \in DOMAIN f : f[n].kind = "fragment" => n = Len(f)
  /\ left = <<r, Ledger!EndOfLine>> => \E n \in DOMAIN f : f[n] = r

\* Whatever part of a write reaches the file, the chain holds and only the end is damaged.
LEMMA WriteKeepsChain ==
  ASSUME LedgerInv, NEW p \in Clients, writer[p].at = "formed",
         NEW left \in Ledger!Torn(writer[p].record), NEW f, f = lines \o left
  PROVE  Continued(f, writer[p].record, left)
<1> DEFINE r == writer[p].record
           L == Len(lines)
<1>1. /\ lines \in Seq(Ledger!Tokens) /\ L \in Nat /\ DOMAIN lines = 1..L
      /\ Ledger!VerifyLedger(lines)
      /\ \A n \in 1..L : lines[n].kind # "fragment"
  BY DEF LedgerInv, Ledger!TypeOK, Ledger!LedgerSound, Ledger!OneChain, Ledger!Readable
<1>2. r \in Ledger!Records /\ r.kind = "record" /\ r = Ledger!NextRecord(lines, L, r.artifact)
  <2>1. PICK a \in Artifacts : r = Ledger!NextRecord(lines, L, a)
    BY DEF LedgerInv
  <2>2. QED
    BY <1>1, <2>1, NextType
<1>3. /\ r \in Ledger!Tokens /\ Ledger!EndOfLine \in Ledger!Tokens /\ Ledger!Fragment \in Ledger!Tokens
      /\ Ledger!EndOfLine.kind = "newline" /\ Ledger!Fragment.kind = "fragment"
  BY <1>2 DEF Ledger!Tokens, Ledger!EndOfLine, Ledger!Fragment
<1> HIDE DEF r
<1> DEFINE g == Append(lines, r)
<1>4. /\ g \in Seq(Ledger!Tokens) /\ Ledger!VerifyLedger(g) /\ Len(g) = L + 1 /\ g[L + 1] = r
      /\ \A n \in 1..L : g[n] = lines[n]
  BY <1>1, <1>2, <1>3, AppendVerified
<1>5. DOMAIN g = 1..(L + 1) /\ \A n \in 1..(L + 1) : g[n].kind # "fragment"
  <2>1. DOMAIN g = 1..(L + 1)
    BY <1>4
  <2> HIDE DEF g
  <2>2. ASSUME NEW n \in 1..(L + 1) PROVE g[n].kind # "fragment"
    <3>1. n \in 1..L \/ n = L + 1
      BY <1>1
    <3>2. QED
      BY <1>1, <1>2, <1>4, <3>1
  <2>3. QED
    BY <2>1, <2>2
<1>6. CASE left = << >>
  <2>1. f = lines
    BY <1>1, <1>6, ConcatEmptySeq
  <2>2. left # <<r, Ledger!EndOfLine>>
    BY <1>6
  <2>3. QED
    BY <1>1, <2>1, <2>2 DEF r, Continued
<1>7. CASE left = <<Ledger!Fragment>>
  <2>1. f = Append(lines, Ledger!Fragment)
    BY <1>1, <1>3, <1>7, AppendIsConcat
  <2>2. /\ f \in Seq(Ledger!Tokens) /\ Ledger!VerifyLedger(f) /\ Len(f) = L + 1
        /\ \A n \in 1..L : f[n] = lines[n]
    BY <1>1, <1>3, <2>1, AppendVerified
  <2>3. left # <<r, Ledger!EndOfLine>>
    BY <1>7
  <2>4. DOMAIN f = 1..(L + 1)
    BY <2>2
  <2>5. \A n \in DOMAIN f : f[n].kind = "fragment" => n = Len(f)
    BY <1>1, <2>2, <2>4
  <2>6. QED
    BY <1>1, <2>2, <2>3, <2>4, <2>5 DEF r, Continued
<1>8. CASE left = <<r>>
  <2>1. f = g
    BY <1>1, <1>3, <1>8, AppendIsConcat
  <2>2. left # <<r, Ledger!EndOfLine>>
    BY <1>8
  <2> HIDE DEF g
  <2>3. QED
    BY <1>1, <1>4, <1>5, <2>1, <2>2 DEF r, Continued
<1>9. CASE left = <<r, Ledger!EndOfLine>>
  <2>1. f = Append(g, Ledger!EndOfLine)
    BY <1>1, <1>3, <1>9, AppendIsConcat
  <2> HIDE DEF g
  <2>2. /\ f \in Seq(Ledger!Tokens) /\ Ledger!VerifyLedger(f)
        /\ Len(f) = L + 2 /\ f[L + 2] = Ledger!EndOfLine
        /\ \A n \in 1..(L + 1) : f[n] = g[n]
    BY <1>1, <1>3, <1>4, <2>1, AppendVerified
  <2>3. DOMAIN f = 1..(L + 2)
    BY <2>2
  <2>4. \A n \in DOMAIN f : f[n].kind # "fragment"
    BY <1>1, <1>3, <1>5, <2>2, <2>3
  <2>5. L + 1 \in DOMAIN f /\ f[L + 1] = r
    BY <1>1, <1>4, <2>2, <2>3
  <2>6. \A n \in DOMAIN lines : n \in DOMAIN f /\ f[n] = lines[n]
    BY <1>1, <1>4, <2>2, <2>3
  <2>7. QED
    BY <2>2, <2>4, <2>5, <2>6 DEF r, Continued
<1>10. QED
  BY <1>6, <1>7, <1>8, <1>9 DEF Ledger!Torn, r, Continued

\* A step that leaves the file alone, takes no record nobody wrote, and gives no other writer
\* a place behind the lock.
LEMMA FileStands ==
  ASSUME LedgerInv, UNCHANGED lines, NEW p \in Clients,
         NEW w \in [at: Ledger!Places, record: Ledger!Records \cup {Missing}],
         writer' = [writer EXCEPT ![p] = w],
         lock' \in Clients \cup {"dead", Missing},
         \A q \in Clients \ {p} : lock = q => lock' = q,
         w.at \in {"locked", "formed", "written"} => lock' = p,
         w.at = "formed" =>
           /\ Ledger!Readable(lines)
           /\ \E a \in Artifacts : w.record = Ledger!NextRecord(lines, Len(lines), a),
         w.at = "written" => w.record \in Ledger!Records /\ \E n \in DOMAIN lines : lines[n] = w.record,
         acked' \subseteq acked \cup {r \in Ledger!Records : \E n \in DOMAIN lines : lines[n] = r}
  PROVE  LedgerInv'
<1>1. Ledger!TypeOK'
  BY DEF LedgerInv, Ledger!TypeOK
<1>2. Ledger!LedgerSound'
  BY DEF LedgerInv, Ledger!LedgerSound, Ledger!OneChain, Ledger!NothingBehindDamage
<1>3. writer'[p] = w /\ \A q \in Clients \ {p} : writer'[q] = writer[q]
  BY DEF LedgerInv, Ledger!TypeOK
<1>4. \A q \in Clients : writer'[q].at \in {"locked", "formed", "written"} => lock' = q
  BY <1>3 DEF LedgerInv
<1>5. \A q \in Clients : writer'[q].at = "formed" =>
        /\ Ledger!Readable(lines)
        /\ \E a \in Artifacts : writer'[q].record = Ledger!NextRecord(lines, Len(lines), a)
  BY <1>3 DEF LedgerInv
<1>6. \A q \in Clients : writer'[q].at = "written" =>
        writer'[q].record \in Ledger!Records /\ \E n \in DOMAIN lines : lines[n] = writer'[q].record
  BY <1>3 DEF LedgerInv
<1>7. QED
  BY <1>1, <1>2, <1>4, <1>5, <1>6 DEF LedgerInv

\* A write of the writer that has the lock, whole or torn.
LEMMA FileGrows ==
  ASSUME LedgerInv, NEW p \in Clients, writer[p].at = "formed",
         NEW left \in Ledger!Torn(writer[p].record), lines' = lines \o left,
         NEW w \in [at: Ledger!Places, record: Ledger!Records \cup {Missing}],
         writer' = [writer EXCEPT ![p] = w], lock' \in Clients \cup {"dead", Missing},
         w.at \in {"idle", "written"},
         w.at = "written" => /\ lock' = p /\ w.record = writer[p].record
                             /\ left = <<writer[p].record, Ledger!EndOfLine>>,
         UNCHANGED acked
  PROVE  LedgerInv'
<1>1. /\ lines' \in Seq(Ledger!Tokens) /\ Ledger!VerifyLedger(lines')
      /\ \A n \in DOMAIN lines : n \in DOMAIN lines' /\ lines'[n] = lines[n]
      /\ \A n \in DOMAIN lines' : lines'[n].kind = "fragment" => n = Len(lines')
      /\ left = <<writer[p].record, Ledger!EndOfLine>> =>
           \E n \in DOMAIN lines' : lines'[n] = writer[p].record
  <2>1. PICK f : f = lines \o left
    OBVIOUS
  <2>2. Continued(f, writer[p].record, left)
    BY <2>1, WriteKeepsChain
  <2>3. lines' = f
    BY <2>1
  <2>4. QED
    BY <2>2, <2>3 DEF Continued
<1>2. Ledger!TypeOK'
  BY <1>1 DEF LedgerInv, Ledger!TypeOK
<1>3. Ledger!VerifyLedger(lines)'
  BY <1>1 DEF Ledger!VerifyLedger, Ledger!ReadRecords, Ledger!NextRecord, Ledger!HeadHash
<1>4. Ledger!LedgerSound'
  BY <1>1, <1>3 DEF LedgerInv, Ledger!LedgerSound, Ledger!OneChain, Ledger!NothingBehindDamage
<1>5. writer'[p] = w /\ \A q \in Clients \ {p} : writer'[q] = writer[q]
  BY DEF LedgerInv, Ledger!TypeOK
<1>6. \A q \in Clients \ {p} : writer[q].at \notin {"locked", "formed", "written"}
  BY DEF LedgerInv
<1>7. \A q \in Clients : writer'[q].at \in {"locked", "formed", "written"} => q = p /\ w.at = "written"
  BY <1>5, <1>6
<1>8. writer[p].record \in Ledger!Records
  <2>1. PICK a \in Artifacts : writer[p].record = Ledger!NextRecord(lines, Len(lines), a)
    BY DEF LedgerInv
  <2>2. QED
    BY <2>1, NextType DEF LedgerInv, Ledger!TypeOK
<1>9. QED
  BY <1>1, <1>2, <1>4, <1>5, <1>7, <1>8 DEF LedgerInv

\* Nothing was written yet.
LEMMA LedgerStart == Ledger!Init => LedgerInv
<1> SUFFICES ASSUME Ledger!Init PROVE LedgerInv
  OBVIOUS
<1>1. lines = << >> /\ Len(lines) = 0 /\ DOMAIN lines = {}
  BY DEF Ledger!Init
<1>2. lines \in Seq(Ledger!Tokens)
  BY <1>1, EmptySeq
<1>3. Ledger!TypeOK
  BY <1>2 DEF Ledger!Init, Ledger!TypeOK, Ledger!Idle, Ledger!Places
<1>4. Ledger!VerifyLedger(lines)
  BY <1>1 DEF Ledger!VerifyLedger, Ledger!ReadRecords
<1>5. Ledger!LedgerSound
  BY <1>1, <1>4 DEF Ledger!Init, Ledger!LedgerSound, Ledger!OneChain, Ledger!NothingBehindDamage
<1>6. QED
  BY <1>3, <1>5 DEF Ledger!Init, LedgerInv, Ledger!Idle

\* One case an action.
LEMMA LedgerStep == LedgerInv /\ [Ledger!Next]_(Ledger!vars) => LedgerInv'
<1> SUFFICES ASSUME LedgerInv, [Ledger!Next]_(Ledger!vars) PROVE LedgerInv'
  OBVIOUS
<1>0. /\ Ledger!Idle \in [at: Ledger!Places, record: Ledger!Records \cup {Missing}]
      /\ Ledger!Idle.at = "idle"
      /\ \A q \in Clients : writer[q] \in [at: Ledger!Places, record: Ledger!Records \cup {Missing}]
      /\ "dead" \notin Clients /\ Missing \notin Clients /\ Missing # "dead"
  BY RecordsAssumption DEF Ledger!Idle, Ledger!Places, LedgerInv, Ledger!TypeOK,
        Ledger!LedgerAssumption
<1>1. CASE UNCHANGED Ledger!vars
  <2>1. Ledger!TypeOK'
    BY <1>1 DEF Ledger!vars, LedgerInv, Ledger!TypeOK
  <2>2. Ledger!LedgerSound'
    BY <1>1 DEF Ledger!vars, LedgerInv, Ledger!LedgerSound, Ledger!OneChain,
          Ledger!NothingBehindDamage
  <2>3. QED
    BY <1>1, <2>1, <2>2 DEF Ledger!vars, LedgerInv
<1>2. CASE Ledger!RemoveLock
  <2>1. \A q \in Clients : writer[q].at \notin {"locked", "formed", "written"}
    BY <1>0, <1>2 DEF Ledger!RemoveLock, LedgerInv
  <2>2. Ledger!TypeOK'
    BY <1>2 DEF Ledger!RemoveLock, LedgerInv, Ledger!TypeOK
  <2>3. Ledger!LedgerSound'
    BY <1>2 DEF Ledger!RemoveLock, LedgerInv, Ledger!LedgerSound, Ledger!OneChain,
          Ledger!NothingBehindDamage
  <2>4. QED
    BY <1>2, <2>1, <2>2, <2>3 DEF Ledger!RemoveLock, LedgerInv
<1>3. ASSUME NEW p \in Clients, Ledger!Start(p) PROVE LedgerInv'
  <2> DEFINE w == [writer[p] EXCEPT !.at = "waiting"]
  <2>1. /\ w \in [at: Ledger!Places, record: Ledger!Records \cup {Missing}] /\ w.at = "waiting"
        /\ writer' = [writer EXCEPT ![p] = w]
    BY <1>0, <1>3 DEF Ledger!Start, Ledger!Places
  <2> HIDE DEF w
  <2>2. lock \in Clients \cup {"dead", Missing}
    BY DEF LedgerInv, Ledger!TypeOK
  <2>3. QED
    BY <1>3, <2>1, <2>2, FileStands DEF Ledger!Start
<1>4. ASSUME NEW p \in Clients, Ledger!Acquire(p) PROVE LedgerInv'
  <2> DEFINE w == [writer[p] EXCEPT !.at = "locked"]
  <2>1. /\ w \in [at: Ledger!Places, record: Ledger!Records \cup {Missing}] /\ w.at = "locked"
        /\ writer' = [writer EXCEPT ![p] = w]
    BY <1>0, <1>4 DEF Ledger!Acquire, Ledger!Places
  <2> HIDE DEF w
  <2>2. lock = Missing /\ lock' = p /\ UNCHANGED <<lines, acked>>
    BY <1>4 DEF Ledger!Acquire
  <2>3. \A q \in Clients \ {p} : lock = q => lock' = q
    BY <1>0, <2>2
  <2>4. QED
    BY <2>1, <2>2, <2>3, FileStands
<1>5. ASSUME NEW p \in Clients, Ledger!TimeOut(p) PROVE LedgerInv'
  <2>1. lock \in Clients \cup {"dead", Missing}
    BY DEF LedgerInv, Ledger!TypeOK
  <2>2. QED
    BY <1>0, <1>5, <2>1, FileStands DEF Ledger!TimeOut
<1>6. ASSUME NEW p \in Clients, Ledger!Refuse(p) PROVE LedgerInv'
  <2>1. lock = p
    BY <1>6 DEF Ledger!Refuse, LedgerInv
  <2>2. QED
    BY <1>0, <1>6, <2>1, FileStands DEF Ledger!Refuse
<1>7. ASSUME NEW p \in Clients, NEW a \in Artifacts, Ledger!Form(p, a) PROVE LedgerInv'
  <2> DEFINE w == [at |-> "formed", record |-> Ledger!NextRecord(lines, Len(lines), a)]
  <2>1. lock = p
    BY <1>7 DEF Ledger!Form, LedgerInv
  <2>2. Ledger!NextRecord(lines, Len(lines), a) \in Ledger!Records
    BY NextType DEF LedgerInv, Ledger!TypeOK
  <2>3. /\ w \in [at: Ledger!Places, record: Ledger!Records \cup {Missing}] /\ w.at = "formed"
        /\ w.record = Ledger!NextRecord(lines, Len(lines), a)
        /\ writer' = [writer EXCEPT ![p] = w]
    BY <1>7, <2>2 DEF Ledger!Form, Ledger!Places
  <2> HIDE DEF w
  <2>4. QED
    BY <1>7, <2>1, <2>3, FileStands DEF Ledger!Form
<1>8. ASSUME NEW p \in Clients, Ledger!Write(p) PROVE LedgerInv'
  <2> DEFINE w == [writer[p] EXCEPT !.at = "written"]
  <2>1. /\ w \in [at: Ledger!Places, record: Ledger!Records \cup {Missing}] /\ w.at = "written"
        /\ w.record = writer[p].record /\ writer' = [writer EXCEPT ![p] = w]
    BY <1>0, <1>8 DEF Ledger!Write, Ledger!Places
  <2> HIDE DEF w
  <2>2. lock = p /\ <<writer[p].record, Ledger!EndOfLine>> \in Ledger!Torn(writer[p].record)
    BY <1>8 DEF Ledger!Write, LedgerInv, Ledger!Torn
  <2>3. QED
    BY <1>8, <2>1, <2>2, FileGrows DEF Ledger!Write
<1>9. ASSUME NEW p \in Clients, Ledger!WriteFails(p) PROVE LedgerInv'
  BY <1>0, <1>9, FileGrows DEF Ledger!WriteFails
<1>10. ASSUME NEW p \in Clients, Ledger!Return(p) PROVE LedgerInv'
  <2>1. /\ lock = p /\ writer[p].record \in Ledger!Records
        /\ \E n \in DOMAIN lines : lines[n] = writer[p].record
    BY <1>10 DEF Ledger!Return, LedgerInv
  <2>2. QED
    BY <1>0, <1>10, <2>1, FileStands DEF Ledger!Return
<1>11. ASSUME NEW p \in Clients, Ledger!Killed(p) PROVE LedgerInv'
  <2>1. lock' \in Clients \cup {"dead", Missing} /\ \A q \in Clients \ {p} : lock = q => lock' = q
    BY <1>11 DEF Ledger!Killed, LedgerInv, Ledger!TypeOK
  <2>2. CASE writer[p].at = "formed"
    BY <1>0, <1>11, <2>1, <2>2, FileGrows DEF Ledger!Killed
  <2>3. CASE writer[p].at # "formed"
    BY <1>0, <1>11, <2>1, <2>3, FileStands DEF Ledger!Killed
  <2>4. QED
    BY <2>2, <2>3
<1>12. QED
  BY <1>1, <1>2, <1>3, <1>4, <1>5, <1>6, <1>7, <1>8, <1>9, <1>10, <1>11
        DEF Ledger!Next, Ledger!Step

\* Whatever fails or is killed, the ledger is one chain that holds every acknowledged record,
\* up to a damaged last line (evidence.py, append_evidence and verify_ledger).
THEOREM LedgerStaysSound == Ledger!Spec => []LedgerSound
<1>1. LedgerInv => LedgerSound
  BY DEF LedgerInv, LedgerSound
<1>2. QED
  BY <1>1, LedgerStart, LedgerStep, PTL DEF Ledger!Spec

-----------------------------------------------------------------------------
\* The verifier registry

\* Calls of the registry, by what they hold.
RegisterCalls == [op: {"register"}, id: Ids, pc: {"make", "copy", "read"},
                  contract: Verifiers!Contracts]
WriteCalls == [op: {"register", "protect"}, id: Ids, pc: {"write", "fill"},
               read: Verifiers!Registries, trust: {"DRAFT", "VALIDATED", "PROTECTED"}]
RunCalls == [op: {"execute"}, id: Ids, pc: {"run"}]
ResultCalls == [op: {"execute"}, id: Ids, pc: {"result", "append"}, status: Verifiers!Statuses]

VerifierCalls == RegisterCalls \cup WriteCalls \cup RunCalls \cup ResultCalls

\* A run that appends to the ledger has written its result.
VerifierTypes ==
  /\ Verifiers!TypeOK
  /\ verifying \in [Clients -> VerifierCalls \cup {Missing}]
  /\ \A p \in Clients : Verifiers!At(p, "append") =>
       artifact[verifying[p].id] \in Verifiers!Statuses

\* p has made the directory of id and did not yet read the registry.
Entering(p, id) ==
  /\ Verifiers!At(p, "copy") \/ Verifiers!At(p, "read")
  /\ verifying[p].id = id

\* p is about to write a registry with id in it.
Writing(p, id) ==
  /\ Verifiers!At(p, "write") \/ Verifiers!At(p, "fill")
  /\ verifying[p].id = id \/ verifying[p].read[id] # Missing

Known(id) == registry[id] # Missing \/ \E p \in Clients : Writing(p, id)

\* What is in the registry, or about to be, has its package; what is being copied is not,
\* and one call copies it.  All that as long as nobody takes the package away.
VerifierInv ==
  /\ VerifierTypes
  /\ \A id \in Ids \ removed :
       /\ Known(id) => package[id] \in Verifiers!Contracts
       /\ \A p \in Clients : Entering(p, id) =>
            /\ package[id] # "none" /\ ~Known(id)
            /\ Verifiers!At(p, "read") => package[id] \in Verifiers!Contracts
            /\ \A q \in Clients : Entering(q, id) => q = p

USE DEF Verifiers!Contracts, Verifiers!Proven

\* The kind of a call is told by where it stands.
LEMMA VerifierCallKinds ==
  ASSUME VerifierTypes, NEW p \in Clients, ~Verifiers!Idle(p)
  PROVE  /\ verifying[p].pc \in {"make", "copy", "read"} => verifying[p] \in RegisterCalls
         /\ verifying[p].pc \in {"write", "fill"} => verifying[p] \in WriteCalls
         /\ verifying[p].pc \in {"run"} => verifying[p] \in RunCalls
         /\ verifying[p].pc \in {"result", "append"} => verifying[p] \in ResultCalls
<1>1. verifying[p] \in VerifierCalls
  BY DEF VerifierTypes, Verifiers!Idle
<1>2. CASE verifying[p] \in RegisterCalls
  BY <1>2 DEF RegisterCalls
<1>3. CASE verifying[p] \in WriteCalls
  BY <1>3 DEF WriteCalls
<1>4. CASE verifying[p] \in RunCalls
  BY <1>4 DEF RunCalls
<1>5. CASE verifying[p] \in ResultCalls
  BY <1>5 DEF ResultCalls
<1>6. QED
  BY <1>1, <1>2, <1>3, <1>4, <1>5 DEF VerifierCalls

\* No step of a call, of an owner or of a kill loses a type.
LEMMA VerifierTypesStep == VerifierTypes /\ [Verifiers!Next]_(Verifiers!vars) => VerifierTypes'
<1> SUFFICES ASSUME VerifierTypes, [Verifiers!Next]_(Verifiers!vars) PROVE VerifierTypes'
  OBVIOUS
<1> USE DEF Verifiers!TypeOK
<1>0. /\ package \in [Ids -> Verifiers!Contracts \cup {"none", "partial"}]
      /\ registry \in Verifiers!Registries /\ torn \in BOOLEAN
      /\ artifact \in [Ids -> Verifiers!Statuses \cup {Missing}]
      /\ ledger \subseteq [id: Ids, exit: Verifiers!Statuses, held: Verifiers!Statuses]
      /\ removed \subseteq Ids /\ happened \in 0..MaxCalls
      /\ verifying \in [Clients -> VerifierCalls \cup {Missing}]
      /\ MaxCalls \in Nat
  BY RecordsAssumption DEF VerifierTypes, Verifiers!RegistryAssumption
<1>1. CASE UNCHANGED Verifiers!vars
  BY <1>1 DEF Verifiers!vars, VerifierTypes, Verifiers!At, Verifiers!Idle
<1>2. ASSUME NEW p \in Clients, NEW c \in VerifierCalls \cup {Missing},
             verifying' = [verifying EXCEPT ![p] = c],
             c # Missing /\ c.pc = "append" => artifact'[c.id] \in Verifiers!Statuses,
             \A id \in Ids : artifact[id] \in Verifiers!Statuses => artifact'[id] \in Verifiers!Statuses,
             Verifiers!TypeOK'
      PROVE  VerifierTypes'
  <2>1. verifying' \in [Clients -> VerifierCalls \cup {Missing}]
    BY <1>0, <1>2
  <2>2. ASSUME NEW q \in Clients, Verifiers!At(q, "append")'
        PROVE  artifact'[verifying'[q].id] \in Verifiers!Statuses
    <3>1. CASE q = p
      BY <1>0, <1>2, <2>2, <3>1 DEF Verifiers!At, Verifiers!Idle
    <3>2. CASE q # p
      <4>1. Verifiers!At(q, "append") /\ verifying'[q] = verifying[q]
        BY <1>0, <1>2, <2>2, <3>2 DEF Verifiers!At, Verifiers!Idle
      <4>2. verifying[q].id \in Ids
        BY <4>1, VerifierCallKinds DEF Verifiers!At, ResultCalls
      <4>3. QED
        BY <1>2, <4>1, <4>2 DEF VerifierTypes
    <3>3. QED
      BY <3>1, <3>2
  <2>3. QED
    BY <1>2, <2>1, <2>2 DEF VerifierTypes
<1>3. ASSUME Verifiers!TypeOK', UNCHANGED <<verifying, artifact>>
      PROVE  VerifierTypes'
  BY <1>3 DEF VerifierTypes, Verifiers!At, Verifiers!Idle
<1>5. ASSUME NEW p \in Clients, Verifiers!Ends(p), UNCHANGED artifact, Verifiers!TypeOK'
      PROVE  VerifierTypes'
  BY <1>2, <1>5 DEF Verifiers!Ends
<1>6. ASSUME NEW p \in Clients, NEW id \in Ids, NEW contract \in {"draft", "proven"},
             Verifiers!StartRegister(p, id, contract)
      PROVE  VerifierTypes'
  <2> DEFINE c == [op |-> "register", id |-> id, pc |-> "make", contract |-> contract]
  <2>1. /\ c \in VerifierCalls /\ c.pc # "append"
    BY DEF VerifierCalls, RegisterCalls
  <2>2. verifying' = [verifying EXCEPT ![p] = c]
    BY <1>6 DEF Verifiers!StartRegister, Verifiers!Begins
  <2>3. Verifiers!TypeOK'
    BY <1>0, <1>6 DEF Verifiers!StartRegister, Verifiers!Begins, Verifiers!Event
  <2>4. UNCHANGED artifact
    BY <1>6 DEF Verifiers!StartRegister
  <2> HIDE DEF c
  <2>5. QED
    BY <1>2, <2>1, <2>2, <2>3, <2>4
<1>7. ASSUME NEW p \in Clients, Verifiers!MakeDirectory(p) PROVE VerifierTypes'
  <2> DEFINE c == [verifying[p] EXCEPT !.pc = "copy"]
  <2>1. verifying[p] \in RegisterCalls
    BY <1>7, VerifierCallKinds DEF Verifiers!MakeDirectory, Verifiers!At
  <2>2. c \in VerifierCalls /\ c.pc # "append" /\ verifying[p].id \in Ids
    BY <2>1 DEF VerifierCalls, RegisterCalls
  <2>3. Verifiers!TypeOK'
    BY <1>0, <1>7, <2>2 DEF Verifiers!MakeDirectory
  <2>4. Verifiers!Ends(p) \/ verifying' = [verifying EXCEPT ![p] = c]
    BY <1>0, <1>7 DEF Verifiers!MakeDirectory, Verifiers!Goes
  <2>5. UNCHANGED artifact
    BY <1>7 DEF Verifiers!MakeDirectory
  <2> HIDE DEF c
  <2>6. QED
    BY <1>2, <1>5, <2>2, <2>3, <2>4, <2>5
<1>8. ASSUME NEW p \in Clients, Verifiers!Copy(p) PROVE VerifierTypes'
  <2> DEFINE c == [verifying[p] EXCEPT !.pc = "read"]
  <2>1. verifying[p] \in RegisterCalls
    BY <1>8, VerifierCallKinds DEF Verifiers!Copy, Verifiers!At
  <2>2. c \in VerifierCalls /\ c.pc # "append" /\ verifying[p].id \in Ids
        /\ verifying[p].contract \in Verifiers!Contracts
    BY <2>1 DEF VerifierCalls, RegisterCalls
  <2>3. Verifiers!TypeOK'
    BY <1>0, <1>8, <2>2 DEF Verifiers!Copy
  <2>4. verifying' = [verifying EXCEPT ![p] = c] /\ UNCHANGED artifact
    BY <1>0, <1>8 DEF Verifiers!Copy, Verifiers!Goes
  <2> HIDE DEF c
  <2>5. QED
    BY <1>2, <2>2, <2>3, <2>4
<1>9. ASSUME NEW p \in Clients, Verifiers!ReadRegistry(p) PROVE VerifierTypes'
  <2> DEFINE c == [op |-> "register", id |-> verifying[p].id, pc |-> "write", read |-> registry,
                   trust |-> IF verifying[p].contract \in Verifiers!Proven
                             THEN "VALIDATED" ELSE "DRAFT"]
  <2>1. verifying[p] \in RegisterCalls
    BY <1>9, VerifierCallKinds DEF Verifiers!ReadRegistry, Verifiers!At
  <2>2. c \in VerifierCalls /\ c.pc # "append" /\ verifying[p].id \in Ids
    BY <1>0, <2>1 DEF VerifierCalls, RegisterCalls, WriteCalls
  <2>3. Verifiers!TypeOK'
    BY <1>0, <1>9, <2>2 DEF Verifiers!ReadRegistry
  <2>4. Verifiers!Ends(p) \/ verifying' = [verifying EXCEPT ![p] = c]
    BY <1>9 DEF Verifiers!ReadRegistry
  <2>5. UNCHANGED artifact
    BY <1>9 DEF Verifiers!ReadRegistry
  <2> HIDE DEF c
  <2>6. QED
    BY <1>2, <1>5, <2>2, <2>3, <2>4, <2>5
<1>10. ASSUME NEW p \in Clients, NEW id \in Ids, Verifiers!StartProtect(p, id)
       PROVE  VerifierTypes'
  <2> DEFINE c == [op |-> "protect", id |-> id, pc |-> "write", read |-> registry,
                   trust |-> "PROTECTED"]
  <2>1. c \in VerifierCalls /\ c.pc # "append"
    BY <1>0 DEF VerifierCalls, WriteCalls
  <2>2. verifying' = [verifying EXCEPT ![p] = c] /\ UNCHANGED artifact
    BY <1>10 DEF Verifiers!StartProtect, Verifiers!Begins
  <2>3. Verifiers!TypeOK'
    BY <1>0, <1>10 DEF Verifiers!StartProtect, Verifiers!Begins, Verifiers!Event
  <2> HIDE DEF c
  <2>4. QED
    BY <1>2, <2>1, <2>2, <2>3
<1>11. ASSUME NEW p \in Clients, NEW id \in Ids, Verifiers!Load(p, id) PROVE VerifierTypes'
  <2> DEFINE c == [op |-> "execute", id |-> id, pc |-> "run"]
  <2>1. c \in VerifierCalls /\ c.pc # "append"
    BY DEF VerifierCalls, RunCalls
  <2>2. verifying' = [verifying EXCEPT ![p] = c] /\ UNCHANGED artifact
    BY <1>11 DEF Verifiers!Load, Verifiers!Begins
  <2>3. Verifiers!TypeOK'
    BY <1>0, <1>11 DEF Verifiers!Load, Verifiers!Begins, Verifiers!Event
  <2> HIDE DEF c
  <2>4. QED
    BY <1>2, <2>1, <2>2, <2>3
<1>12. ASSUME NEW p \in Clients, Verifiers!Truncate(p) PROVE VerifierTypes'
  <2> DEFINE entry == [trust |-> verifying[p].trust, hash |-> package[verifying[p].id]]
             c == [verifying[p] EXCEPT !.pc = "fill", !.read[verifying[p].id] = entry]
  <2>1. verifying[p] \in WriteCalls
    BY <1>12, VerifierCallKinds DEF Verifiers!Truncate, Verifiers!At
  <2>2. CASE package[verifying[p].id] \in Verifiers!Contracts
    <3>1. entry \in Verifiers!Entry
      BY <2>1, <2>2 DEF WriteCalls, Verifiers!Entry
    <3>2. c \in VerifierCalls /\ c.pc # "append"
      BY <2>1, <3>1 DEF WriteCalls, VerifierCalls, Verifiers!Registries
    <3>3. verifying' = [verifying EXCEPT ![p] = c] /\ UNCHANGED artifact
      BY <1>0, <1>12, <2>2 DEF Verifiers!Truncate
    <3>4. Verifiers!TypeOK'
      BY <1>0, <1>12, <2>2 DEF Verifiers!Truncate
    <3> HIDE DEF c
    <3>5. QED
      BY <1>2, <3>2, <3>3, <3>4
  <2>3. CASE package[verifying[p].id] \notin Verifiers!Contracts
    BY <1>0, <1>5, <1>12, <2>3 DEF Verifiers!Truncate
  <2>4. QED
    BY <2>2, <2>3
<1>13. ASSUME NEW p \in Clients, Verifiers!Fill(p) PROVE VerifierTypes'
  <2>1. verifying[p] \in WriteCalls
    BY <1>13, VerifierCallKinds DEF Verifiers!Fill, Verifiers!At
  <2>2. torn' \in BOOLEAN
    BY <1>13 DEF Verifiers!Fill
  <2>3. registry' \in Verifiers!Registries
    BY <1>13, <2>1 DEF Verifiers!Fill, WriteCalls
  <2>4. /\ Verifiers!Ends(p) /\ UNCHANGED <<package, artifact, ledger, removed, happened>>
    BY <1>13 DEF Verifiers!Fill
  <2>5. Verifiers!TypeOK'
    BY <1>0, <2>2, <2>3, <2>4
  <2>6. QED
    BY <1>5, <2>4, <2>5
<1>14. ASSUME NEW p \in Clients, NEW status \in Verifiers!Statuses, Verifiers!Execute(p, status)
       PROVE  VerifierTypes'
  <2> DEFINE c == [op |-> "execute", id |-> verifying[p].id, pc |-> "result", status |-> status]
  <2>1. verifying[p] \in RunCalls
    BY <1>14, VerifierCallKinds DEF Verifiers!Execute, Verifiers!At
  <2>2. c \in VerifierCalls /\ c.pc # "append"
    BY <2>1 DEF RunCalls, VerifierCalls, ResultCalls
  <2>3. verifying' = [verifying EXCEPT ![p] = c] /\ UNCHANGED artifact
    BY <1>14 DEF Verifiers!Execute
  <2>4. Verifiers!TypeOK'
    BY <1>0, <1>14 DEF Verifiers!Execute
  <2> HIDE DEF c
  <2>5. QED
    BY <1>2, <2>2, <2>3, <2>4
<1>15. ASSUME NEW p \in Clients, Verifiers!WriteResult(p) PROVE VerifierTypes'
  <2> DEFINE c == [verifying[p] EXCEPT !.pc = "append"]
  <2>1. verifying[p] \in ResultCalls
    BY <1>15, VerifierCallKinds DEF Verifiers!WriteResult, Verifiers!At
  <2>2. /\ c \in VerifierCalls /\ c.id = verifying[p].id
        /\ verifying[p].id \in Ids /\ verifying[p].status \in Verifiers!Statuses
    BY <2>1 DEF VerifierCalls, ResultCalls
  <2>3. artifact' = [artifact EXCEPT ![verifying[p].id] = verifying[p].status]
    BY <1>15 DEF Verifiers!WriteResult
  <2>4. /\ artifact' \in [Ids -> Verifiers!Statuses \cup {Missing}]
        /\ artifact'[c.id] \in Verifiers!Statuses
        /\ \A id \in Ids : artifact[id] \in Verifiers!Statuses => artifact'[id] \in Verifiers!Statuses
    BY <1>0, <2>2, <2>3
  <2>5. Verifiers!TypeOK'
    BY <1>0, <1>15, <2>4 DEF Verifiers!WriteResult
  <2>6. verifying' = [verifying EXCEPT ![p] = Missing] \/ verifying' = [verifying EXCEPT ![p] = c]
    BY <1>0, <1>15 DEF Verifiers!WriteResult, Verifiers!Ends, Verifiers!Goes
  <2> HIDE DEF c
  <2>7. QED
    BY <1>2, <2>2, <2>4, <2>5, <2>6
<1>16. ASSUME NEW p \in Clients, Verifiers!Append(p) PROVE VerifierTypes'
  <2>1. verifying[p] \in ResultCalls
    BY <1>16, VerifierCallKinds DEF Verifiers!Append, Verifiers!At
  <2>2. artifact[verifying[p].id] \in Verifiers!Statuses
    BY <1>16 DEF Verifiers!Append, VerifierTypes
  <2>3. Verifiers!TypeOK'
    BY <1>0, <1>16, <2>1, <2>2 DEF Verifiers!Append, ResultCalls
  <2>4. Verifiers!Ends(p) /\ UNCHANGED artifact
    BY <1>16 DEF Verifiers!Append
  <2>5. QED
    BY <1>5, <2>3, <2>4
<1>17. ASSUME NEW p \in Clients, Verifiers!Kill(p) PROVE VerifierTypes'
  <2>1. Verifiers!TypeOK'
    BY <1>0, <1>17 DEF Verifiers!Kill, Verifiers!Event
  <2>2. QED
    BY <1>5, <1>17, <2>1 DEF Verifiers!Kill
<1>18. ASSUME NEW id \in Ids, Verifiers!Revise(id) \/ Verifiers!Remove(id) PROVE VerifierTypes'
  <2>1. UNCHANGED <<registry, torn, artifact, ledger, verifying>>
    BY <1>18 DEF Verifiers!Revise, Verifiers!Remove
  <2>2. package' \in [Ids -> Verifiers!Contracts \cup {"none", "partial"}]
    BY <1>0, <1>18 DEF Verifiers!Revise, Verifiers!Remove
  <2>3. removed' \subseteq Ids /\ happened' \in 0..MaxCalls
    BY <1>0, <1>18 DEF Verifiers!Revise, Verifiers!Remove, Verifiers!Event
  <2>4. Verifiers!TypeOK'
    BY <1>0, <2>1, <2>2, <2>3
  <2>5. QED
    BY <1>3, <2>1, <2>4
<1>19. QED
  BY <1>1, <1>6, <1>7, <1>8, <1>9, <1>10, <1>11, <1>12, <1>13, <1>14, <1>15, <1>16, <1>17, <1>18
  DEF Verifiers!Next

\* What one call does leaves the others where they are.
LEMMA OtherCallers ==
  ASSUME VerifierTypes, NEW p \in Clients, NEW c, verifying' = [verifying EXCEPT ![p] = c]
  PROVE  /\ verifying'[p] = c
         /\ \A q \in Clients \ {p} : \A pc : Verifiers!At(q, pc)' <=> Verifiers!At(q, pc)
         /\ \A q \in Clients \ {p}, id \in Ids : /\ Entering(q, id)' <=> Entering(q, id)
                                                 /\ Writing(q, id)' <=> Writing(q, id)
<1>1. verifying \in [Clients -> VerifierCalls \cup {Missing}]
  BY DEF VerifierTypes
<1>2. verifying'[p] = c /\ \A q \in Clients \ {p} : verifying'[q] = verifying[q]
  BY <1>1
<1>3. \A q \in Clients \ {p} : \A pc : Verifiers!At(q, pc)' <=> Verifiers!At(q, pc)
  BY <1>2 DEF Verifiers!At, Verifiers!Idle
<1>4. QED
  BY <1>2, <1>3 DEF Entering, Writing

\* Where a call stands after its step.
LEMMA StandsAt ==
  ASSUME VerifierTypes, NEW p \in Clients, NEW c, verifying' = [verifying EXCEPT ![p] = c]
  PROVE  /\ \A pc : Verifiers!At(p, pc)' <=> c # Missing /\ c.pc = pc
         /\ \A id \in Ids :
              /\ Entering(p, id)' <=> c # Missing /\ c.pc \in {"copy", "read"} /\ c.id = id
              /\ Writing(p, id)' <=> c # Missing /\ c.pc \in {"write", "fill"}
                                    /\ (c.id = id \/ c.read[id] # Missing)
<1>1. verifying'[p] = c
  BY OtherCallers
<1>2. \A pc : Verifiers!At(p, pc)' <=> c # Missing /\ c.pc = pc
  BY <1>1 DEF Verifiers!At, Verifiers!Idle
<1>3. QED
  BY <1>1, <1>2 DEF Entering, Writing

\* A call that goes on without entering or writing anything new, on packages that stay or
\* become whole, keeps the invariant.
LEMMA NothingNew ==
  ASSUME VerifierInv, VerifierTypes', NEW p \in Clients, NEW c,
         verifying' = [verifying EXCEPT ![p] = c],
         \A id \in Ids \ removed' :
           /\ registry'[id] # Missing => Known(id)
           /\ Writing(p, id)' => Known(id)
           /\ Entering(p, id)' => /\ Entering(p, id)
                                  /\ Verifiers!At(p, "read")' =>
                                       package'[id] \in Verifiers!Contracts
           /\ package[id] \in Verifiers!Contracts => package'[id] \in Verifiers!Contracts
           /\ package[id] # "none" => package'[id] # "none",
         removed \subseteq removed'
  PROVE  VerifierInv'
<1>1. SUFFICES ASSUME NEW id \in Ids \ removed'
               PROVE  /\ Known(id)' => package'[id] \in Verifiers!Contracts
                      /\ \A q \in Clients : Entering(q, id)' =>
                           /\ package'[id] # "none" /\ ~Known(id)'
                           /\ Verifiers!At(q, "read")' => package'[id] \in Verifiers!Contracts
                           /\ \A r \in Clients : Entering(r, id)' => r = q
  BY DEF VerifierInv
<1>2. id \in Ids \ removed
  OBVIOUS
<1>3. VerifierTypes
  BY DEF VerifierInv
<1>4. \A q \in Clients : Entering(q, id)' => Entering(q, id)
  BY <1>3, OtherCallers
<1>5. Known(id)' => Known(id)
  <2>1. \A q \in Clients : Writing(q, id)' => Known(id)
    BY <1>3, OtherCallers DEF Known
  <2>2. QED
    BY <2>1 DEF Known
<1>6. \A q \in Clients : Entering(q, id)' /\ Verifiers!At(q, "read")'
        => package'[id] \in Verifiers!Contracts
  <2>1. ASSUME NEW q \in Clients, q # p, Entering(q, id)', Verifiers!At(q, "read")'
        PROVE  package'[id] \in Verifiers!Contracts
    BY <1>2, <1>3, <1>4, <2>1, OtherCallers DEF VerifierInv
  <2>2. QED
    BY <2>1
<1>7. QED
  BY <1>2, <1>4, <1>5, <1>6 DEF VerifierInv

\* A call that ends, or executes a verifier, does neither.
LEMMA CallGone ==
  ASSUME VerifierInv, VerifierTypes', NEW p \in Clients, NEW c,
         verifying' = [verifying EXCEPT ![p] = c],
         c = Missing \/ c.pc \in {"make", "run", "result", "append"},
         \A id \in Ids \ removed' :
           /\ registry'[id] # Missing => Known(id)
           /\ package[id] \in Verifiers!Contracts => package'[id] \in Verifiers!Contracts
           /\ package[id] # "none" => package'[id] # "none",
         removed \subseteq removed'
  PROVE  VerifierInv'
<1>1. verifying'[p] = c
  BY OtherCallers DEF VerifierInv
<1>2. \A id \in Ids : ~Entering(p, id)' /\ ~Writing(p, id)'
  BY <1>1 DEF Entering, Writing, Verifiers!At, Verifiers!Idle
<1>3. QED
  BY <1>2, NothingNew

\* Every step keeps what the registry rests on.
LEMMA VerifierStep == VerifierInv /\ [Verifiers!Next]_(Verifiers!vars) => VerifierInv'
<1> SUFFICES ASSUME VerifierInv, [Verifiers!Next]_(Verifiers!vars) PROVE VerifierInv'
  OBVIOUS
<1>0. VerifierTypes /\ VerifierTypes'
  BY VerifierTypesStep DEF VerifierInv
<1>1. /\ package \in [Ids -> Verifiers!Contracts \cup {"none", "partial"}]
      /\ \A id \in Ids : registry[id] # Missing => Known(id)
  BY <1>0 DEF VerifierTypes, Verifiers!TypeOK, Known
<1>2. CASE UNCHANGED Verifiers!vars
  BY <1>0, <1>2 DEF VerifierInv, Verifiers!vars, Known, Entering, Writing, Verifiers!At,
    Verifiers!Idle
<1>3. ASSUME NEW p \in Clients, UNCHANGED <<package, registry, removed>>,
             NEW c, verifying' = [verifying EXCEPT ![p] = c],
             c = Missing \/ c.pc \in {"make", "run", "result", "append"}
      PROVE  VerifierInv'
  BY <1>0, <1>1, <1>3, CallGone
<1>4. ASSUME NEW p \in Clients, NEW id \in Ids, NEW contract \in {"draft", "proven"},
             Verifiers!StartRegister(p, id, contract)
      PROVE  VerifierInv'
  <2> DEFINE c == [op |-> "register", id |-> id, pc |-> "make", contract |-> contract]
  <2>1. /\ verifying' = [verifying EXCEPT ![p] = c] /\ UNCHANGED <<package, registry, removed>>
    BY <1>4 DEF Verifiers!StartRegister, Verifiers!Begins
  <2>2. c.pc = "make"
    OBVIOUS
  <2> HIDE DEF c
  <2>3. QED
    BY <1>3, <2>1, <2>2
<1>5. ASSUME NEW p \in Clients, Verifiers!MakeDirectory(p) PROVE VerifierInv'
  <2> DEFINE i == verifying[p].id
             c == [verifying[p] EXCEPT !.pc = "copy"]
  <2>1. verifying[p] \in RegisterCalls /\ UNCHANGED <<registry, removed>>
    BY <1>0, <1>5, VerifierCallKinds DEF Verifiers!MakeDirectory, Verifiers!At
  <2>2. i \in Ids
    BY <2>1 DEF RegisterCalls
  <2>3. CASE package[i] = "none"
    <3>1. /\ package' = [package EXCEPT ![i] = "partial"]
          /\ verifying' = [verifying EXCEPT ![p] = c]
      BY <1>5, <2>3 DEF Verifiers!MakeDirectory, Verifiers!Goes
    <3>2. c.pc = "copy" /\ c.id = i
      BY <2>1 DEF RegisterCalls
    <3> HIDE DEF c
    <3>3. /\ \A id \in Ids : ~Writing(p, id)' /\ (Entering(p, id)' => id = i)
          /\ ~Verifiers!At(p, "read")'
      <4>1. ~Verifiers!At(p, "read")'
        BY <1>0, <3>1, <3>2, StandsAt
      <4>2. ASSUME NEW id \in Ids PROVE ~Writing(p, id)' /\ (Entering(p, id)' => id = i)
        BY <1>0, <3>1, <3>2, StandsAt
      <4>3. QED
        BY <4>1, <4>2
    <3>4. package'[i] = "partial" /\ \A id \in Ids \ {i} : package'[id] = package[id]
      BY <1>1, <2>2, <3>1
    <3>5. SUFFICES ASSUME NEW id \in Ids \ removed
                   PROVE  /\ Known(id)' => package'[id] \in Verifiers!Contracts
                          /\ \A q \in Clients : Entering(q, id)' =>
                               /\ package'[id] # "none" /\ ~Known(id)'
                               /\ Verifiers!At(q, "read")' => package'[id] \in Verifiers!Contracts
                               /\ \A r \in Clients : Entering(r, id)' => r = q
      BY <1>0, <2>1 DEF VerifierInv
    <3>6. Known(id)' => Known(id)
      BY <1>0, <2>1, <3>1, <3>3, OtherCallers DEF Known
    <3>7. CASE id = i
      <4>1. ~Known(i) /\ \A q \in Clients : ~Entering(q, i)
        BY <2>3, <3>7 DEF VerifierInv
      <4>2. ASSUME NEW q \in Clients, q # p PROVE ~Entering(q, id)'
        BY <1>0, <3>1, <3>7, <4>1, <4>2, OtherCallers
      <4>3. ASSUME NEW q \in Clients, Entering(q, id)' PROVE q = p
        BY <4>2, <4>3
      <4>4. package'[i] # "none" /\ ~Known(id)'
        BY <3>4, <3>6, <3>7, <4>1
      <4>5. QED
        BY <3>3, <3>7, <4>3, <4>4
    <3>8. CASE id # i
      <4>1. \A q \in Clients : Entering(q, id)' => q # p /\ Entering(q, id)
        BY <1>0, <3>1, <3>3, <3>8, OtherCallers
      <4>2. \A q \in Clients \ {p} : Verifiers!At(q, "read")' => Verifiers!At(q, "read")
        BY <1>0, <3>1, OtherCallers
      <4>3. QED
        BY <3>4, <3>6, <3>8, <4>1, <4>2 DEF VerifierInv
    <3>9. QED
      BY <3>7, <3>8
  <2>4. CASE package[i] # "none"
    BY <1>3, <1>5, <2>1, <2>4 DEF Verifiers!MakeDirectory, Verifiers!Ends
  <2>5. QED
    BY <2>3, <2>4
<1>6. ASSUME NEW p \in Clients, Verifiers!Copy(p) PROVE VerifierInv'
  <2> DEFINE i == verifying[p].id
             c == [verifying[p] EXCEPT !.pc = "read"]
  <2>1. verifying[p] \in RegisterCalls /\ UNCHANGED <<registry, removed>>
        /\ Verifiers!At(p, "copy")
    BY <1>0, <1>6, VerifierCallKinds DEF Verifiers!Copy, Verifiers!At
  <2>2. i \in Ids /\ verifying[p].contract \in Verifiers!Contracts
    BY <2>1 DEF RegisterCalls
  <2>3. /\ package' = [package EXCEPT ![i] = verifying[p].contract]
        /\ verifying' = [verifying EXCEPT ![p] = c]
    BY <1>6 DEF Verifiers!Copy, Verifiers!Goes
  <2>4. c.pc = "read" /\ c.id = i
    BY <2>1 DEF RegisterCalls
  <2> HIDE DEF c
  <2>5. /\ \A id \in Ids : ~Writing(p, id)' /\ (Entering(p, id)' => id = i)
    BY <1>0, <2>3, <2>4, StandsAt
  <2>6. package'[i] \in Verifiers!Contracts /\ \A id \in Ids \ {i} : package'[id] = package[id]
    BY <1>1, <2>2, <2>3
  <2>7. Entering(p, i)
    BY <2>1 DEF Entering
  <2>8. QED
    BY <1>0, <1>1, <2>1, <2>3, <2>5, <2>6, <2>7, NothingNew
<1>7. ASSUME NEW p \in Clients, Verifiers!ReadRegistry(p) PROVE VerifierInv'
  <2> DEFINE i == verifying[p].id
             c == [op |-> "register", id |-> i, pc |-> "write", read |-> registry,
                   trust |-> IF verifying[p].contract \in Verifiers!Proven
                             THEN "VALIDATED" ELSE "DRAFT"]
  <2>1. /\ verifying[p] \in RegisterCalls /\ UNCHANGED <<registry, removed>>
        /\ Verifiers!At(p, "read") /\ Entering(p, i)
    BY <1>0, <1>7, VerifierCallKinds DEF Verifiers!ReadRegistry, Verifiers!At, Entering
  <2>2. i \in Ids
    BY <2>1 DEF RegisterCalls
  <2>3. CASE torn
    BY <1>3, <1>7, <2>1, <2>3 DEF Verifiers!ReadRegistry, Verifiers!Ends
  <2>4. CASE ~torn /\ registry[i] # Missing
    <3>1. /\ package' = [package EXCEPT ![i] = "none"]
          /\ verifying' = [verifying EXCEPT ![p] = Missing]
      BY <1>7, <2>4 DEF Verifiers!ReadRegistry, Verifiers!Ends
    <3>2. i \in removed
      BY <1>1, <2>1, <2>2, <2>4 DEF VerifierInv
    <3>3. \A id \in Ids \ removed : package'[id] = package[id]
      BY <1>1, <3>1, <3>2
    <3>4. QED
      BY <1>0, <1>1, <2>1, <3>1, <3>3, CallGone
  <2>5. CASE ~torn /\ registry[i] = Missing
    <3>1. verifying' = [verifying EXCEPT ![p] = c] /\ UNCHANGED package
      BY <1>7, <2>5 DEF Verifiers!ReadRegistry
    <3>2. c.pc = "write" /\ c.id = i /\ c.read = registry
      OBVIOUS
    <3> HIDE DEF c
    <3>3. \A id \in Ids : ~Entering(p, id)' /\ (Writing(p, id)' => id = i \/ Known(id))
      BY <1>0, <1>1, <3>1, <3>2, StandsAt
    <3>4. SUFFICES ASSUME NEW id \in Ids \ removed
                   PROVE  /\ Known(id)' => package[id] \in Verifiers!Contracts
                          /\ \A q \in Clients : Entering(q, id)' =>
                               /\ package[id] # "none" /\ ~Known(id)'
                               /\ Verifiers!At(q, "read")' => package[id] \in Verifiers!Contracts
                               /\ \A r \in Clients : Entering(r, id)' => r = q
      BY <1>0, <2>1, <3>1 DEF VerifierInv
    <3>5. \A q \in Clients : Entering(q, id)' => /\ q # p /\ Entering(q, id)
                                                 /\ Verifiers!At(q, "read")' => Verifiers!At(q, "read")
      BY <1>0, <3>1, <3>3, OtherCallers
    <3>6. Known(id)' => id = i \/ Known(id)
      <4>1. \A q \in Clients : Writing(q, id)' => id = i \/ Known(id)
        BY <1>0, <3>1, <3>3, OtherCallers DEF Known
      <4>2. QED
        BY <2>1, <4>1 DEF Known
    <3>7. CASE id = i
      <4>1. package[i] \in Verifiers!Contracts /\ \A q \in Clients : Entering(q, i) => q = p
        BY <2>1, <3>7 DEF VerifierInv
      <4>2. QED
        BY <3>5, <3>7, <4>1
    <3>8. CASE id # i
      BY <3>5, <3>6, <3>8 DEF VerifierInv
    <3>9. QED
      BY <3>7, <3>8
  <2>6. QED
    BY <2>3, <2>4, <2>5
<1>8. ASSUME NEW p \in Clients, NEW i \in Ids, Verifiers!StartProtect(p, i)
      PROVE  VerifierInv'
  <2> DEFINE c == [op |-> "protect", id |-> i, pc |-> "write", read |-> registry,
                   trust |-> "PROTECTED"]
  <2>1. /\ verifying' = [verifying EXCEPT ![p] = c] /\ UNCHANGED <<package, registry, removed>>
        /\ registry[i] # Missing
    BY <1>8 DEF Verifiers!StartProtect, Verifiers!Begins, Verifiers!Readable
  <2>2. c.pc = "write" /\ c.id = i /\ c.read = registry
    OBVIOUS
  <2> HIDE DEF c
  <2>3. \A id \in Ids : ~Entering(p, id)' /\ (Writing(p, id)' => Known(id))
    BY <1>0, <1>1, <2>1, <2>2, StandsAt
  <2>4. QED
    BY <1>0, <1>1, <2>1, <2>3, NothingNew
<1>9. ASSUME NEW p \in Clients, NEW i \in Ids, Verifiers!Load(p, i) PROVE VerifierInv'
  <2> DEFINE c == [op |-> "execute", id |-> i, pc |-> "run"]
  <2>1. /\ verifying' = [verifying EXCEPT ![p] = c] /\ UNCHANGED <<package, registry, removed>>
        /\ c.pc = "run"
    BY <1>9 DEF Verifiers!Load, Verifiers!Begins
  <2> HIDE DEF c
  <2>2. QED
    BY <1>3, <2>1
<1>10. ASSUME NEW p \in Clients, Verifiers!Truncate(p) PROVE VerifierInv'
  <2> DEFINE i == verifying[p].id
             entry == [trust |-> verifying[p].trust, hash |-> package[i]]
             c == [verifying[p] EXCEPT !.pc = "fill", !.read[i] = entry]
  <2>1. /\ verifying[p] \in WriteCalls /\ UNCHANGED <<package, registry, removed>>
        /\ Verifiers!At(p, "write")
    BY <1>0, <1>10, VerifierCallKinds DEF Verifiers!Truncate, Verifiers!At
  <2>2. CASE package[i] \in Verifiers!Contracts
    <3>1. verifying' = [verifying EXCEPT ![p] = c]
      BY <1>10, <2>2 DEF Verifiers!Truncate
    <3>2. /\ c.pc = "fill" /\ c.id = i
          /\ \A id \in Ids \ {i} : c.read[id] = verifying[p].read[id]
      BY <2>1 DEF WriteCalls, Verifiers!Registries
    <3> HIDE DEF c
    <3>3. \A id \in Ids : ~Entering(p, id)' /\ (Writing(p, id)' => Writing(p, id))
      BY <1>0, <2>1, <3>1, <3>2, OtherCallers DEF Writing, Entering, Verifiers!At, Verifiers!Idle
    <3>4. \A id \in Ids : Writing(p, id) => Known(id)
      BY DEF Known
    <3>5. QED
      BY <1>0, <1>1, <2>1, <3>1, <3>3, <3>4, NothingNew
  <2>3. CASE package[i] \notin Verifiers!Contracts
    BY <1>3, <1>10, <2>1, <2>3 DEF Verifiers!Truncate, Verifiers!Ends
  <2>4. QED
    BY <2>2, <2>3
<1>11. ASSUME NEW p \in Clients, Verifiers!Fill(p) PROVE VerifierInv'
  <2>1. /\ registry' = verifying[p].read /\ verifying' = [verifying EXCEPT ![p] = Missing]
        /\ UNCHANGED <<package, removed>> /\ Verifiers!At(p, "fill")
    BY <1>11 DEF Verifiers!Fill, Verifiers!Ends
  <2>2. \A id \in Ids : registry'[id] # Missing => Known(id)
    BY <2>1 DEF Known, Writing
  <2>3. QED
    BY <1>0, <2>1, <2>2, CallGone
<1>12. ASSUME NEW p \in Clients, NEW status \in Verifiers!Statuses, Verifiers!Execute(p, status)
       PROVE  VerifierInv'
  <2> DEFINE c == [op |-> "execute", id |-> verifying[p].id, pc |-> "result", status |-> status]
  <2>1. /\ verifying' = [verifying EXCEPT ![p] = c] /\ UNCHANGED <<package, registry, removed>>
        /\ c.pc = "result"
    BY <1>12 DEF Verifiers!Execute
  <2> HIDE DEF c
  <2>2. QED
    BY <1>3, <2>1
<1>13. ASSUME NEW p \in Clients, Verifiers!WriteResult(p) PROVE VerifierInv'
  <2> DEFINE c == [verifying[p] EXCEPT !.pc = "append"]
  <2>1. verifying[p] \in ResultCalls /\ UNCHANGED <<package, registry, removed>>
    BY <1>0, <1>13, VerifierCallKinds DEF Verifiers!WriteResult, Verifiers!At
  <2>2. c.pc = "append"
    BY <2>1 DEF ResultCalls
  <2>3. verifying' = [verifying EXCEPT ![p] = Missing] \/ verifying' = [verifying EXCEPT ![p] = c]
    BY <1>13 DEF Verifiers!WriteResult, Verifiers!Ends, Verifiers!Goes
  <2> HIDE DEF c
  <2>4. QED
    BY <1>3, <2>1, <2>2, <2>3
<1>14. ASSUME NEW p \in Clients, Verifiers!Append(p) \/ Verifiers!Kill(p) PROVE VerifierInv'
  BY <1>3, <1>14 DEF Verifiers!Append, Verifiers!Kill, Verifiers!Ends
<1>15. ASSUME NEW i \in Ids, Verifiers!Revise(i) \/ Verifiers!Remove(i) PROVE VerifierInv'
  <2>1. UNCHANGED <<registry, verifying>> /\ removed \subseteq removed'
    BY <1>15 DEF Verifiers!Revise, Verifiers!Remove
  <2>2. \A id \in Ids \ removed' :
          /\ package[id] \in Verifiers!Contracts => package'[id] \in Verifiers!Contracts
          /\ package[id] # "none" => package'[id] # "none"
    BY <1>1, <1>15 DEF Verifiers!Revise, Verifiers!Remove
  <2>3. \A id \in Ids, p \in Clients : \A pc :
          /\ Entering(p, id)' <=> Entering(p, id)
          /\ Verifiers!At(p, pc)' <=> Verifiers!At(p, pc)
    BY <2>1 DEF Entering, Verifiers!At, Verifiers!Idle
  <2>4. ASSUME NEW id \in Ids \ removed'
        PROVE  /\ Known(id)' => package'[id] \in Verifiers!Contracts
               /\ \A p \in Clients : Entering(p, id)' =>
                    /\ package'[id] # "none" /\ ~Known(id)'
                    /\ Verifiers!At(p, "read")' => package'[id] \in Verifiers!Contracts
                    /\ \A q \in Clients : Entering(q, id)' => q = p
    <3>1. id \in Ids \ removed
      BY <2>1, <2>4
    <3>2. Known(id) => package[id] \in Verifiers!Contracts
      BY <3>1 DEF VerifierInv
    <3>3. \A p \in Clients : Entering(p, id) =>
            /\ package[id] # "none" /\ ~Known(id)
            /\ Verifiers!At(p, "read") => package[id] \in Verifiers!Contracts
            /\ \A q \in Clients : Entering(q, id) => q = p
      BY <3>1 DEF VerifierInv
    <3>4. /\ package[id] \in Verifiers!Contracts => package'[id] \in Verifiers!Contracts
          /\ package[id] # "none" => package'[id] # "none"
      BY <2>2, <2>4
    <3>5. Known(id)' <=> Known(id)
      BY <2>1 DEF Known, Writing, Verifiers!At, Verifiers!Idle
    <3>6. ASSUME NEW p \in Clients, Entering(p, id)'
          PROVE  /\ package'[id] # "none" /\ ~Known(id)'
                 /\ Verifiers!At(p, "read")' => package'[id] \in Verifiers!Contracts
                 /\ \A q \in Clients : Entering(q, id)' => q = p
      <4>1. Entering(p, id) /\ (Verifiers!At(p, "read")' => Verifiers!At(p, "read"))
        BY <2>3, <2>4, <3>6
      <4>2. \A q \in Clients : Entering(q, id)' => Entering(q, id)
        BY <2>3, <2>4
      <4>3. QED
        BY <3>3, <3>4, <3>5, <4>1, <4>2
    <3>7. QED
      BY <3>2, <3>4, <3>5, <3>6
  <2>5. QED
    BY <1>0, <2>4 DEF VerifierInv
<1>16. QED
  BY <1>2, <1>4, <1>5, <1>6, <1>7, <1>8, <1>9, <1>10, <1>11, <1>12, <1>13, <1>14, <1>15
  DEF Verifiers!Next

\* Nothing is registered initially.
LEMMA VerifierInit == Verifiers!Init => VerifierInv
<1> SUFFICES ASSUME Verifiers!Init PROVE VerifierInv
  OBVIOUS
<1> USE DEF Verifiers!Init
<1>1. Verifiers!TypeOK
  <2>1. happened \in 0..MaxCalls
    BY RecordsAssumption DEF Verifiers!RegistryAssumption
  <2>2. torn \in BOOLEAN
    OBVIOUS
  <2>3. QED
    BY <2>1, <2>2 DEF Verifiers!TypeOK, Verifiers!Registries
<1>2. \A p \in Clients : \A pc : ~Verifiers!At(p, pc)
  BY DEF Verifiers!At, Verifiers!Idle
<1>3. VerifierTypes
  BY <1>1, <1>2 DEF VerifierTypes
<1>4. \A id \in Ids : ~Known(id) /\ \A p \in Clients : ~Entering(p, id)
  BY <1>2 DEF Known, Writing, Entering
<1>5. QED
  BY <1>3, <1>4 DEF VerifierInv

\* The invariant of the registry.
LEMMA VerifierInvariant == Verifiers!Spec => []VerifierInv
BY VerifierInit, VerifierStep, PTL DEF Verifiers!Spec

\* Whatever calls overlap or are killed, a verifier in the registry has its whole package,
\* unless somebody took the package away (verifier/registry.py, register_verifier).
THEOREM RegistryEntriesHavePackages == Verifiers!Spec => []EntriesHavePackages
<1>1. VerifierInv => EntriesHavePackages
  BY DEF VerifierInv, Known, EntriesHavePackages, Verifiers!EntriesHavePackages
<1>2. QED
  BY <1>1, VerifierInvariant, PTL

-----------------------------------------------------------------------------
\* The migration to the assurance engine

MigrationRecords == [from: {1, 2}, applied: BOOLEAN, covers: SUBSET Upgraded]

Migrating == [from: {1, 2}, todo: SUBSET Upgraded, done: SUBSET Upgraded,
              listed: BOOLEAN, alone: BOOLEAN]

\* An upgrade that no rollback cut across has reactivated everything before it compiles
\* the first task, and compiles none twice.
MigrationInv ==
  /\ schema \in {1, 2} /\ tasks \subseteq Upgraded /\ legacy \subseteq tasks
  /\ obligation \in [Upgraded -> {"none", "live", "reverted"}]
  /\ records \in Seq(MigrationRecords)
  /\ migrating \in Migrating \cup {Missing}
  /\ RunAgainRepairs

\* Every step keeps it: a rollback is the one that reverts, and it tells the upgrade.
LEMMA MigrationStep == MigrationInv /\ [Migration!Next]_(Migration!vars) => MigrationInv'
<1> SUFFICES ASSUME MigrationInv, [Migration!Next]_(Migration!vars) PROVE MigrationInv'
  OBVIOUS
<1> USE DEF MigrationInv, RunAgainRepairs, Migration!RunAgainRepairs
<1>1. CASE UNCHANGED Migration!vars
  BY <1>1 DEF Migration!vars
<1>2. CASE Migration!MigrateSwitch
  <2> DEFINE m == [from |-> schema, todo |-> {}, done |-> {}, listed |-> FALSE, alone |-> TRUE]
  <2>1. migrating' = m /\ UNCHANGED <<tasks, records>> /\ schema' = 2 /\ legacy' = tasks
        /\ obligation' = Migration!Reactivated
    BY <1>2 DEF Migration!MigrateSwitch
  <2>2. m \in Migrating /\ m.done = {}
    BY DEF Migrating
  <2> HIDE DEF m
  <2>3. /\ obligation' \in [Upgraded -> {"none", "live", "reverted"}]
        /\ \A t \in Upgraded : obligation'[t] # "reverted"
    BY <2>1 DEF Migration!Reactivated
  <2>4. QED
    BY <2>1, <2>2, <2>3
<1>3. CASE Migration!MigrateList
  <2> DEFINE m == [migrating EXCEPT !.todo = tasks, !.listed = TRUE]
  <2>1. /\ migrating' = m /\ migrating \in Migrating /\ migrating # Missing
        /\ UNCHANGED <<schema, tasks, obligation, legacy, records>>
    BY <1>3 DEF Migration!MigrateList
  <2>2. m \in Migrating /\ m.done = migrating.done /\ m.alone = migrating.alone
    BY <2>1 DEF Migrating
  <2> HIDE DEF m
  <2>3. QED
    BY <2>1, <2>2
<1>4. ASSUME NEW t \in Upgraded, Migration!MigrateCompile(t) PROVE MigrationInv'
  <2> DEFINE m == [migrating EXCEPT !.todo = @ \ {t}, !.done = @ \cup {t}]
  <2>1. /\ migrating' = m /\ migrating \in Migrating /\ migrating # Missing
        /\ UNCHANGED <<schema, tasks, legacy, records>>
        /\ obligation' = [obligation EXCEPT ![t] = "live"]
    BY <1>4 DEF Migration!MigrateCompile, Migration!Compiled
  <2>2. m \in Migrating /\ m.done = migrating.done \cup {t} /\ m.alone = migrating.alone
    BY <2>1 DEF Migrating
  <2> HIDE DEF m
  <2>3. /\ obligation' \in [Upgraded -> {"none", "live", "reverted"}]
        /\ obligation'[t] = "live" /\ \A u \in Upgraded \ {t} : obligation'[u] = obligation[u]
    BY <2>1
  <2>4. QED
    BY <2>1, <2>2, <2>3
<1>5. CASE Migration!MigrateRecord
  <2> DEFINE r == [from |-> migrating.from, applied |-> TRUE,
                   covers |-> {t \in Upgraded : obligation[t] # "none"}]
  <2>1. /\ records' = Append(records, r) /\ migrating' = Missing
        /\ migrating \in Migrating /\ UNCHANGED <<schema, tasks, obligation, legacy>>
    BY <1>5 DEF Migration!MigrateRecord
  <2>2. r \in MigrationRecords
    BY <2>1 DEF Migrating, MigrationRecords
  <2> HIDE DEF r
  <2>3. QED
    BY <2>1, <2>2, AppendProperties
<1>6. CASE Migration!MigrateCut
  BY <1>6 DEF Migration!MigrateCut
<1>7. ASSUME NEW n \in DOMAIN records, Migration!Rollback(n) PROVE MigrationInv'
  <2> DEFINE r == [records[n] EXCEPT !.applied = FALSE]
             m == [migrating EXCEPT !.alone = FALSE]
  <2>1. /\ records' = [records EXCEPT ![n] = r] /\ UNCHANGED <<tasks, legacy>>
        /\ schema' = records[n].from
        /\ migrating' = IF migrating = Missing THEN Missing ELSE m
        /\ obligation' = [t \in Upgraded |->
             IF t \in records[n].covers THEN "reverted" ELSE obligation[t]]
    BY <1>7 DEF Migration!Rollback
  <2>2. records[n] \in MigrationRecords
    BY ElementOfSeq
  <2>3. r \in MigrationRecords /\ schema' \in {1, 2}
    BY <2>1, <2>2 DEF MigrationRecords
  <2>4. migrating # Missing => m \in Migrating /\ ~m.alone
    BY DEF Migrating
  <2> HIDE DEF r, m
  <2>5. records' \in Seq(MigrationRecords)
    BY <2>1, <2>3, ExceptSeq
  <2>6. obligation' \in [Upgraded -> {"none", "live", "reverted"}]
    BY <2>1
  <2>7. migrating' \in Migrating \cup {Missing} /\ (migrating' # Missing => ~migrating'.alone)
    BY <2>1, <2>4
  <2>8. QED
    BY <2>1, <2>3, <2>5, <2>6, <2>7
<1>8. ASSUME NEW t \in Upgraded, Migration!CreateTask(t) PROVE MigrationInv'
  BY <1>8 DEF Migration!CreateTask
<1>9. ASSUME NEW t \in Upgraded, Migration!Plan(t) PROVE MigrationInv'
  BY <1>9 DEF Migration!Plan, Migration!Compiled
<1>10. QED
  BY <1>1, <1>2, <1>3, <1>4, <1>5, <1>6, <1>7, <1>8, <1>9 DEF Migration!Next

\* The project has no engine initially.
LEMMA MigrationInit == Migration!Init => MigrationInv
<1> SUFFICES ASSUME Migration!Init PROVE MigrationInv
  OBVIOUS
<1>1. tasks \subseteq Upgraded
  BY RecordsAssumption DEF Migration!Init, Migration!MigrationAssumption
<1>2. QED
  BY <1>1 DEF Migration!Init, MigrationInv, RunAgainRepairs, Migration!RunAgainRepairs

\* Whatever was cut short or rolled back before, an upgrade that no rollback cuts across meets
\* no reverted obligation and leaves what it went through governed (assurance/migration.py,
\* migrate and rollback).
THEOREM UpgradeRunsAgain == Migration!Spec => []RunAgainRepairs
<1>1. MigrationInv => RunAgainRepairs
  BY DEF MigrationInv
<1>2. QED
  BY <1>1, MigrationInit, MigrationStep, PTL DEF Migration!Spec

-----------------------------------------------------------------------------
\* The mutation campaigns

Results == {"KILLED", "SURVIVED", "TIMEOUT"}

Campaigns == [phase: {"planned", "copying", "testing"},
              previous: Campaign!Report \cup {Missing}, of: Versions, same: BOOLEAN,
              copied: SUBSET Slots, work: SUBSET Mutants, todo: SUBSET Mutants,
              results: SUBSET (Mutants \X Results), partial: BOOLEAN]

CampaignTypes ==
  /\ Campaign!TypeOK
  /\ campaign \in Campaigns \cup {Missing}

\* A copy holds the mutant tested in it; every mutant of the campaign waits, is tested or
\* has its result; a kill was measured, and so were those carried over from a whole report,
\* as long as the campaign found the same sources at every read.
CampaignSound ==
  campaign # Missing =>
    /\ \A w \in Slots : copy[w] = IF running[w] = Missing THEN {} ELSE {running[w]}
    /\ \A m \in campaign.work : \/ m \in campaign.todo
                                \/ \E w \in Slots : running[w] = m
                                \/ \E outcome \in Results : <<m, outcome>> \in campaign.results
    /\ campaign.todo \subseteq campaign.work
    /\ \A w \in Slots : running[w] # Missing => running[w] \in campaign.work
    /\ \A m \in Mutants : <<m, "KILLED">> \in campaign.results =>
         m \in campaign.work /\ (campaign.same => m \in Campaign!MeasuredOn(campaign.of))
    /\ campaign.phase = "planned" =>
         campaign.results = {} /\ \A w \in Slots : running[w] = Missing
    /\ campaign.phase # "planned" /\ ~campaign.partial =>
         IF campaign.previous = Missing
         THEN campaign.work = Mutants
         ELSE campaign.same /\ campaign.previous.whole /\ campaign.previous.accepted = {} =>
                Mutants \ campaign.work \subseteq Campaign!MeasuredOn(campaign.of)

\* A whole report has a digest and, over all mutants, leaves unresolved what was not measured.
Sound(r) ==
  r.whole =>
    /\ r.sources # Missing
    /\ ~r.partial => r.mutants = Cardinality(Mutants)
    /\ r.mutants = Cardinality(Mutants) /\ r.accepted = {} =>
         Mutants \ r.unresolved \subseteq Campaign!MeasuredOn(r.sources)

ReportSound ==
  /\ report # Missing => Sound(report)
  /\ campaign # Missing => (campaign.previous # Missing => Sound(campaign.previous))

CampaignInv ==
  /\ CampaignTypes /\ CampaignSound /\ ReportSound
  /\ ReportsMeasured

\* Sets of mutants are finite.
LEMMA MutantSets ==
  ASSUME NEW S \in SUBSET Mutants
  PROVE  /\ IsFiniteSet(S) /\ Cardinality(S) \in Nat /\ Cardinality(S) <= Cardinality(Mutants)
         /\ Cardinality(Mutants) \in Nat
         /\ Cardinality(Mutants \ S) = Cardinality(Mutants) - Cardinality(S)
         /\ \A T \in SUBSET S : Cardinality(T) <= Cardinality(S)
         /\ \A T \in SUBSET Mutants :
              /\ Cardinality(S \cup T) <= Cardinality(S) + Cardinality(T)
              /\ S \cap T = {} => Cardinality(S \cup T) = Cardinality(S) + Cardinality(T)
         /\ Cardinality(S) = Cardinality(Mutants) => S = Mutants
<1>1. IsFiniteSet(Mutants)
  BY RecordsAssumption DEF Campaign!CampaignAssumption, Campaign!IsFiniteSet, IsFiniteSet
<1>2. \A T \in SUBSET Mutants : IsFiniteSet(T) /\ Cardinality(T) \in Nat
                              /\ Cardinality(T) <= Cardinality(Mutants)
  BY <1>1, FS_Subset, FS_CardinalityType
<1>3. Cardinality(Mutants) \in Nat
  BY <1>1, FS_CardinalityType
<1>4. \A T \in SUBSET S : Cardinality(T) <= Cardinality(S)
  BY <1>2, FS_Subset
<1>5. ASSUME NEW T \in SUBSET Mutants
      PROVE  /\ Cardinality(S \cup T) <= Cardinality(S) + Cardinality(T)
             /\ S \cap T = {} => Cardinality(S \cup T) = Cardinality(S) + Cardinality(T)
  <2>1. Cardinality(S \cup T) = Cardinality(S) + Cardinality(T) - Cardinality(S \cap T)
    BY <1>2, FS_Union
  <2>2. Cardinality(S \cap T) \in Nat
    BY <1>2
  <2>3. S \cap T = {} => Cardinality(S \cap T) = 0
    BY FS_EmptySet
  <2>4. QED
    BY <1>2, <2>1, <2>2, <2>3
<1>6. Cardinality(Mutants \ S) = Cardinality(Mutants) - Cardinality(S)
  <2>1. Cardinality(S \cup (Mutants \ S)) = Cardinality(S) + Cardinality(Mutants \ S)
    BY <1>5
  <2>2. S \cup (Mutants \ S) = Mutants
    OBVIOUS
  <2>3. Cardinality(S) \in Nat /\ Cardinality(Mutants \ S) \in Nat
    BY <1>2
  <2>4. Cardinality(Mutants) = Cardinality(S) + Cardinality(Mutants \ S)
    BY <2>1, <2>2
  <2>5. \A i, j, k \in Nat : i = j + k => k = i - j
    OBVIOUS
  <2>6. QED
    BY <1>3, <2>3, <2>4, <2>5
<1>7. Cardinality(S) = Cardinality(Mutants) => S = Mutants
  BY <1>1, FS_Subset
<1>8. QED
  BY <1>2, <1>3, <1>4, <1>5, <1>6, <1>7

\* The instance counts as its module does.
LEMMA CampaignCounts == \A S : Campaign!Cardinality(S) = Cardinality(S)
BY DEF Campaign!Cardinality, Cardinality

\* What was measured of a version.
LEMMA MeasuredMutants ==
  ASSUME NEW v, measured \subseteq Versions \X Mutants
  PROVE  /\ Campaign!MeasuredOn(v) \in SUBSET Mutants
         /\ Cardinality(Campaign!MeasuredOn(v)) \in Nat
<1>1. Campaign!MeasuredOn(v) \in SUBSET Mutants
  BY DEF Campaign!MeasuredOn
<1>2. QED
  BY <1>1, MutantSets

\* The types, for every step.
LEMMA CampaignTyped ==
  ASSUME CampaignTypes
  PROVE  /\ sources \in Versions /\ steps \in 0..MaxCampaigns /\ MaxCampaigns \in Nat
         /\ measured \subseteq Versions \X Mutants
         /\ reviewed \in [Campaign!Positions -> Nat]
         /\ copy \in [Slots -> SUBSET Mutants]
         /\ running \in [Slots -> Mutants \cup {Missing}]
         /\ report \in Campaign!Report \cup {Missing}
         /\ campaign \in Campaigns \cup {Missing}
         /\ Missing \notin Mutants /\ Missing \notin Versions
BY RecordsAssumption DEF CampaignTypes, Campaign!TypeOK, Campaign!CampaignAssumption

\* What the reports say stays true as long as they are the same and no measurement is lost.
LEMMA ReportsStay ==
  ASSUME CampaignTypes, ReportSound, ReportsMeasured, report' = report,
         measured \subseteq measured', measured' \subseteq Versions \X Mutants
  PROVE  /\ \A r : Sound(r) => Sound(r)'
         /\ ReportsMeasured'
<1>0. report \in Campaign!Report \cup {Missing} /\ measured \subseteq Versions \X Mutants
  BY CampaignTyped
<1>1. \A v : Campaign!MeasuredOn(v) \subseteq Campaign!MeasuredOn(v)'
  BY DEF Campaign!MeasuredOn
<1>2. \A v : /\ Campaign!MeasuredOn(v) \in SUBSET Mutants
             /\ Campaign!MeasuredOn(v)' \in SUBSET Mutants
  BY DEF Campaign!MeasuredOn
<1>3. \A r : Sound(r) => Sound(r)'
  BY <1>1 DEF Sound
<1>4. CASE report # Missing /\ report.whole
  <2> DEFINE before == Campaign!MeasuredOn(report.sources)
             after == Campaign!MeasuredOn(report.sources)'
  <2>1. /\ report.killed \in Nat /\ report.accepted \in SUBSET Mutants
    BY <1>0, <1>4 DEF Campaign!Report
  <2>2. before \in SUBSET after /\ after \in SUBSET Mutants
    BY <1>1, <1>2
  <2> HIDE DEF before, after
  <2>3. /\ Cardinality(before) \in Nat /\ Cardinality(after) \in Nat
        /\ Cardinality(before) <= Cardinality(after)
    BY <2>2, MutantSets
  <2>4. Cardinality(report.accepted) \in Nat /\ Cardinality(Mutants) \in Nat
    BY <2>1, MutantSets
  <2>5. /\ report.killed <= Cardinality(before)
        /\ report.status = "PASS" /\ ~report.partial =>
             Cardinality(before) + Cardinality(report.accepted) >= Cardinality(Mutants)
    BY <1>4, CampaignCounts DEF ReportsMeasured, Campaign!ReportsMeasured, before
  <2>6. report.killed <= Cardinality(after)
    BY <2>1, <2>3, <2>5
  <2>7. report.status = "PASS" /\ ~report.partial =>
          Cardinality(after) + Cardinality(report.accepted) >= Cardinality(Mutants)
    BY <2>3, <2>4, <2>5
  <2>8. QED
    BY <1>3, <2>6, <2>7, CampaignCounts DEF ReportsMeasured, Campaign!ReportsMeasured, after
<1>5. CASE ~(report # Missing /\ report.whole)
  BY <1>3, <1>5 DEF ReportsMeasured, Campaign!ReportsMeasured
<1>6. QED
  BY <1>4, <1>5

\* A step that keeps the reports and the resumed one and goes on with the campaign, or ends it.
LEMMA CampaignGoesOn ==
  ASSUME CampaignInv, report' = report,
         measured \subseteq measured', measured' \subseteq Versions \X Mutants,
         campaign' # Missing /\ campaign'.previous # Missing =>
           \/ campaign # Missing /\ campaign'.previous = campaign.previous
           \/ campaign'.previous = report
  PROVE  ReportSound' /\ ReportsMeasured'
<1>1. \A r : Sound(r) => Sound(r)'
  BY ReportsStay DEF CampaignInv
<1>2. ReportSound'
  BY <1>1 DEF CampaignInv, ReportSound
<1>3. QED
  BY <1>2, ReportsStay DEF CampaignInv

\* A campaign that reads the sources once more found what it found before, if it says so.
LEMMA SameStays ==
  ASSUME CampaignInv, campaign # Missing, NEW c \in Campaigns,
         UNCHANGED <<copy, running, measured>>, campaign' = c,
         c.same => campaign.same,
         c.previous = campaign.previous, c.of = campaign.of, c.work = campaign.work,
         c.todo = campaign.todo, c.results = campaign.results, c.partial = campaign.partial,
         campaign.phase # "planned", c.phase # "planned"
  PROVE  CampaignSound'
BY DEF CampaignInv, CampaignSound, Campaign!MeasuredOn

\* A campaign is planned: nothing of it has begun.
LEMMA PlanStep ==
  ASSUME CampaignInv, NEW previous \in {Missing, report}, Campaign!Plan(previous)
  PROVE  CampaignInv'
<1> DEFINE c == [phase |-> "planned", previous |-> previous, of |-> sources, same |-> TRUE,
                 copied |-> {}, work |-> {}, todo |-> {}, results |-> {}, partial |-> FALSE]
<1>0. CampaignTypes
  BY DEF CampaignInv
<1>1. /\ campaign' = c /\ copy' = [w \in Slots |-> {}] /\ running' = [w \in Slots |-> Missing]
      /\ steps < MaxCampaigns /\ steps' = steps + 1
      /\ UNCHANGED <<sources, reviewed, report, measured>>
  BY DEF Campaign!Plan, Campaign!Event
<1>2. c \in Campaigns
  BY <1>0, CampaignTyped DEF Campaigns
<1>3. /\ c.phase = "planned" /\ c.previous = previous /\ c.work = {} /\ c.todo = {}
      /\ c.results = {}
  OBVIOUS
<1> HIDE DEF c
<1>4. CampaignTypes'
  BY <1>0, <1>1, <1>2, CampaignTyped DEF CampaignTypes, Campaign!TypeOK
<1>5. CampaignSound'
  BY <1>1, <1>3 DEF CampaignSound
<1>6. ReportSound' /\ ReportsMeasured'
  BY <1>0, <1>1, <1>3, CampaignTyped, CampaignGoesOn
<1>7. QED
  BY <1>4, <1>5, <1>6 DEF CampaignInv

\* Of a whole report the campaign runs again what was not measured on the sources it has.
LEMMA ChooseStep ==
  ASSUME CampaignInv, NEW chosen \in SUBSET Mutants, Campaign!Choose(chosen)
  PROVE  CampaignInv'
<1> DEFINE p == campaign.previous
           c == [campaign EXCEPT
                  !.phase = "copying", !.work = chosen, !.todo = chosen,
                  !.partial = (chosen # Campaign!Planned(p)), !.same = Campaign!SameStill]
<1>0. CampaignTypes
  BY DEF CampaignInv
<1>1. /\ campaign # Missing /\ campaign.phase = "planned" /\ campaign' = c
      /\ p # Missing => Campaign!Resumable(p)
      /\ UNCHANGED <<sources, reviewed, copy, running, report, measured, steps>>
  BY DEF Campaign!Choose
<1>2. campaign \in Campaigns /\ p \in Campaign!Report \cup {Missing}
  BY <1>0, <1>1, CampaignTyped DEF Campaigns
<1>3. /\ c \in Campaigns
      /\ c.phase = "copying" /\ c.work = chosen /\ c.todo = chosen /\ c.results = campaign.results
      /\ c.previous = p /\ c.of = campaign.of
      /\ c.same = Campaign!SameStill /\ c.partial = (chosen # Campaign!Planned(p))
  BY <1>2 DEF Campaigns, Campaign!SameStill
<1> HIDE DEF c
<1>4. campaign.results = {} /\ \A w \in Slots : running[w] = Missing
  BY <1>1 DEF CampaignInv, CampaignSound
<1>5. ~c.partial /\ p = Missing => chosen = Mutants
  BY <1>3 DEF Campaign!Planned
<1>6. ASSUME ~c.partial, p # Missing, c.same, p.whole, p.accepted = {}
      PROVE  Mutants \ chosen \subseteq Campaign!MeasuredOn(campaign.of)
  <2>1. Sound(p)
    BY <1>1, <1>6 DEF CampaignInv, ReportSound
  <2>2. p.mutants = Cardinality(Mutants) /\ p.sources # Missing
    BY <1>1, <1>6, <2>1, CampaignCounts DEF Campaign!Resumable, Sound
  <2>3. p.sources = campaign.of
    BY <1>1, <1>3, <1>6, <2>2 DEF Campaign!Resumable, Campaign!SameStill
  <2>4. Mutants \ p.unresolved \subseteq Campaign!MeasuredOn(campaign.of)
    BY <1>6, <2>1, <2>2, <2>3 DEF Sound
  <2>5. p.unresolved \subseteq chosen
    BY <1>2, <1>3, <1>6 DEF Campaign!Planned, Campaign!LeftAlive, Campaign!Report
  <2>6. QED
    BY <2>4, <2>5
<1>7. CampaignSound'
  <2>1. \A w \in Slots : copy[w] = {}
    BY <1>1, <1>4 DEF CampaignInv, CampaignSound
  <2>3. c.phase # "planned" /\ ~c.partial =>
          IF c.previous = Missing
          THEN c.work = Mutants
          ELSE c.same /\ c.previous.whole /\ c.previous.accepted = {} =>
                 Mutants \ c.work \subseteq {n \in Mutants : <<c.of, n>> \in measured'}
    BY <1>1, <1>3, <1>5, <1>6 DEF Campaign!MeasuredOn
  <2>4. QED
    BY <1>1, <1>3, <1>4, <2>1, <2>3 DEF CampaignSound, Campaign!MeasuredOn
<1>8. CampaignTypes'
  BY <1>0, <1>1, <1>3, CampaignTyped DEF CampaignTypes, Campaign!TypeOK
<1>9. ReportSound' /\ ReportsMeasured'
  BY <1>0, <1>1, <1>3, CampaignTyped, CampaignGoesOn
<1>10. QED
  BY <1>7, <1>8, <1>9 DEF CampaignInv

\* The copies are made and the unmutated modules tested: the sources are read again.
LEMMA ReadAgain ==
  ASSUME CampaignInv, (\E w \in Slots : Campaign!CopyProject(w)) \/ Campaign!Baseline
  PROVE  CampaignInv'
<1>0. CampaignTypes
  BY DEF CampaignInv
<1>1. /\ campaign # Missing /\ campaign.phase = "copying" /\ campaign \in Campaigns
      /\ UNCHANGED <<sources, reviewed, copy, running, report, measured, steps>>
  BY <1>0, CampaignTyped DEF Campaign!CopyProject, Campaign!Baseline
<1>2. PICK copied \in SUBSET Slots, phase \in {"copying", "testing"} :
        campaign' = [campaign EXCEPT !.copied = copied, !.phase = phase,
                                     !.same = Campaign!SameStill]
  <2>1. CASE Campaign!Baseline
    <3>1. campaign' = [campaign EXCEPT !.copied = campaign.copied, !.phase = "testing",
                                       !.same = Campaign!SameStill]
      BY <1>1, <2>1 DEF Campaign!Baseline, Campaigns
    <3>2. campaign.copied \in SUBSET Slots
      BY <1>1 DEF Campaigns
    <3>3. QED
      BY <3>1, <3>2
  <2>2. ASSUME NEW w \in Slots, Campaign!CopyProject(w)
        PROVE  \E copied \in SUBSET Slots, phase \in {"copying", "testing"} :
                 campaign' = [campaign EXCEPT !.copied = copied, !.phase = phase,
                                              !.same = Campaign!SameStill]
    <3>1. campaign' = [campaign EXCEPT !.copied = campaign.copied \cup {w}, !.phase = "copying",
                                       !.same = Campaign!SameStill]
      BY <1>1, <2>2 DEF Campaign!CopyProject, Campaigns
    <3>2. campaign.copied \cup {w} \in SUBSET Slots
      BY <1>1 DEF Campaigns
    <3>3. QED
      BY <3>1, <3>2
  <2>3. QED
    BY <2>1, <2>2
<1> DEFINE c == [campaign EXCEPT !.copied = copied, !.phase = phase,
                                 !.same = Campaign!SameStill]
<1>3. /\ c \in Campaigns /\ c.phase = phase /\ (c.same => campaign.same)
      /\ c.previous = campaign.previous /\ c.of = campaign.of /\ c.work = campaign.work
      /\ c.todo = campaign.todo /\ c.results = campaign.results /\ c.partial = campaign.partial
  BY <1>1 DEF Campaigns, Campaign!SameStill
<1> HIDE DEF c
<1>4. campaign' = c
  BY <1>2 DEF c
<1>5. CampaignSound'
  BY <1>1, <1>3, <1>4, SameStays
<1>6. CampaignTypes'
  BY <1>0, <1>1, <1>3, <1>4, CampaignTyped DEF CampaignTypes, Campaign!TypeOK
<1>7. ReportSound' /\ ReportsMeasured'
  BY <1>0, <1>1, <1>3, <1>4, CampaignTyped, CampaignGoesOn
<1>8. QED
  BY <1>5, <1>6, <1>7 DEF CampaignInv

\* A copy is taken when it is clean, and holds the mutant it is given.
LEMMA TakeStep ==
  ASSUME CampaignInv, NEW w \in Slots, NEW m \in Mutants, Campaign!Take(w, m)
  PROVE  CampaignInv'
<1> DEFINE c == [campaign EXCEPT !.todo = @ \ {m}]
<1>0. CampaignTypes
  BY DEF CampaignInv
<1>1. /\ campaign' = c /\ campaign # Missing /\ campaign \in Campaigns /\ m \in campaign.todo
      /\ campaign.phase = "testing"
      /\ running[w] = Missing /\ copy' = [copy EXCEPT ![w] = @ \cup {m}]
      /\ running' = [running EXCEPT ![w] = m]
      /\ UNCHANGED <<sources, reviewed, report, measured, steps>>
  BY <1>0, CampaignTyped DEF Campaign!Take
<1>2. /\ c \in Campaigns /\ c.todo = campaign.todo \ {m} /\ c.work = campaign.work
      /\ c.results = campaign.results /\ c.previous = campaign.previous
      /\ c.of = campaign.of /\ c.same = campaign.same /\ c.partial = campaign.partial
      /\ c.phase = campaign.phase
  BY <1>1 DEF Campaigns
<1> HIDE DEF c
<1>3. /\ running'[w] = m /\ \A v \in Slots \ {w} : running'[v] = running[v]
      /\ copy'[w] = copy[w] \cup {m} /\ \A v \in Slots \ {w} : copy'[v] = copy[v]
  BY <1>0, <1>1, CampaignTyped
<1>4. CampaignSound'
  <2>1. copy[w] = {} /\ m \in campaign.work /\ m # Missing
    BY <1>0, <1>1, CampaignTyped DEF CampaignInv, CampaignSound
  <2>2. \A v \in Slots : copy'[v] = IF running'[v] = Missing THEN {} ELSE {running'[v]}
    <3>1. \A v \in Slots : copy[v] = IF running[v] = Missing THEN {} ELSE {running[v]}
      BY <1>1 DEF CampaignInv, CampaignSound
    <3>2. copy'[w] = {m} /\ running'[w] = m
      BY <1>3, <2>1
    <3>3. ASSUME NEW v \in Slots, v # w
          PROVE  copy'[v] = IF running'[v] = Missing THEN {} ELSE {running'[v]}
      BY <1>3, <3>1, <3>3
    <3>4. QED
      BY <2>1, <3>2, <3>3
  <2>3. ASSUME NEW n \in c.work
        PROVE  \/ n \in c.todo
               \/ \E v \in Slots : running'[v] = n
               \/ \E outcome \in Results : <<n, outcome>> \in c.results
    <3>1. CASE n = m
      BY <1>3, <3>1
    <3>2. CASE n \in campaign.todo /\ n # m
      BY <1>2, <3>2
    <3>3. CASE \E v \in Slots : running[v] = n
      <4>1. PICK v \in Slots : running[v] = n
        BY <3>3
      <4>2. v # w
        BY <1>0, <1>1, <1>2, <4>1, CampaignTyped DEF Campaigns
      <4>3. QED
        BY <1>3, <4>1, <4>2
    <3>4. CASE \E outcome \in Results : <<n, outcome>> \in campaign.results
      BY <1>2, <3>4
    <3>5. QED
      BY <1>1, <1>2, <3>1, <3>2, <3>3, <3>4 DEF CampaignInv, CampaignSound
  <2>4. \A v \in Slots : running'[v] # Missing => running'[v] \in c.work
    BY <1>1, <1>2, <1>3, <2>1 DEF CampaignInv, CampaignSound
  <2>5. \A v : Campaign!MeasuredOn(v)' = Campaign!MeasuredOn(v)
    BY <1>1 DEF Campaign!MeasuredOn
  <2>6. QED
    BY <1>1, <1>2, <2>2, <2>3, <2>4, <2>5 DEF CampaignInv, CampaignSound
<1>5. CampaignTypes'
  BY <1>0, <1>1, <1>2, CampaignTyped DEF CampaignTypes, Campaign!TypeOK
<1>6. ReportSound' /\ ReportsMeasured'
  BY <1>0, <1>1, <1>2, CampaignTyped, CampaignGoesOn
<1>7. QED
  BY <1>4, <1>5, <1>6 DEF CampaignInv

\* A mutant seen killed was alone in its copy.
LEMMA JudgeStep ==
  ASSUME CampaignInv, NEW w \in Slots, NEW outcome \in Results, Campaign!Judge(w, outcome)
  PROVE  CampaignInv'
<1> DEFINE m == running[w]
           c == [campaign EXCEPT !.results = @ \cup {<<m, outcome>>}]
<1>0. CampaignTypes
  BY DEF CampaignInv
<1>1. /\ campaign' = c /\ campaign # Missing /\ campaign \in Campaigns
      /\ m # Missing /\ m \in Mutants
      /\ copy' = [copy EXCEPT ![w] = copy[w] \ {m}]
      /\ running' = [running EXCEPT ![w] = Missing]
      /\ measured' = IF outcome = "KILLED" /\ copy[w] = {m} /\ campaign.same
                     THEN measured \cup {<<campaign.of, m>>} ELSE measured
      /\ UNCHANGED <<sources, reviewed, report, steps>>
  BY <1>0, CampaignTyped DEF Campaign!Judge, Campaign!WrittenBack
<1>2. /\ c \in Campaigns /\ c.todo = campaign.todo /\ c.work = campaign.work
      /\ c.results = campaign.results \cup {<<m, outcome>>} /\ c.previous = campaign.previous
      /\ c.of = campaign.of /\ c.same = campaign.same /\ c.partial = campaign.partial
      /\ c.phase = campaign.phase
  BY <1>1 DEF Campaigns
<1> HIDE DEF c
<1>3. /\ running'[w] = Missing /\ \A v \in Slots \ {w} : running'[v] = running[v]
      /\ copy'[w] = copy[w] \ {m} /\ \A v \in Slots \ {w} : copy'[v] = copy[v]
  BY <1>0, <1>1, CampaignTyped
<1>4. copy[w] = {m} /\ m \in campaign.work /\ campaign.phase # "planned"
  BY <1>1 DEF CampaignInv, CampaignSound
<1>5. /\ measured \subseteq measured' /\ measured' \subseteq Versions \X Mutants
      /\ (outcome = "KILLED" /\ campaign.same => <<campaign.of, m>> \in measured')
  BY <1>0, <1>1, <1>4, CampaignTyped DEF Campaigns
<1>6. CampaignSound'
  <2>1. \A v \in Slots : copy'[v] = IF running'[v] = Missing THEN {} ELSE {running'[v]}
    BY <1>1, <1>3, <1>4 DEF CampaignInv, CampaignSound
  <2>2. ASSUME NEW n \in c.work
        PROVE  \/ n \in c.todo
               \/ \E v \in Slots : running'[v] = n
               \/ \E o \in Results : <<n, o>> \in c.results
    <3>1. CASE n = m
      BY <1>2, <3>1
    <3>2. CASE n # m
      <4>1. \/ n \in campaign.todo
            \/ \E v \in Slots : running[v] = n
            \/ \E o \in Results : <<n, o>> \in campaign.results
        BY <1>1, <1>2 DEF CampaignInv, CampaignSound
      <4>2. QED
        BY <1>2, <1>3, <3>2, <4>1
    <3>3. QED
      BY <3>1, <3>2
  <2>3. \A v \in Slots : running'[v] # Missing => running'[v] \in c.work
    BY <1>1, <1>2, <1>3 DEF CampaignInv, CampaignSound
  <2>5. ASSUME NEW n \in Mutants, <<n, "KILLED">> \in c.results
        PROVE  n \in c.work /\ (c.same => <<c.of, n>> \in measured')
    <3>1. CASE <<n, "KILLED">> \in campaign.results
      BY <1>1, <1>2, <1>5, <3>1 DEF CampaignInv, CampaignSound, Campaign!MeasuredOn
    <3>2. CASE n = m /\ outcome = "KILLED"
      BY <1>2, <1>4, <1>5, <3>2
    <3>3. QED
      BY <1>2, <2>5, <3>1, <3>2
  <2>6. c.phase # "planned" /\ ~c.partial =>
          IF c.previous = Missing
          THEN c.work = Mutants
          ELSE c.same /\ c.previous.whole /\ c.previous.accepted = {} =>
                 Mutants \ c.work \subseteq {n \in Mutants : <<c.of, n>> \in measured'}
    BY <1>1, <1>2, <1>5 DEF CampaignInv, CampaignSound, Campaign!MeasuredOn
  <2>7. c.todo \subseteq c.work
    BY <1>1, <1>2 DEF CampaignInv, CampaignSound
  <2>8. QED
    BY <1>1, <1>2, <1>4, <2>1, <2>2, <2>3, <2>5, <2>6, <2>7
    DEF CampaignSound, Campaign!MeasuredOn
<1>7. CampaignTypes'
  BY <1>0, <1>1, <1>2, <1>5, CampaignTyped DEF CampaignTypes, Campaign!TypeOK
<1>8. ReportSound' /\ ReportsMeasured'
  BY <1>1, <1>2, <1>5, CampaignGoesOn
<1>9. QED
  BY <1>6, <1>7, <1>8 DEF CampaignInv

\* The kills a report counts were measured in its campaign or are carried over.
LEMMA FinishStep == ASSUME CampaignInv, Campaign!Finish PROVE CampaignInv'
<1> DEFINE killed == Campaign!With("KILLED")
           unresolved == Campaign!With("SURVIVED") \cup Campaign!With("TIMEOUT")
           carried == Campaign!Carried
           p == campaign.previous
           whole == /\ Campaign!SameStill
                    /\ p # Missing => /\ p.whole /\ p.accepted = {}
                                      /\ ~campaign.partial
           r == [sources |-> sources, mutants |-> Cardinality(campaign.work) + carried,
                 killed |-> Cardinality(killed) + carried, evaluated |-> campaign.work,
                 unresolved |-> unresolved, survived |-> Campaign!With("SURVIVED"),
                 accepted |-> {}, partial |-> campaign.partial,
                 status |-> IF unresolved = {} THEN "PASS" ELSE "FAIL",
                 whole |-> whole]
           known == Campaign!MeasuredOn(sources)
<1>0. CampaignTypes
  BY DEF CampaignInv
<1>1. /\ campaign \in Campaigns /\ campaign # Missing /\ campaign' = Missing
      /\ campaign.phase = "testing"
      /\ campaign.todo = {} /\ \A w \in Slots : running[w] = Missing
      /\ report' = r
      /\ UNCHANGED <<sources, reviewed, copy, running, measured, steps>>
  BY <1>0, CampaignTyped, CampaignCounts DEF Campaign!Finish
<1>2. /\ campaign.work \in SUBSET Mutants /\ campaign.results \subseteq Mutants \X Results
      /\ campaign.partial \in BOOLEAN /\ p \in Campaign!Report \cup {Missing}
      /\ campaign.same \in BOOLEAN
  BY <1>1 DEF Campaigns
<1>3. /\ \A o : Campaign!With(o) = {m \in Mutants : <<m, o>> \in campaign.results}
      /\ carried = IF p # Missing THEN Cardinality(Mutants) - Cardinality(campaign.work)
                   ELSE 0
  <2>1. ASSUME NEW o PROVE Campaign!With(o) = {m \in Mutants : <<m, o>> \in campaign.results}
    <3>1. ASSUME NEW q \in campaign.results, q[2] = o
          PROVE  q[1] \in Mutants /\ <<q[1], o>> \in campaign.results
      BY <1>2, <3>1
    <3>2. ASSUME NEW m \in Mutants, <<m, o>> \in campaign.results
          PROVE  m \in Campaign!With(o)
      BY <3>2 DEF Campaign!With
    <3>3. QED
      BY <3>1, <3>2 DEF Campaign!With
  <2>2. QED
    BY <2>1, CampaignCounts DEF Campaign!Carried
<1>4. /\ killed \subseteq Mutants /\ unresolved \subseteq Mutants
      /\ killed \subseteq campaign.work
      /\ known \in SUBSET Mutants
  BY <1>1, <1>3 DEF CampaignInv, CampaignSound, Campaign!MeasuredOn
<1>5. whole => sources = campaign.of /\ campaign.same
  BY DEF Campaign!SameStill
<1>6. whole => killed \subseteq known
  BY <1>1, <1>3, <1>5 DEF CampaignInv, CampaignSound
<1>7. campaign.work \ unresolved \subseteq killed
  <2>1. SUFFICES ASSUME NEW m \in campaign.work, m \notin unresolved PROVE m \in killed
    OBVIOUS
  <2>2. m \in Mutants /\ m # Missing
    BY <1>0, <1>2, CampaignTyped
  <2>3. PICK o \in Results : <<m, o>> \in campaign.results
    BY <1>1, <2>2 DEF CampaignInv, CampaignSound
  <2>4. QED
    BY <1>3, <2>1, <2>2, <2>3 DEF Results
<1>8. /\ Cardinality(known) \in Nat /\ Cardinality(Mutants) \in Nat
      /\ Cardinality(killed) \in Nat /\ Cardinality(campaign.work) \in Nat
      /\ carried \in Nat
      /\ p # Missing => carried = Cardinality(Mutants \ campaign.work)
      /\ p # Missing => Cardinality(campaign.work) + carried = Cardinality(Mutants)
  <2>1. /\ Cardinality(killed) \in Nat /\ Cardinality(campaign.work) \in Nat
        /\ Cardinality(known) \in Nat /\ Cardinality(Mutants) \in Nat
        /\ Cardinality(campaign.work) <= Cardinality(Mutants)
        /\ Cardinality(Mutants \ campaign.work)
             = Cardinality(Mutants) - Cardinality(campaign.work)
    BY <1>2, <1>4, MutantSets
  <2> HIDE DEF killed, carried, known
  <2>2. QED
    BY <1>3, <2>1
<1>9. /\ r.sources = sources /\ r.mutants = Cardinality(campaign.work) + carried
      /\ r.killed = Cardinality(killed) + carried /\ r.unresolved = unresolved
      /\ r.accepted = {} /\ r.partial = campaign.partial /\ r.whole = whole
      /\ r.status = "PASS" => unresolved = {}
  OBVIOUS
<1>10. r \in Campaign!Report
  <2>1. /\ r.mutants \in Nat /\ r.killed \in Nat
    BY <1>8
  <2>2. Campaign!With("SURVIVED") \subseteq Mutants
    BY <1>3
  <2>3. whole \in BOOLEAN
    OBVIOUS
  <2>4. sources \in Versions
    BY <1>0, CampaignTyped
  <2> HIDE DEF whole
  <2>5. QED
    BY <1>2, <1>4, <2>1, <2>2, <2>3, <2>4 DEF Campaign!Report
<1> HIDE DEF r
<1>11. CampaignTypes'
  BY <1>0, <1>1, <1>10, CampaignTyped DEF CampaignTypes, Campaign!TypeOK
<1>12. whole /\ r.mutants = Cardinality(Mutants) => Mutants \ unresolved \subseteq known
  <2>1. SUFFICES ASSUME whole, r.mutants = Cardinality(Mutants)
                 PROVE  Mutants \ unresolved \subseteq known
    OBVIOUS
  <2>2. CASE p # Missing
    <3>1. Mutants \ campaign.work \subseteq known
      BY <1>1, <1>5, <2>1, <2>2 DEF CampaignInv, CampaignSound
    <3>2. QED
      BY <1>6, <1>7, <2>1, <3>1
  <2>3. CASE p = Missing
    <3>1. r.mutants = Cardinality(campaign.work)
      BY <1>3, <1>8, <1>9, <2>3
    <3>2. campaign.work = Mutants
      BY <1>2, <2>1, <3>1, MutantSets
    <3>3. QED
      BY <1>6, <1>7, <2>1, <3>2
  <2>4. QED
    BY <2>2, <2>3
<1>13. ~campaign.partial => r.mutants = Cardinality(Mutants)
  <2>1. CASE p # Missing
    BY <1>8, <1>9, <2>1
  <2>2. CASE p = Missing
    BY <1>1, <1>3, <1>8, <1>9, <2>2 DEF CampaignInv, CampaignSound
  <2>3. QED
    BY <2>1, <2>2
<1>14. whole => r.killed <= Cardinality(known)
  <2>1. CASE p # Missing /\ whole
    <3>1. Mutants \ campaign.work \subseteq known
      BY <1>1, <1>5, <2>1 DEF CampaignInv, CampaignSound
    <3>2. /\ killed \cap (Mutants \ campaign.work) = {}
          /\ killed \cup (Mutants \ campaign.work) \in SUBSET known
      BY <1>4, <1>6, <2>1, <3>1
    <3>3. Cardinality(killed \cup (Mutants \ campaign.work))
            = Cardinality(killed) + Cardinality(Mutants \ campaign.work)
      BY <1>4, <3>2, MutantSets
    <3>4. Cardinality(killed \cup (Mutants \ campaign.work)) <= Cardinality(known)
      BY <1>4, <3>2, MutantSets
    <3>5. QED
      BY <1>8, <1>9, <2>1, <3>3, <3>4
  <2>2. CASE p = Missing /\ whole
    <3>1. Cardinality(killed) <= Cardinality(known)
      BY <1>4, <1>6, <2>2, MutantSets
    <3>2. r.killed = Cardinality(killed)
      BY <1>3, <1>8, <1>9, <2>2
    <3>3. QED
      BY <3>1, <3>2
  <2>3. QED
    BY <2>1, <2>2
<1>15. whole /\ ~campaign.partial /\ unresolved = {} =>
         Cardinality(known) >= Cardinality(Mutants)
  <2>1. SUFFICES ASSUME whole, ~campaign.partial, unresolved = {}
                 PROVE  Cardinality(known) >= Cardinality(Mutants)
    OBVIOUS
  <2>2. known = Mutants
    BY <1>4, <1>12, <1>13, <2>1
  <2>3. QED
    BY <1>8, <2>2
<1>16. report'.sources = r.sources /\ r.sources = sources
  BY <1>1, <1>9
<1>17. Campaign!MeasuredOn(report.sources)' = known
  BY <1>1, <1>16 DEF Campaign!MeasuredOn
<1>18. Sound(report)'
  <2>1. sources # Missing
    BY <1>0, CampaignTyped
  <2>2. SUFFICES ASSUME r.whole
                 PROVE  /\ r.sources # Missing
                        /\ ~r.partial => r.mutants = Cardinality(Mutants)
                        /\ r.mutants = Cardinality(Mutants) /\ r.accepted = {} =>
                             Mutants \ r.unresolved \subseteq known
    BY <1>1, <1>17 DEF Sound
  <2>3. QED
    BY <1>9, <1>12, <1>13, <2>1, <2>2
<1>19. ReportsMeasured'
  <2>1. SUFFICES ASSUME r.whole
                 PROVE  /\ r.killed <= Cardinality(known)
                        /\ r.status = "PASS" /\ ~r.partial =>
                             Cardinality(known) + Cardinality(r.accepted) >= Cardinality(Mutants)
    BY <1>1, <1>17, CampaignCounts DEF ReportsMeasured, Campaign!ReportsMeasured
  <2>2. Cardinality(r.accepted) = 0
    BY <1>9, FS_EmptySet
  <2>3. r.killed <= Cardinality(known)
    BY <1>9, <1>14, <2>1
  <2>4. r.status = "PASS" /\ ~r.partial => Cardinality(known) >= Cardinality(Mutants)
    BY <1>9, <1>15, <2>1
  <2> HIDE DEF known
  <2>5. QED
    BY <1>8, <2>2, <2>3, <2>4
<1>20. QED
  BY <1>1, <1>11, <1>18, <1>19 DEF CampaignInv, CampaignSound, ReportSound

\* A review accepts what the report left unresolved.
LEMMA DisposeStep == ASSUME CampaignInv, Campaign!Dispose PROVE CampaignInv'
<1>0. CampaignTypes
  BY DEF CampaignInv
<1>1. /\ report # Missing /\ steps < MaxCampaigns /\ steps' = steps + 1
      /\ report \in Campaign!Report
      /\ UNCHANGED <<sources, reviewed, campaign, copy, running, measured>>
  BY <1>0, CampaignTyped DEF Campaign!Dispose, Campaign!Event
<1>2. PICK accepted \in SUBSET (report.unresolved \cap report.survived), pass \in BOOLEAN :
        report' = [report EXCEPT
             !.unresolved = @ \ accepted, !.accepted = accepted,
             !.whole = @ /\ report.accepted = {},
             !.status = IF report.unresolved \subseteq accepted /\ pass
                        THEN "PASS" ELSE "FAIL"]
  BY DEF Campaign!Dispose
<1> DEFINE r == [report EXCEPT
             !.unresolved = @ \ accepted, !.accepted = accepted,
             !.whole = @ /\ report.accepted = {},
             !.status = IF report.unresolved \subseteq accepted /\ pass
                        THEN "PASS" ELSE "FAIL"]
           known == Campaign!MeasuredOn(report.sources)
<1>3. report' = r
  BY <1>2
<1>4. /\ accepted \subseteq Mutants /\ report.unresolved \subseteq Mutants
      /\ report.killed \in Nat /\ report.whole \in BOOLEAN
      /\ known \in SUBSET Mutants
  BY <1>1 DEF Campaign!Report, Campaign!MeasuredOn
<1>5. /\ r \in Campaign!Report /\ r.sources = report.sources /\ r.mutants = report.mutants
      /\ r.killed = report.killed /\ r.unresolved = report.unresolved \ accepted
      /\ r.accepted = accepted /\ r.partial = report.partial
      /\ (r.status = "PASS" => report.unresolved \subseteq accepted)
  BY <1>1, <1>4 DEF Campaign!Report
<1>6. r.whole => report.whole /\ report.accepted = {}
  BY <1>1 DEF Campaign!Report
<1> HIDE DEF r
<1>7. CampaignTypes'
  BY <1>0, <1>1, <1>3, <1>5, CampaignTyped DEF CampaignTypes, Campaign!TypeOK
<1>8. Sound(report)
  BY <1>1 DEF CampaignInv, ReportSound
<1>9. Campaign!MeasuredOn(report.sources)' = known
  BY <1>1, <1>3, <1>5 DEF Campaign!MeasuredOn
<1>10. Sound(report)'
  <2>1. SUFFICES ASSUME r.whole
                 PROVE  /\ r.sources # Missing
                        /\ ~r.partial => r.mutants = Cardinality(Mutants)
                        /\ r.mutants = Cardinality(Mutants) /\ r.accepted = {} =>
                             Mutants \ r.unresolved \subseteq known
    BY <1>3, <1>9 DEF Sound
  <2>2. QED
    BY <1>5, <1>6, <1>8, <2>1 DEF Sound
<1>11. ReportSound'
  <2>1. \A q : Sound(q) => Sound(q)'
    BY <1>1 DEF Sound, Campaign!MeasuredOn
  <2>2. QED
    BY <1>1, <1>10, <2>1 DEF CampaignInv, ReportSound
<1>12. ReportsMeasured'
  <2>1. SUFFICES ASSUME r.whole
                 PROVE  /\ r.killed <= Cardinality(known)
                        /\ r.status = "PASS" /\ ~r.partial =>
                             Cardinality(known) + Cardinality(r.accepted) >= Cardinality(Mutants)
    BY <1>3, <1>9, CampaignCounts DEF ReportsMeasured, Campaign!ReportsMeasured
  <2>2. r.killed <= Cardinality(known)
    BY <1>1, <1>5, <1>6, <2>1, CampaignCounts
    DEF CampaignInv, ReportsMeasured, Campaign!ReportsMeasured
  <2>3. ASSUME r.status = "PASS", ~r.partial
        PROVE  Cardinality(known) + Cardinality(accepted) >= Cardinality(Mutants)
    <3>1. Mutants \ report.unresolved \subseteq known
      BY <1>5, <1>6, <1>8, <2>1, <2>3 DEF Sound
    <3>2. known \cup accepted = Mutants
      BY <1>4, <1>5, <2>3, <3>1
    <3>3. Cardinality(known \cup accepted) <= Cardinality(known) + Cardinality(accepted)
      BY <1>4, MutantSets
    <3>4. /\ Cardinality(known) \in Nat /\ Cardinality(accepted) \in Nat
          /\ Cardinality(Mutants) \in Nat
      BY <1>4, MutantSets
    <3> HIDE DEF known
    <3>5. Cardinality(Mutants) <= Cardinality(known) + Cardinality(accepted)
      BY <3>2, <3>3
    <3>6. QED
      BY <3>4, <3>5
  <2>4. QED
    BY <1>5, <2>2, <2>3
<1>13. CampaignSound'
  BY <1>1 DEF CampaignInv, CampaignSound, Campaign!MeasuredOn
<1>14. QED
  BY <1>7, <1>11, <1>12, <1>13 DEF CampaignInv

\* Every step of a campaign, a review or the project keeps it.
LEMMA CampaignStep == CampaignInv /\ [Campaign!Next]_(Campaign!vars) => CampaignInv'
<1> SUFFICES ASSUME CampaignInv, [Campaign!Next]_(Campaign!vars) PROVE CampaignInv'
  OBVIOUS
<1>0. CampaignTypes
  BY DEF CampaignInv
\* Nothing of the campaign changes, or the campaign ends without a report.
<1>1. ASSUME UNCHANGED <<copy, running, measured, report>>,
             campaign' = campaign \/ campaign' = Missing,
             sources' \in Versions, steps' \in 0..MaxCampaigns,
             reviewed' \in [Campaign!Positions -> Nat]
      PROVE  CampaignInv'
  <2>1. CampaignTypes'
    BY <1>0, <1>1, CampaignTyped DEF CampaignTypes, Campaign!TypeOK, Campaign!Positions
  <2>2. CampaignSound'
    BY <1>1 DEF CampaignInv, CampaignSound, Campaign!MeasuredOn
  <2>3. ReportSound' /\ ReportsMeasured'
    BY <1>0, <1>1, CampaignTyped, CampaignGoesOn
  <2>4. QED
    BY <2>1, <2>2, <2>3 DEF CampaignInv
<1>2. CASE UNCHANGED Campaign!vars
  BY <1>0, <1>1, <1>2, CampaignTyped DEF Campaign!vars
<1>3. CASE Campaign!BaselineFails
  <2>1. /\ campaign' = Missing /\ report' = Missing
        /\ UNCHANGED <<sources, reviewed, copy, running, measured, steps>>
    BY <1>3 DEF Campaign!BaselineFails
  <2>2. CampaignTypes'
    BY <1>0, <2>1, CampaignTyped DEF CampaignTypes, Campaign!TypeOK
  <2>3. QED
    BY <2>1, <2>2 DEF CampaignInv, CampaignSound, ReportSound, ReportsMeasured,
      Campaign!ReportsMeasured
<1>4. CASE Campaign!Interrupt
  BY <1>0, <1>1, <1>4, CampaignTyped DEF Campaign!Interrupt
<1>5. ASSUME NEW k \in Campaign!Positions, NEW n \in 0..2, Campaign!Review(k, n)
      PROVE  CampaignInv'
  <2>1. /\ reviewed' = [reviewed EXCEPT ![k] = n] /\ steps < MaxCampaigns /\ steps' = steps + 1
        /\ UNCHANGED <<sources, campaign, copy, running, report, measured>>
    BY <1>5 DEF Campaign!Review, Campaign!Event
  <2>2. reviewed' \in [Campaign!Positions -> Nat] /\ steps' \in 0..MaxCampaigns
    BY <1>0, <2>1, CampaignTyped
  <2>3. QED
    BY <1>0, <1>1, <2>1, <2>2, CampaignTyped
<1>6. ASSUME NEW version \in Versions, Campaign!ChangeSources(version) PROVE CampaignInv'
  <2>1. /\ sources' = version /\ steps < MaxCampaigns /\ steps' = steps + 1
        /\ UNCHANGED <<reviewed, campaign, copy, running, report, measured>>
    BY <1>6 DEF Campaign!ChangeSources, Campaign!Event
  <2>2. steps' \in 0..MaxCampaigns
    BY <1>0, <2>1, CampaignTyped
  <2>3. QED
    BY <1>0, <1>1, <2>1, <2>2, CampaignTyped
<1>7. QED
  BY <1>2, <1>3, <1>4, <1>5, <1>6, PlanStep, ChooseStep, ReadAgain, TakeStep, JudgeStep,
    FinishStep, DisposeStep
  DEF Campaign!Next, Results

\* Nothing is measured initially, and what is reported has no digest.
LEMMA CampaignInit == Campaign!Init => CampaignInv
<1> SUFFICES ASSUME Campaign!Init PROVE CampaignInv
  OBVIOUS
<1> USE DEF Campaign!Init
<1>1. steps \in 0..MaxCampaigns
  BY RecordsAssumption DEF Campaign!CampaignAssumption
<1>2. reviewed \in [Campaign!Positions -> Nat]
  OBVIOUS
<1>3. ASSUME report # Missing PROVE report \in Campaign!Report /\ ~report.whole
  <2>1. PICK unresolved \in SUBSET Mutants :
          \E survived \in SUBSET unresolved : report = Campaign!Undigested(unresolved, survived)
    BY <1>3
  <2>0. PICK survived \in SUBSET unresolved : report = Campaign!Undigested(unresolved, survived)
    BY <2>1
  <2>2. Cardinality(Mutants) \in Nat /\ Cardinality(Mutants \ unresolved) \in Nat
    BY <2>1, MutantSets
  <2>3. QED
    BY <2>0, <2>2, CampaignCounts DEF Campaign!Undigested, Campaign!Report
<1>4. CampaignTypes
  BY <1>1, <1>2, <1>3 DEF CampaignTypes, Campaign!TypeOK
<1>5. QED
  BY <1>3, <1>4 DEF CampaignInv, CampaignSound, ReportSound, Sound, ReportsMeasured,
    Campaign!ReportsMeasured

\* A whole report counts no kill that was not measured on the sources of its digest, and
\* passes only when every other mutant was accepted, however campaigns are cut short, limited
\* and resumed, and whenever the sources are edited and put back
\* (scripts/assurance_mutation.py, run and dispose).
THEOREM CampaignReportsMeasured == Campaign!Spec => []ReportsMeasured
<1>1. CampaignInv => ReportsMeasured
  BY DEF CampaignInv
<1>2. QED
  BY <1>1, CampaignInit, CampaignStep, PTL DEF Campaign!Spec

-----------------------------------------------------------------------------
\* The installation

KitTypes ==
  /\ file \in [Plain \cup {"gates", "skills"} -> Kit!Contents]
  /\ agents \in Kit!Texts /\ config \in Kit!Configurations
  /\ control \in [is: {"absent", "bare", "adopted"}, by: Clients \cup {Missing}, stale: BOOLEAN]
  /\ events \in 0..MaxInstalls

\* What a tool saw of the file it writes next was of the file's type.
SawTyped(r) ==
  r.saw # Missing /\ r.todo # << >> =>
    /\ r.todo[1] = "AGENTS.md" => r.saw \in Kit!Texts
    /\ r.todo[1] = "mode" => r.saw \in Kit!Configurations

ToolRecord(r) ==
  /\ DOMAIN r = {"todo", "ask", "force", "mode", "saw"}
  /\ r.ask \in Kit!Requests /\ r.mode \in Kit!Modes
  /\ SawTyped(r)

KitTools == DOMAIN tool = Clients /\ \A p \in Clients : ToolRecord(tool[p])

KitInv == KitTypes /\ KitTools

-----------------------------------------------------------------------------
\* The tools between two writes

\* A tool that goes on, looks at a file, stops or is asked anew.
LEMMA ToolGoesOn ==
  ASSUME KitTools, NEW p \in Clients
  PROVE  /\ ToolRecord(Kit!Idle)
         /\ \A todo : ToolRecord([tool[p] EXCEPT !.todo = todo, !.saw = Missing])
         /\ \A saw : SawTyped([tool[p] EXCEPT !.saw = saw]) =>
              ToolRecord([tool[p] EXCEPT !.saw = saw])
         /\ \A todo, mode : mode \in Kit!Modes =>
              ToolRecord([tool[p] EXCEPT !.todo = todo, !.mode = mode, !.saw = Missing])
         /\ \A todo, ask : ask \in Kit!Requests =>
              ToolRecord([Kit!Idle EXCEPT !.todo = todo, !.ask = ask])
         /\ \A todo, ask, force : ask \in Kit!Requests =>
              ToolRecord([Kit!Idle EXCEPT !.todo = todo, !.ask = ask, !.force = force])
<1>1. ToolRecord(tool[p])
  BY DEF KitTools
<1>2. Missing \in Kit!Modes /\ "none" \in Kit!Requests
  BY DEF Kit!Modes, Kit!Requests
<1>3. ToolRecord(Kit!Idle)
  BY <1>2 DEF ToolRecord, SawTyped, Kit!Idle
<1>4. \A todo : ToolRecord([tool[p] EXCEPT !.todo = todo, !.saw = Missing])
  BY <1>1 DEF ToolRecord, SawTyped
<1>5. \A todo, mode : mode \in Kit!Modes =>
        ToolRecord([tool[p] EXCEPT !.todo = todo, !.mode = mode, !.saw = Missing])
  BY <1>1 DEF ToolRecord, SawTyped
<1>6. \A todo, ask, force : ask \in Kit!Requests =>
        ToolRecord([Kit!Idle EXCEPT !.todo = todo, !.ask = ask, !.force = force])
  BY <1>2 DEF ToolRecord, SawTyped, Kit!Idle
<1>7. \A todo, ask : ask \in Kit!Requests =>
        ToolRecord([Kit!Idle EXCEPT !.todo = todo, !.ask = ask])
  BY <1>2 DEF ToolRecord, SawTyped, Kit!Idle
<1>8. \A saw : SawTyped([tool[p] EXCEPT !.saw = saw]) => ToolRecord([tool[p] EXCEPT !.saw = saw])
  BY <1>1 DEF ToolRecord
<1>9. QED
  BY <1>3, <1>4, <1>5, <1>6, <1>7, <1>8

\* One tool's record is written over.
LEMMA ToolWritten ==
  ASSUME KitTools, NEW p \in Clients, NEW r, ToolRecord(r), tool' = [tool EXCEPT ![p] = r]
  PROVE  KitTools'
<1>1. DOMAIN tool = Clients /\ \A q \in Clients : ToolRecord(tool[q])
  BY DEF KitTools
<1>2. DOMAIN tool' = Clients
  BY <1>1
<1>3. ASSUME NEW q \in Clients PROVE tool'[q] = IF q = p THEN r ELSE tool[q]
  BY <1>1
<1>4. \A q \in Clients : ToolRecord(tool'[q])
  BY <1>1, <1>3
<1>5. QED
  BY <1>2, <1>4 DEF KitTools, ToolRecord, SawTyped

\* The mode a tool records is one of the modes.
LEMMA AskedMode ==
  ASSUME KitTypes, NEW p \in Clients
  PROVE  Kit!Asked(p) \in Kit!Modes
<1>1. config.mode \in Kit!Modes /\ "managed" \in Kit!Modes /\ "rules-only" \in Kit!Modes
  BY DEF KitTypes, Kit!Configurations, Kit!Modes
<1>2. Kit!Mode \in Kit!Modes
  BY <1>1 DEF Kit!Mode
<1>3. CASE Kit!Adopted
  BY <1>1, <1>3 DEF Kit!Asked
<1>4. CASE ~Kit!Adopted /\ tool[p].ask = "rules-only"
  BY <1>1, <1>4 DEF Kit!Asked
<1>5. CASE ~Kit!Adopted /\ tool[p].ask = "adopt"
  BY <1>1, <1>5 DEF Kit!Asked
<1>6. CASE ~Kit!Adopted /\ tool[p].ask \notin {"rules-only", "adopt"}
  BY <1>2, <1>6 DEF Kit!Asked
<1>7. QED
  BY <1>3, <1>4, <1>5, <1>6

\* Every way to leave a write keeps the tools' records.
LEMMA ToolLeavesWrite ==
  ASSUME KitTools, NEW p \in Clients,
         \/ Kit!Done(p) \/ Kit!Raise(p) \/ Kit!LeaveInstall(p)
         \/ \E writes : Kit!Instead(p, writes)
  PROVE  KitTools'
<1>1. ASSUME NEW writes, Kit!Onward(p, writes) PROVE KitTools'
  <2> DEFINE r == IF writes = << >> THEN Kit!Idle
                  ELSE [tool[p] EXCEPT !.todo = writes, !.saw = Missing]
  <2>1. tool' = [tool EXCEPT ![p] = r]
    BY <1>1 DEF Kit!Onward
  <2>2. ToolRecord(r)
    BY ToolGoesOn
  <2> HIDE DEF r
  <2>3. QED
    BY <2>1, <2>2, ToolWritten
<1>2. CASE Kit!Done(p)
  BY <1>1, <1>2 DEF Kit!Done
<1>3. CASE Kit!Raise(p)
  BY <1>3, ToolGoesOn, ToolWritten DEF Kit!Raise
<1>4. CASE Kit!LeaveInstall(p)
  BY <1>1, <1>3, <1>4 DEF Kit!LeaveInstall
<1>5. ASSUME NEW writes, Kit!Instead(p, writes) PROVE KitTools'
  BY <1>1, <1>5 DEF Kit!Instead
<1>6. QED
  BY <1>2, <1>3, <1>4, <1>5

\* What a tool looks at is of its file's type.
LEMMA ToolLooks ==
  ASSUME KitInv, NEW p \in Clients, Kit!Look(p)
  PROVE  KitTools'
<1>1. PICK write \in Kit!Looked :
        Kit!At(p, write) /\ tool' = [tool EXCEPT ![p].saw = Kit!There(write)]
  BY DEF Kit!Look
<1> DEFINE r == [tool[p] EXCEPT !.saw = Kit!There(write)]
<1>2. tool' = [tool EXCEPT ![p] = r]
  BY <1>1 DEF KitInv, KitTools
<1>3. DOMAIN tool[p] = {"todo", "ask", "force", "mode", "saw"}
  BY DEF KitInv, KitTools, ToolRecord
<1>4. r.saw = Kit!There(write) /\ r.todo = tool[p].todo
  BY <1>3
<1>5. write = "AGENTS.md" => Kit!There(write) \in Kit!Texts
  BY DEF Kit!There, KitInv, KitTypes
<1>6. write = "mode" => Kit!There(write) \in Kit!Configurations
  BY DEF Kit!There, KitInv, KitTypes
<1>7. SawTyped(r)
  BY <1>1, <1>4, <1>5, <1>6 DEF SawTyped, Kit!At
<1>8. ToolRecord(r)
  BY <1>7, ToolGoesOn DEF KitInv
<1> HIDE DEF r
<1>9. QED
  BY <1>2, <1>8, ToolWritten DEF KitInv

-----------------------------------------------------------------------------
\* The writes

\* A managed region is replaced; what is before it stays, and what is after a well-formed one.
LEMMA ManagedKeeps ==
  ASSUME NEW text \in Kit!Texts
  PROVE  /\ Kit!Managed(text) \in Kit!Texts
         /\ Kit!Managed(text).own = text.own
         /\ text.block # "doubled" => Kit!Managed(text).after = text.after
<1>1. text \in [own: {"none", "text", "lost"}, after: BOOLEAN, block: Kit!Blocks]
  BY DEF Kit!Texts
<1>2. CASE text.block = "open"
  BY <1>1, <1>2 DEF Kit!Managed, Kit!Blocks, Kit!Texts
<1>3. CASE text.block = "doubled"
  BY <1>1, <1>3 DEF Kit!Managed, Kit!Blocks, Kit!Texts
<1>4. CASE text.block \notin {"open", "doubled"}
  BY <1>1, <1>4 DEF Kit!Managed, Kit!Blocks, Kit!Texts
<1>5. QED
  BY <1>2, <1>3, <1>4

\* What a write may do: nothing loses its type; without --force the owner's directories stay,
\* and files and text that are as the tool saw them; a control plane stays what it is.
KeptByWrite(p) ==
  /\ KitTypes'
  /\ ~tool[p].force =>
       /\ \A f \in Plain \cup {"gates"} :
            file[f] = "own" /\ (f \in Directories \/ Kit!Unmoved(p)) => file'[f] = "own"
       /\ Kit!Unmoved(p) =>
            /\ agents'.own = agents.own
            /\ agents.block # "doubled" => agents'.after = agents.after
  /\ Kit!Adopted => control'.is = "adopted" /\ control'.by = control.by
  /\ control'.is = "bare" => control.is = "bare"

\* A copied file.
LEMMA WriteFileKeeps ==
  ASSUME KitInv, NEW p \in Clients, NEW f \in Plain \cup {"gates"}, Kit!WriteFile(p, f)
  PROVE  KeptByWrite(p) /\ KitTools'
<1>1. /\ tool[p].saw # Missing /\ tool[p].todo[1] = f
      /\ UNCHANGED <<agents, config, control, events>>
  BY DEF Kit!WriteFile, Kit!Saw, Kit!At
<1>2. KitTools'
  BY ToolLeavesWrite DEF Kit!WriteFile, KitInv
<1>3. file' = file \/ file' = [file EXCEPT ![f] = "kit"]
  BY DEF Kit!WriteFile
<1>4. f \notin {"AGENTS.md", "config", "mode"}
  BY RecordsAssumption DEF Kit!InstallationAssumption
<1>5. ASSUME ~tool[p].force, file[f] = "own", f \in Directories \/ Kit!Unmoved(p)
      PROVE  file' = file
  <2>1. Kit!There(f) = file[f]
    BY <1>4 DEF Kit!There
  <2>2. CASE Kit!Unmoved(p)
    BY <1>1, <1>5, <2>1, <2>2 DEF Kit!Unmoved, Kit!WriteFile, Kit!Copies
  <2>3. CASE f \in Directories
    BY <1>5, <2>3 DEF Kit!WriteFile
  <2>4. QED
    BY <1>5, <2>2, <2>3
<1>6. KitTypes'
  BY <1>1, <1>3 DEF KitInv, KitTypes, Kit!Contents
<1>7. ASSUME ~tool[p].force, NEW g \in Plain \cup {"gates"},
             file[g] = "own", g \in Directories \/ Kit!Unmoved(p)
      PROVE  file'[g] = "own"
  <2>1. CASE g = f
    BY <1>5, <1>7, <2>1
  <2>2. CASE g # f
    BY <1>3, <1>7, <2>2 DEF KitInv, KitTypes
  <2>3. QED
    BY <2>1, <2>2
<1>8. QED
  BY <1>1, <1>2, <1>6, <1>7 DEF KeptByWrite, Kit!Adopted

\* AGENTS.md.
LEMMA WriteAgentsKeeps ==
  ASSUME KitInv, NEW p \in Clients, Kit!WriteAgents(p)
  PROVE  KeptByWrite(p) /\ KitTools'
<1> DEFINE text == tool[p].saw
<1>1. /\ text # Missing /\ tool[p].todo # << >> /\ tool[p].todo[1] = "AGENTS.md"
      /\ agents' = Kit!Managed(text)
      /\ UNCHANGED <<file, config, control, events>>
  BY DEF Kit!WriteAgents, Kit!Saw, Kit!At
<1>2. text \in Kit!Texts
  BY <1>1 DEF KitInv, KitTools, ToolRecord, SawTyped
<1>3. Kit!Unmoved(p) => text = agents
  BY <1>1 DEF Kit!Unmoved, Kit!There
<1>4. KitTools'
  BY ToolLeavesWrite DEF Kit!WriteAgents, KitInv
<1>5. KitTypes'
  <2>1. agents' \in Kit!Texts
    BY <1>1, <1>2, ManagedKeeps
  <2>2. QED
    BY <1>1, <2>1 DEF KitInv, KitTypes
<1>6. Kit!Unmoved(p) =>
        /\ agents'.own = agents.own
        /\ agents.block # "doubled" => agents'.after = agents.after
  BY <1>1, <1>2, <1>3, ManagedKeeps
<1> HIDE DEF text
<1>7. QED
  BY <1>1, <1>4, <1>5, <1>6 DEF KeptByWrite, Kit!Adopted

\* The configuration.
LEMMA WriteModeKeeps ==
  ASSUME KitInv, NEW p \in Clients, Kit!WriteMode(p)
  PROVE  KeptByWrite(p) /\ KitTools'
<1>1. /\ tool[p].saw # Missing /\ tool[p].todo # << >> /\ tool[p].todo[1] = "mode"
      /\ UNCHANGED <<file, agents, control, events>>
      /\ config' = config \/ config' = [tool[p].saw EXCEPT !.mode = tool[p].mode]
  BY DEF Kit!WriteMode, Kit!Saw, Kit!At
<1>2. tool[p].saw \in Kit!Configurations /\ tool[p].mode \in Kit!Modes
  BY <1>1 DEF KitInv, KitTools, ToolRecord, SawTyped
<1>3. config' \in Kit!Configurations
  BY <1>1, <1>2 DEF Kit!Configurations, KitInv, KitTypes
<1>4. KitTools'
  BY ToolLeavesWrite DEF Kit!WriteMode, KitInv
<1>5. QED
  BY <1>1, <1>3, <1>4 DEF KeptByWrite, KitInv, KitTypes, Kit!Adopted

\* Every write of a tool does no more.
LEMMA WriteKeeps ==
  ASSUME KitInv, NEW p \in Clients, Kit!Write(p)
  PROVE  KeptByWrite(p) /\ KitTools'
<1> USE DEF KitTypes, KitInv
<1>1. CASE \E f \in Plain \cup {"gates"} : Kit!WriteFile(p, f)
  BY <1>1, WriteFileKeeps
<1>2. CASE Kit!Look(p)
  <2>1. UNCHANGED <<file, agents, config, control, events>>
    BY <1>2 DEF Kit!Look
  <2>2. QED
    BY <1>2, <2>1, ToolLooks DEF KeptByWrite, Kit!Adopted
<1>3. CASE Kit!WriteConfig(p)
  <2>1. UNCHANGED <<file, agents, control, events>> /\ config' \in Kit!Configurations
    BY <1>3 DEF Kit!WriteConfig, Kit!Configurations, Kit!Modes
  <2>2. KitTools'
    BY <1>3, ToolLeavesWrite DEF Kit!WriteConfig
  <2>3. QED
    BY <2>1, <2>2 DEF KeptByWrite, Kit!Adopted
<1>4. CASE Kit!WriteSkills(p)
  <2>1. /\ file' = file \/ file' = [file EXCEPT !["skills"] = "kit"]
        /\ UNCHANGED <<agents, config, control, events>>
    BY <1>4 DEF Kit!WriteSkills
  <2>2. \A f \in Plain \cup {"gates"} : file[f] = "own" => file'[f] = "own"
    BY <2>1, RecordsAssumption DEF Kit!InstallationAssumption
  <2>3. KitTools'
    BY <1>4, ToolLeavesWrite DEF Kit!WriteSkills
  <2>4. file' \in [Plain \cup {"gates", "skills"} -> Kit!Contents]
    BY <2>1 DEF Kit!Contents
  <2>5. QED
    BY <2>1, <2>2, <2>3, <2>4 DEF KeptByWrite, Kit!Adopted
<1>5. CASE Kit!ChooseMode(p)
  <2> DEFINE mode == Kit!Asked(p)
             r == [tool[p] EXCEPT !.todo = Tail(tool[p].todo), !.mode = mode, !.saw = Missing]
  <2>1. UNCHANGED <<file, agents, config, control, events>> /\ tool' = [tool EXCEPT ![p] = r]
    BY <1>5 DEF Kit!ChooseMode
  <2>2. ToolRecord(r)
    BY AskedMode, ToolGoesOn
  <2> HIDE DEF r
  <2>3. KitTools'
    BY <2>1, <2>2, ToolWritten
  <2>4. QED
    BY <2>1, <2>3 DEF KeptByWrite, Kit!Adopted
<1>6. CASE Kit!WriteAgents(p) \/ Kit!WriteMode(p)
  BY <1>6, WriteAgentsKeeps, WriteModeKeeps
<1>7. CASE Kit!Control(p)
  <2>1. UNCHANGED <<file, agents, config, control, events>>
    BY <1>7 DEF Kit!Control
  <2>2. QED
    BY <1>7, <2>1, ToolLeavesWrite DEF Kit!Control, KeptByWrite, Kit!Adopted
<1>8. CASE Kit!Adopt(p)
  <2>1. UNCHANGED <<file, agents, config, control, events>>
    BY <1>8 DEF Kit!Adopt
  <2>2. KitTools'
    <3>1. CASE Kit!Adopted
      BY <1>8, <3>1, ToolLeavesWrite DEF Kit!Adopt
    <3>2. CASE ~Kit!Adopted /\ control.is = "bare"
      BY <1>8, <3>2, ToolLeavesWrite DEF Kit!Adopt
    <3>3. CASE ~Kit!Adopted /\ control.is # "bare"
      BY <1>8, <3>3, ToolLeavesWrite DEF Kit!Adopt
    <3>4. QED
      BY <3>1, <3>2, <3>3
  <2>3. QED
    BY <2>1, <2>2 DEF KeptByWrite, Kit!Adopted
<1>9. CASE Kit!Rename(p)
  <2>1. UNCHANGED <<file, agents, config, events>>
    BY <1>9 DEF Kit!Rename
  <2>2. KitTools'
    BY <1>9, ToolLeavesWrite DEF Kit!Rename
  <2>3. CASE control.is = "absent"
    <3>1. PICK moved \in BOOLEAN : control' = [is |-> "adopted", by |-> p, stale |-> moved]
      BY <1>9, <2>3 DEF Kit!Rename
    <3>2. QED
      BY <2>1, <2>2, <2>3, <3>1 DEF KeptByWrite, Kit!Adopted
  <2>4. CASE control.is # "absent"
    BY <1>9, <2>1, <2>2, <2>4 DEF Kit!Rename, KeptByWrite, Kit!Adopted
  <2>5. QED
    BY <2>3, <2>4
<1>10. CASE Kit!Reconcile(p)
  <2>1. UNCHANGED <<file, agents, config, events>>
    BY <1>10 DEF Kit!Reconcile
  <2>2. KitTools'
    BY <1>10, ToolLeavesWrite DEF Kit!Reconcile
  <2>3. control' = control \/ control' = [control EXCEPT !.stale = FALSE]
    BY <1>10 DEF Kit!Reconcile
  <2>4. QED
    BY <2>1, <2>2, <2>3 DEF KeptByWrite, Kit!Adopted
<1>11. QED
  BY <1>1, <1>2, <1>3, <1>4, <1>5, <1>6, <1>7, <1>8, <1>9, <1>10 DEF Kit!Write

-----------------------------------------------------------------------------
\* The steps

\* A prefix of what a tool would have written to AGENTS.md.
LEMMA TornText ==
  ASSUME NEW text \in Kit!Texts
  PROVE  /\ [own |-> IF text.own = "none" THEN "none" ELSE "lost", after |-> FALSE,
             block |-> "absent"] \in Kit!Texts
         /\ [own |-> text.own, after |-> FALSE, block |-> "open"] \in Kit!Texts
<1> DEFINE own == IF text.own = "none" THEN "none" ELSE "lost"
<1>1. /\ text.own \in {"none", "text", "lost"} /\ own \in {"none", "text", "lost"}
      /\ "absent" \in Kit!Blocks /\ "open" \in Kit!Blocks
  BY DEF Kit!Texts, Kit!Blocks
<1>2. [own |-> own, after |-> FALSE, block |-> "absent"] \in Kit!Texts
  BY <1>1 DEF Kit!Texts
<1>3. [own |-> text.own, after |-> FALSE, block |-> "open"] \in Kit!Texts
  BY <1>1 DEF Kit!Texts
<1>4. QED
  BY <1>2, <1>3

\* What people and accidents do to the files.
LEMMA OutsideKeeps ==
  ASSUME KitTypes,
         \/ \E f \in DOMAIN file : Kit!OwnerWrites(f)
         \/ Kit!OwnerWritesAgents \/ Kit!OwnerMovesControl \/ Kit!NewerKit
  PROVE  KitTypes' /\ UNCHANGED tool
<1>0. ASSUME Kit!Event PROVE events' \in 0..MaxInstalls
  BY <1>0, RecordsAssumption DEF Kit!Event, KitTypes, Kit!InstallationAssumption
<1>1. ASSUME NEW f \in DOMAIN file, Kit!OwnerWrites(f) PROVE KitTypes' /\ UNCHANGED tool
  <2>1. /\ UNCHANGED <<agents, config, tool>>
        /\ file' \in {[file EXCEPT ![f] = "own"], [file EXCEPT ![f] = "absent"]}
        /\ control' = [control EXCEPT !.stale = (control.is = "adopted")]
        /\ events' \in 0..MaxInstalls
    BY <1>0, <1>1 DEF Kit!OwnerWrites, Kit!Adopted
  <2>2. (control.is = "adopted") \in BOOLEAN
    OBVIOUS
  <2>3. control' \in [is: {"absent", "bare", "adopted"}, by: Clients \cup {Missing}, stale: BOOLEAN]
    BY <2>1, <2>2 DEF KitTypes
  <2>4. QED
    BY <2>1, <2>3 DEF KitTypes, Kit!Contents
<1>2. CASE Kit!OwnerWritesAgents
  <2> DEFINE gone == [own |-> "none", after |-> FALSE, block |-> "absent"]
             more == [agents EXCEPT !.after = TRUE]
  <2>1. /\ UNCHANGED <<file, config, control, tool>> /\ agents' \in {more, gone}
        /\ events' \in 0..MaxInstalls
    BY <1>0, <1>2 DEF Kit!OwnerWritesAgents
  <2>2. gone \in Kit!Texts
    BY DEF Kit!Texts, Kit!Blocks
  <2>3. more \in Kit!Texts
    BY DEF KitTypes, Kit!Texts
  <2>4. QED
    BY <2>1, <2>2, <2>3 DEF KitTypes
<1>3. CASE Kit!OwnerMovesControl
  <2>1. Kit!Nothing \in [is: {"absent", "bare", "adopted"}, by: Clients \cup {Missing}, stale: BOOLEAN]
    BY DEF Kit!Nothing
  <2>2. [Kit!Nothing EXCEPT !.is = "bare"] \in
          [is: {"absent", "bare", "adopted"}, by: Clients \cup {Missing}, stale: BOOLEAN]
    BY DEF Kit!Nothing
  <2>3. QED
    BY <1>0, <1>3, <2>1, <2>2 DEF Kit!OwnerMovesControl, KitTypes
<1>4. CASE Kit!NewerKit
  <2>1. /\ UNCHANGED <<control, tool>> /\ file' = [file EXCEPT !["skills"] = "newer"]
        /\ agents' = [agents EXCEPT !.block = "newer"]
        /\ config' = [config EXCEPT !.is = "newer"] /\ events' \in 0..MaxInstalls
    BY <1>0, <1>4 DEF Kit!NewerKit
  <2>2. "newer" \in Kit!Blocks /\ "newer" \in Kit!Contents
    BY DEF Kit!Blocks, Kit!Contents
  <2>3. agents' \in Kit!Texts /\ config' \in Kit!Configurations
    BY <2>1, <2>2 DEF KitTypes, Kit!Texts, Kit!Configurations
  <2>4. QED
    BY <2>1, <2>2, <2>3 DEF KitTypes
<1>5. QED
  BY <1>1, <1>2, <1>3, <1>4

\* A tool is killed in the middle of a file, or between two.
LEMMA KillsKeep ==
  ASSUME KitInv, NEW p \in Clients,
         \/ \E f \in DOMAIN file : Kit!KillInFile(p, f)
         \/ Kit!KillInConfig(p) \/ Kit!KillInAgents(p) \/ Kit!Kill(p)
  PROVE  KitInv'
<1> USE DEF KitInv
<1>0. ASSUME Kit!Event PROVE events' \in 0..MaxInstalls
  BY <1>0, RecordsAssumption DEF Kit!Event, KitTypes, Kit!InstallationAssumption
<1>1. ASSUME NEW f \in DOMAIN file, Kit!KillInFile(p, f) PROVE KitInv'
  <2>1. KitTools' /\ events' \in 0..MaxInstalls
    BY <1>0, <1>1, ToolLeavesWrite DEF Kit!KillInFile
  <2>2. file' = [file EXCEPT ![f] = "torn"] /\ UNCHANGED <<agents, config, control>>
    BY <1>1 DEF Kit!KillInFile
  <2>3. QED
    BY <2>1, <2>2 DEF KitTypes, Kit!Contents
<1>2. CASE Kit!KillInConfig(p)
  <2>1. KitTools' /\ events' \in 0..MaxInstalls
    BY <1>0, <1>2, ToolLeavesWrite DEF Kit!KillInConfig
  <2>2. config' = [is |-> "torn", mode |-> Missing] /\ UNCHANGED <<file, agents, control>>
    BY <1>2 DEF Kit!KillInConfig
  <2>3. config' \in Kit!Configurations
    BY <2>2 DEF Kit!Configurations, Kit!Modes
  <2>4. QED
    BY <2>1, <2>2, <2>3 DEF KitTypes
<1>3. CASE Kit!KillInAgents(p)
  <2> DEFINE text == tool[p].saw
  <2>1. KitTools' /\ events' \in 0..MaxInstalls
    BY <1>0, <1>3, ToolLeavesWrite DEF Kit!KillInAgents
  <2>2. /\ text # Missing /\ tool[p].todo # << >> /\ tool[p].todo[1] = "AGENTS.md"
        /\ UNCHANGED <<file, config, control>>
        /\ agents' \in {[own |-> IF text.own = "none" THEN "none" ELSE "lost", after |-> FALSE,
                         block |-> "absent"],
                        [own |-> text.own, after |-> FALSE, block |-> "open"]}
    BY <1>3 DEF Kit!KillInAgents, Kit!Saw, Kit!At
  <2>3. text \in Kit!Texts
    BY <2>2 DEF KitTools, ToolRecord, SawTyped
  <2> HIDE DEF text
  <2>4. agents' \in Kit!Texts
    BY <2>2, <2>3, TornText
  <2>5. QED
    BY <2>1, <2>2, <2>4 DEF KitTypes
<1>4. CASE Kit!Kill(p)
  <2>1. KitTools' /\ events' \in 0..MaxInstalls
    BY <1>0, <1>4, ToolLeavesWrite DEF Kit!Kill
  <2>2. UNCHANGED <<file, agents, config, control>>
    BY <1>4 DEF Kit!Kill
  <2>3. QED
    BY <2>1, <2>2 DEF KitTypes
<1>5. QED
  BY <1>1, <1>2, <1>3, <1>4

\* No step loses a type.
LEMMA KitStep == KitInv /\ [Kit!Next]_(Kit!vars) => KitInv'
<1> SUFFICES ASSUME KitInv, [Kit!Next]_(Kit!vars) PROVE KitInv'
  OBVIOUS
<1> USE DEF KitInv
<1>1. CASE UNCHANGED Kit!vars
  BY <1>1 DEF Kit!vars, KitTypes, KitTools
<1>2. ASSUME NEW p \in Clients, NEW ask \in {"init", "adopt", "rules-only"}, NEW force \in BOOLEAN,
             Kit!StartInit(p, ask, force)
      PROVE  KitInv'
  <2> DEFINE todo == Kit!Install \o <<"control">>
             r == [Kit!Idle EXCEPT !.todo = todo, !.ask = ask, !.force = force]
  <2>1. tool' = [tool EXCEPT ![p] = r] /\ UNCHANGED <<file, agents, config, control>>
    BY <1>2 DEF Kit!StartInit
  <2>2. events' \in 0..MaxInstalls
    BY <1>2, RecordsAssumption DEF Kit!StartInit, Kit!Event, KitTypes, Kit!InstallationAssumption
  <2>3. ask \in Kit!Requests
    BY DEF Kit!Requests
  <2> HIDE DEF todo
  <2>4. ToolRecord(r)
    BY <2>3, ToolGoesOn
  <2> HIDE DEF r
  <2>5. KitTools'
    BY <2>1, <2>4, ToolWritten
  <2>6. QED
    BY <2>1, <2>2, <2>5 DEF KitTypes
<1>3. ASSUME NEW p \in Clients, Kit!StartPreflight(p) PROVE KitInv'
  <2> DEFINE todo == Kit!Repairs
             r == [Kit!Idle EXCEPT !.todo = todo, !.ask = "repair"]
  <2>1. tool' = [tool EXCEPT ![p] = r] /\ UNCHANGED <<file, agents, config, control, events>>
    BY <1>3 DEF Kit!StartPreflight
  <2>2. "repair" \in Kit!Requests
    BY DEF Kit!Requests
  <2> HIDE DEF todo
  <2>3. ToolRecord(r)
    BY <2>2, ToolGoesOn
  <2> HIDE DEF r
  <2>4. KitTools'
    BY <2>1, <2>3, ToolWritten
  <2>5. QED
    BY <2>1, <2>4 DEF KitTypes
<1>4. ASSUME NEW p \in Clients, Kit!Write(p) PROVE KitInv'
  BY <1>4, WriteKeeps DEF KeptByWrite
<1>5. ASSUME NEW p \in Clients, NEW f \in DOMAIN file, Kit!KillInFile(p, f) PROVE KitInv'
  BY <1>5, KillsKeep
<1>6. ASSUME NEW p \in Clients, Kit!KillInConfig(p) \/ Kit!KillInAgents(p) \/ Kit!Kill(p)
      PROVE  KitInv'
  BY <1>6, KillsKeep
<1>7. CASE \/ \E f \in DOMAIN file : Kit!OwnerWrites(f)
           \/ Kit!OwnerWritesAgents \/ Kit!OwnerMovesControl \/ Kit!NewerKit
  BY <1>7, OutsideKeeps DEF KitTools
<1>8. QED
  BY <1>1, <1>2, <1>3, <1>4, <1>5, <1>6, <1>7 DEF Kit!Next

\* A repository without the kit, and tools nobody asked anything yet.
LEMMA KitInit == Kit!Init => KitInv
<1> SUFFICES ASSUME Kit!Init PROVE KitInv
  OBVIOUS
<1>1. KitTypes
  BY RecordsAssumption
     DEF Kit!Init, KitTypes, Kit!Contents, Kit!Blocks, Kit!Texts, Kit!Configurations, Kit!Modes,
         Kit!Nothing, Kit!InstallationAssumption
<1>2. ToolRecord(Kit!Idle)
  BY DEF ToolRecord, SawTyped, Kit!Idle, Kit!Modes, Kit!Requests
<1>3. tool = [p \in Clients |-> Kit!Idle]
  BY DEF Kit!Init
<1>4. KitTools
  BY <1>2, <1>3 DEF KitTools
<1>5. QED
  BY <1>1, <1>4 DEF KitInv

\* Without --force no write replaces a directory the owner made, nor text and files that are
\* still what the tool looked at, and none replaces an adopted control plane, whatever runs
\* side by side or is killed (bootstrap.py, adapters.py, plane.adopt).
THEOREM InstallationKeepsOwnWork == Kit!Spec => OwnWorkKept
<1>1. KitInv /\ [Kit!Next]_(Kit!vars) => [Kit!OwnTextKept /\ Kit!OnePlane]_(Kit!vars)
  <2> SUFFICES ASSUME KitInv PROVE Kit!OwnTextKept /\ Kit!OnePlane
    OBVIOUS
  <2>1. Kit!OwnTextKept
    BY WriteKeeps DEF KeptByWrite, Kit!OwnTextKept, Kit!Working
  <2>2. Kit!OnePlane
    <3>1. SUFFICES ASSUME NEW p \in Clients, Kit!Write(p) \/ Kit!Kill(p)
                   PROVE  /\ Kit!Adopted => control'.is = "adopted" /\ control'.by = control.by
                          /\ control'.is = "bare" => control.is = "bare"
      BY DEF Kit!OnePlane, Kit!Working
    <3>2. CASE Kit!Write(p)
      BY <3>2, WriteKeeps DEF KeptByWrite
    <3>3. CASE Kit!Kill(p)
      BY <3>3 DEF Kit!Kill, Kit!Adopted
    <3>4. QED
      BY <3>1, <3>2, <3>3
  <2>3. QED
    BY <2>1, <2>2
<1>2. QED
  BY <1>1, KitInit, KitStep, PTL DEF Kit!Spec, OwnWorkKept, Kit!OwnWorkKept

-----------------------------------------------------------------------------
\* The types of all nine

\* The records of migrations have their type.
LEMMA MigrationTypesOK == MigrationInv => Migration!TypeOK
<1> SUFFICES ASSUME MigrationInv PROVE Migration!TypeOK
  OBVIOUS
<1>1. \A n \in DOMAIN records : records[n] \in MigrationRecords
  <2>1. records \in Seq(MigrationRecords)
    BY DEF MigrationInv
  <2> HIDE DEF MigrationRecords
  <2>2. QED
    BY <2>1, ElementOfSeq, LenProperties
<1>2. QED
  BY <1>1 DEF MigrationInv, MigrationRecords, Migrating, Migration!TypeOK

\* The types of the installation are a part of its invariant.
LEMMA KitTypesOK == KitInv => Kit!TypeOK
BY DEF KitInv, KitTypes, KitTools, ToolRecord, SawTyped, Kit!At, Kit!TypeOK

\* Whatever the nine components do, each by itself or side by side, every record, file, report
\* and call keeps its type, the bounds of counters and versions included (control/store.py,
\* knowledge.py, evidence.py, bootstrap.py, verifier/, scripts/).
THEOREM RecordsKeepTypes == RecordsSpec => []TypesOK
<1>1. Storing!Spec => []Storing!TypeOK
  BY RecordsAssumption, Storing!StoreTypes
<1>2. Graph!Spec => []Graph!TypeOK
  <2>1. Graph!Spec => []Graph!GraphInv
    BY RecordsAssumption, Graph!GraphInvariant
  <2>2. Graph!GraphInv => Graph!TypeOK
    BY DEF Graph!GraphInv
  <2>3. QED
    BY <2>1, <2>2, PTL
<1>3. Claiming!Spec => []Claiming!TypeOK
  BY ClaimsInvariant, PTL
<1>4. Ledger!Spec => []Ledger!TypeOK
  <2>1. LedgerInv => Ledger!TypeOK
    BY DEF LedgerInv
  <2>2. QED
    BY <2>1, LedgerStart, LedgerStep, PTL DEF Ledger!Spec
<1>5. Migration!Spec => []Migration!TypeOK
  BY MigrationTypesOK, MigrationInit, MigrationStep, PTL DEF Migration!Spec
<1>6. Kit!Spec => []Kit!TypeOK
  BY KitTypesOK, KitInit, KitStep, PTL DEF Kit!Spec
<1>7. Verifiers!Spec => []Verifiers!TypeOK
  <2>1. VerifierInv => Verifiers!TypeOK
    BY DEF VerifierInv, VerifierTypes
  <2>2. QED
    BY <2>1, VerifierInvariant, PTL
<1>8. Campaign!Spec => []Campaign!TypeOK
  <2>1. CampaignInv => Campaign!TypeOK
    BY DEF CampaignInv, CampaignTypes
  <2>2. QED
    BY <2>1, CampaignInit, CampaignStep, PTL DEF Campaign!Spec
<1>9. Gate!Spec => []Gate!TypeOK
  BY RecordsAssumption, Gate!GateTypes
<1>10. QED
  BY <1>1, <1>2, <1>3, <1>4, <1>5, <1>6, <1>7, <1>8, <1>9, PTL DEF RecordsSpec, TypesOK
=============================================================================
