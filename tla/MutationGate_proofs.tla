------------------------ MODULE MutationGate_proofs -------------------------
(***************************************************************************)
(* Theorems about MutationGate, for any files, shards, mutants and tests.  *)
(***************************************************************************)
EXTENDS MutationGate, FiniteSetTheorems, TLAPS

-----------------------------------------------------------------------------
\* The inductive invariant

\* A shard that passed did so on the tree and the difference there are now.
PassedOnHead ==
  \A s \in Shards : verdict[s] = "PASS" => Select(s) = {} \/ Gate(Select(s), head)

IInv ==
  /\ TypeOK
  /\ PassedOnHead

-----------------------------------------------------------------------------
\* Facts about scopes and gates

\* The scope of the gate holds every file the difference names.
LEMMA NamedInScope == Named(diff) \subseteq AffectedFiles(diff)
<1>1. SUFFICES ASSUME NEW f \in Named(diff) PROVE f \in AffectedFiles(diff)
  OBVIOUS
<1>2. CASE f \in diff.files
  BY <1>2 DEF AffectedFiles
<1>3. CASE \E t \in diff.tests : f \in Imports[t]
  BY <1>3 DEF AffectedFiles
<1>4. CASE \E m \in Mutants : FileOf[m] = f /\ ChangeOf[m] \in diff.changes
  <2>1. PICK m \in Mutants : FileOf[m] = f /\ ChangeOf[m] \in diff.changes
    BY <1>4
  <2>2. f \in FilesOfChange(ChangeOf[m]) /\ diff.changes # {}
    BY <2>1 DEF FilesOfChange
  <2>3. QED
    BY <2>1, <2>2 DEF AffectedFiles
<1>5. QED
  BY <1>2, <1>3, <1>4 DEF Named

\* A gate that passes has counted every survivor: none is left between those a rule proves
\* equivalent and those a reviewer took.
LEMMA GateAnswers ==
  ASSUME GateAssumption, NEW tree \in Trees, NEW scope, Gate(scope, tree),
         NEW m \in Mutants, FileOf[m] \in scope
  PROVE  Answered(tree, m)
<1> DEFINE names == In(scope, tree, "survived")
           proven == names \cap Equivalent
           reviewed == Reviewed(names \ proven, InScope(scope, tree))
<1>1. /\ Cardinality(names) = Cardinality(proven) + Cardinality(reviewed)
      /\ In(scope, tree, "timeout") = {}
  BY DEF Gate
<1>2. tree.outcome[m] \in Outcomes
  BY DEF Trees
<1>3. tree.outcome[m] # "timeout"
  BY <1>1 DEF In
<1>4. CASE tree.outcome[m] = "survived"
  <2>1. names \subseteq Mutants /\ proven \subseteq names /\ reviewed \subseteq names
        /\ proven \cap reviewed = {}
    BY DEF In, Reviewed
  <2> HIDE DEF names, proven, reviewed
  <2>2. IsFiniteSet(names)
    BY <2>1, FS_Subset DEF GateAssumption
  <2>3. IsFiniteSet(proven) /\ IsFiniteSet(reviewed) /\ Cardinality(proven \cap reviewed) = 0
    BY <2>1, <2>2, FS_Subset, FS_EmptySet
  <2>4. /\ Cardinality(proven) \in Nat /\ Cardinality(reviewed) \in Nat
        /\ Cardinality(proven \cup reviewed)
             = Cardinality(proven) + Cardinality(reviewed) - Cardinality(proven \cap reviewed)
    BY <2>3, FS_CardinalityType, FS_Union
  <2>5. Cardinality(proven \cup reviewed) = Cardinality(names)
    BY <1>1, <2>3, <2>4
  <2>6. proven \cup reviewed = names
    BY <2>1, <2>2, <2>5, FS_Subset
  <2>7. m \in names
    BY <1>4 DEF names, In
  <2>8. QED
    BY <1>4, <2>6, <2>7 DEF proven, reviewed, Reviewed, InScope, Answered
<1>5. QED
  BY <1>2, <1>3, <1>4 DEF Outcomes, Answered

\* A gate that passes has found a survivor for every exception of a file that has any.
LEMMA GateNeeds ==
  ASSUME GateAssumption, NEW tree \in Trees, NEW scope, Gate(scope, tree),
         NEW x \in tree.exceptions, FilesOfChange(x) \subseteq scope
  PROVE  Needed(tree, x)
<1> DEFINE names == In(scope, tree, "survived")
           reviewed == Reviewed(names \ (names \cap Equivalent), InScope(scope, tree))
<1>1. InScope(scope, tree) \subseteq {ChangeOf[m] : m \in reviewed}
  BY DEF Gate
<1>2. SUFFICES ASSUME NEW n \in Mutants, FileOf[n] \in FilesOfChange(x),
                      tree.outcome[n] = "survived"
               PROVE  Needed(tree, x)
  BY DEF Needed
<1>3. n \in names
  BY <1>2 DEF In
<1>4. \A f \in FilesOfChange(x) : f = FileOf[n]
  BY <1>2 DEF FilesOfChange, GateAssumption
<1>5. x \in InScope(scope, tree)
  BY <1>3, <1>4 DEF InScope
<1>6. PICK m \in reviewed : x = ChangeOf[m]
  BY <1>1, <1>5
<1>7. QED
  BY <1>6 DEF Reviewed, In, Needed

-----------------------------------------------------------------------------
\* The steps

\* No shard has a result yet.
LEMMA NothingPassed ==
  ASSUME verdict' = [s \in Shards |-> "none"]
  PROVE  PassedOnHead'
BY DEF PassedOnHead

\* A commit leaves the main branch alone and starts every shard afresh.
LEMMA CommitTypes ==
  ASSUME GateAssumption, IInv, Commit
  PROVE  /\ main' \in Trees /\ verdict' \in [Shards -> Verdicts] /\ commits' \in 0..MaxCommits
         /\ PassedOnHead' /\ UNCHANGED main
BY NothingPassed DEF IInv, TypeOK, Commit, Verdicts, GateAssumption

\* What a pull request may hold.
Diffs == [files: SUBSET Files, tests: SUBSET Tests, changes: SUBSET Changes, list: BOOLEAN]

\* Every step keeps the invariant.
LEMMA NextInvariant == GateAssumption /\ IInv /\ [Next]_vars => IInv'
<1> SUFFICES ASSUME GateAssumption, IInv, [Next]_vars PROVE IInv'
  OBVIOUS
<1>0. /\ head \in Trees /\ main \in Trees /\ diff \in Diffs
      /\ verdict \in [Shards -> Verdicts] /\ commits \in 0..MaxCommits
  BY DEF IInv, TypeOK, Diffs
\* A commit with a tree and a difference.
<1>1. ASSUME Commit, head' \in Trees, diff' \in Diffs PROVE IInv'
  BY <1>1, CommitTypes DEF IInv, TypeOK, Diffs
<1>2. CASE UNCHANGED vars
  BY <1>2 DEF vars, IInv, TypeOK, PassedOnHead, Select, AffectedFiles
<1>3. ASSUME NEW s \in Shards, RunShard(s) PROVE IInv'
  <2>1. UNCHANGED <<head, main, diff, commits>>
    BY <1>3 DEF RunShard
  <2>2. \A t \in Shards : Select(t)' = Select(t)
    BY <2>1 DEF Select, AffectedFiles
  <2>3. TypeOK'
    BY <1>0, <1>3, <2>1 DEF TypeOK, RunShard, Verdicts, Diffs
  <2>4. PassedOnHead'
    <3> SUFFICES ASSUME NEW t \in Shards, verdict'[t] = "PASS"
                 PROVE  Select(t) = {} \/ Gate(Select(t), head)
      BY <2>1, <2>2 DEF PassedOnHead
    <3>1. CASE t = s
      BY <1>0, <1>3, <3>1 DEF RunShard
    <3>2. CASE t # s
      BY <1>0, <1>3, <3>2 DEF RunShard, IInv, PassedOnHead
    <3>3. QED
      BY <3>1, <3>2
  <2>5. QED
    BY <2>3, <2>4 DEF IInv
<1>4. ASSUME NEW outcome \in [Mutants -> Outcomes], NEW f \in Files, EditSource(f, outcome)
      PROVE  IInv'
  <2>1. Commit /\ head' \in Trees
    BY <1>0, <1>4 DEF EditSource, Noticed, Trees
  <2>2. diff' \in Diffs
    BY <1>0, <1>4 DEF EditSource, Diffs
  <2>3. QED
    BY <1>1, <2>1, <2>2
<1>5. ASSUME NEW outcome \in [Mutants -> Outcomes], NEW t \in Tests, EditTest(t, outcome)
      PROVE  IInv'
  <2>1. Commit /\ head' \in Trees
    BY <1>0, <1>5 DEF EditTest, Noticed, Trees
  <2>2. diff' \in Diffs
    BY <1>0, <1>5 DEF EditTest, Diffs
  <2>3. QED
    BY <1>1, <2>1, <2>2
<1>6. ASSUME NEW exceptions \in SUBSET Changes, NEW beside \in SUBSET Changes,
             EditExceptions(exceptions, beside)
      PROVE  IInv'
  <2>1. Commit /\ head' \in Trees
    BY <1>0, <1>6 DEF EditExceptions, Trees
  <2>2. main.exceptions \subseteq Changes
    BY <1>0 DEF Trees
  <2>3. diff' \in Diffs
    BY <1>0, <1>6, <2>2 DEF EditExceptions, Diffs
  <2>4. QED
    BY <1>1, <2>1, <2>3
<1>7. CASE RestoreExceptions
  <2>1. Commit /\ head' \in Trees
    BY <1>0, <1>7 DEF RestoreExceptions, Trees
  <2>2. diff' \in Diffs
    BY <1>0, <1>7 DEF RestoreExceptions, Diffs
  <2>3. QED
    BY <1>1, <2>1, <2>2
<1>8. CASE Merge
  <2>1. /\ main' = head /\ diff' = NoDiff /\ verdict' = [s \in Shards |-> "none"]
        /\ UNCHANGED <<head, commits>>
    BY <1>8 DEF Merge
  <2>2. TypeOK'
    BY <1>0, <2>1 DEF TypeOK, NoDiff, Verdicts
  <2>3. QED
    BY <2>1, <2>2, NothingPassed DEF IInv
<1>9. QED
  BY <1>2, <1>3, <1>4, <1>5, <1>6, <1>7, <1>8 DEF Next

\* The invariant holds initially.
LEMMA InitInvariant == GateAssumption /\ Init => IInv
<1> SUFFICES ASSUME GateAssumption, Init PROVE IInv
  OBVIOUS
<1>1. /\ head \in Trees /\ main \in Trees
      /\ diff \in [files: SUBSET Files, tests: SUBSET Tests, changes: SUBSET Changes, list: BOOLEAN]
  BY DEF Init, NoDiff
<1>2. verdict \in [Shards -> Verdicts] /\ commits \in 0..MaxCommits
  BY DEF Init, Verdicts, GateAssumption
<1>3. PassedOnHead
  BY DEF Init, PassedOnHead
<1>4. QED
  BY <1>1, <1>2, <1>3 DEF IInv, TypeOK

\* What is merged was answered for by the shards that own what the difference names.
LEMMA MergeAnswers ==
  ASSUME GateAssumption, IInv, Merge
  PROVE  /\ \A m \in Mutants : FileOf[m] \in Named(diff) => Answered(main', m)
         /\ \A x \in main'.exceptions :
              FilesOfChange(x) \subseteq Named(diff) => Needed(main', x)
<1>1. /\ head \in Trees /\ main' = head
      /\ \A s \in Shards : Select(s) = {} \/ Gate(Select(s), head)
  BY DEF IInv, TypeOK, Merge, PassedOnHead
<1>2. ASSUME NEW m \in Mutants, FileOf[m] \in Named(diff)
      PROVE  /\ Shard[FileOf[m]] \in Shards /\ FileOf[m] \in Select(Shard[FileOf[m]])
             /\ Gate(Select(Shard[FileOf[m]]), head)
  <2>1. FileOf[m] \in Files /\ FileOf[m] \in AffectedFiles(diff)
    BY <1>2, NamedInScope DEF Named
  <2>2. Shard[FileOf[m]] \in Shards /\ FileOf[m] \in Select(Shard[FileOf[m]])
    BY <2>1 DEF Shards, Select, Owned
  <2>3. QED
    BY <1>1, <2>2
<1>3. ASSUME NEW m \in Mutants, FileOf[m] \in Named(diff) PROVE Answered(main', m)
  BY <1>1, <1>2, <1>3, GateAnswers
<1>4. ASSUME NEW x \in main'.exceptions, FilesOfChange(x) \subseteq Named(diff)
      PROVE  Needed(main', x)
  <2>1. x \in head.exceptions /\ x \in Changes
    BY <1>1, <1>4 DEF Trees
  <2>2. PICK m \in Mutants : x = ChangeOf[m]
    BY <2>1 DEF Changes
  <2>3. FileOf[m] \in FilesOfChange(x) /\ \A f \in FilesOfChange(x) : f = FileOf[m]
    BY <2>2 DEF FilesOfChange, GateAssumption
  <2>4. /\ FilesOfChange(x) \subseteq Select(Shard[FileOf[m]])
        /\ Gate(Select(Shard[FileOf[m]]), head)
    BY <1>2, <1>4, <2>3
  <2>5. QED
    BY <1>1, <2>1, <2>4, GateNeeds
<1>5. QED
  BY <1>3, <1>4

-----------------------------------------------------------------------------
\* The theorems

\* In every reachable state the invariant holds.
THEOREM GateInvariant ==
  ASSUME GateAssumption
  PROVE  Spec => []IInv
<1>1. Init => IInv
  BY InitInvariant
<1>2. IInv /\ [Next]_vars => IInv'
  BY NextInvariant
<1>3. QED
  BY <1>1, <1>2, PTL DEF Spec

\* Trees, differences and results keep their types.
THEOREM GateTypes ==
  ASSUME GateAssumption
  PROVE  Spec => []TypeOK
<1>1. IInv => TypeOK
  BY DEF IInv
<1>2. QED
  BY <1>1, GateInvariant, PTL

\* What is merged has every mutant of a file the pull request names answered for, and every
\* exception for such a file needed, whatever commits came between the shards, took edits
\* back or rewrote the list (scripts/mutation_scope.py, select, and scripts/mutation_gate.py,
\* main).
THEOREM MergedAnsweredAlways ==
  ASSUME GateAssumption
  PROVE  Spec => MergedAnswered
<1> DEFINE Accounted ==
      /\ \A m \in Mutants : FileOf[m] \in Named(diff) => Answered(main', m)
      /\ \A x \in main'.exceptions :
           FilesOfChange(x) \subseteq Named(diff) => Needed(main', x)
<1>1. ASSUME IInv, Next, main' # main PROVE Accounted
  <2>1. Merge
    BY <1>1 DEF Next, RunShard, EditSource, EditTest, EditExceptions, RestoreExceptions, Commit
  <2>2. QED
    BY <1>1, <2>1, MergeAnswers
<1>2. IInv /\ [Next]_vars => [main' # main => Accounted]_vars
  BY <1>1 DEF vars
<1> HIDE DEF Accounted
<1>3. Spec => [][main' # main => Accounted]_vars
  BY <1>2, GateInvariant, PTL DEF Spec
<1>4. QED
  BY <1>3 DEF MergedAnswered, Accounted

=============================================================================
