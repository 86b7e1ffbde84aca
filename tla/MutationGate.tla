---------------------------- MODULE MutationGate ----------------------------
(***************************************************************************)
(* Continuous integration of a pull request, as far as mutants go: which   *)
(* files each shard mutates (scripts/mutation_scope.py), and when the      *)
(* mutants that survive there fail the shard (scripts/mutation_gate.py).   *)
(*                                                                         *)
(* The tests of a shard are whole suites, which exercise more than they    *)
(* import: a commit that edits a source or a test may change what becomes  *)
(* of every mutant, and which lines are covered at all.                    *)
(***************************************************************************)
EXTENDS Integers, FiniteSets

CONSTANTS Files,
          Shard,       \* file -> the shard that owns it
          Mutants,
          FileOf,      \* mutant -> its file
          ChangeOf,    \* mutant -> the change of a line it makes
          Equivalent,  \* the mutants a rule proves to change nothing
          Tests,
          Imports,     \* test -> the files it imports
          MaxCommits   \* commits (bound)

Shards == {Shard[f] : f \in Files}

Changes == {ChangeOf[m] : m \in Mutants}

FilesOfChange(x) == {FileOf[m] : m \in {n \in Mutants : ChangeOf[n] = x}}

\* Mutants of lines no test covers are not made (mutate_only_covered_lines).
Outcomes == {"killed", "survived", "timeout", "uncovered"}

GateAssumption ==
  /\ Shard \in [Files -> Shards] /\ FileOf \in [Mutants -> Files]
  /\ Equivalent \subseteq Mutants /\ Imports \in [Tests -> SUBSET Files]
  /\ MaxCommits \in Nat /\ IsFiniteSet(Mutants)
  /\ \A m, n \in Mutants : ChangeOf[m] = ChangeOf[n] => FileOf[m] = FileOf[n]

VARIABLES
  head,     \* what the pull request holds: the outcome of each mutant, the exceptions
  main,     \* what the main branch holds
  diff,     \* what the pull request changes: sources, tests, exceptions it touches
  verdict,  \* shard -> its result on the head
  commits

vars == <<head, main, diff, verdict, commits>>

Trees == [outcome: [Mutants -> Outcomes], exceptions: SUBSET Changes]

NoDiff == [files |-> {}, tests |-> {}, changes |-> {}, list |-> FALSE]

Verdicts == {"none", "PASS", "FAIL"}

TypeOK ==
  /\ head \in Trees /\ main \in Trees
  /\ diff \in [files: SUBSET Files, tests: SUBSET Tests, changes: SUBSET Changes, list: BOOLEAN]
  /\ verdict \in [Shards -> Verdicts]
  /\ commits \in 0..MaxCommits

Init ==
  /\ main \in Trees
  /\ head = main
  /\ diff = NoDiff
  /\ verdict = [s \in Shards |-> "none"]
  /\ commits = 0

-----------------------------------------------------------------------------
\* The scope of a shard (mutation_scope.py)

\* Faulty variant: what changed tests import is forgotten.
ChangedOnly(d) == d.files

\* A list changed without naming an entry concerns every file it names.
AffectedFiles(d) ==
  d.files \cup (UNION {Imports[t] : t \in d.tests})
    \cup (UNION {FilesOfChange(x) : x \in
                   IF d.list /\ d.changes = {} THEN head.exceptions ELSE d.changes})

Owned(s) == {f \in Files : Shard[f] = s}

Select(s) == Owned(s) \cap AffectedFiles(diff)

-----------------------------------------------------------------------------
\* The gate (mutation_gate.py)

In(scope, tree, outcome) ==
  {m \in Mutants : FileOf[m] \in scope /\ tree.outcome[m] = outcome}

\* The exceptions for a file of the scope that has survivors at all.
InScope(scope, tree) ==
  {x \in tree.exceptions :
     FilesOfChange(x) \subseteq scope \cap {FileOf[m] : m \in In(scope, tree, "survived")}}

Reviewed(names, exceptions) == {m \in names : ChangeOf[m] \in exceptions}

\* Every mutant of the scope is accounted for, and every exception is used.  A scope
\* without mutants has no evidence.
Gate(scope, tree) ==
  LET names == In(scope, tree, "survived")
      proven == names \cap Equivalent
      exceptions == InScope(scope, tree)
      reviewed == Reviewed(names \ proven, exceptions)
      stale == exceptions \ {ChangeOf[m] : m \in reviewed}
  IN /\ \E m \in Mutants : FileOf[m] \in scope /\ tree.outcome[m] # "uncovered"
     /\ Cardinality(names) = Cardinality(proven) + Cardinality(reviewed)
     /\ In(scope, tree, "timeout") = {}
     /\ stale = {}

\* A shard with nothing to mutate passes.
RunShard(s) ==
  /\ verdict[s] = "none" /\ diff # NoDiff
  /\ verdict' = [verdict EXCEPT ![s] =
       IF Select(s) = {} \/ Gate(Select(s), head) THEN "PASS" ELSE "FAIL"]
  /\ UNCHANGED <<head, main, diff, commits>>

-----------------------------------------------------------------------------
\* The pull request

\* A commit has every shard run again.
Commit ==
  /\ commits < MaxCommits /\ commits' = commits + 1
  /\ verdict' = [s \in Shards |-> "none"]
  /\ UNCHANGED main

\* What becomes of the mutants is decided anew.
Noticed(outcome) == head' = [head EXCEPT !.outcome = outcome]

\* A source is edited, or is again as the main branch has it.
EditSource(f, outcome) ==
  /\ Commit /\ Noticed(outcome)
  /\ diff' \in {[diff EXCEPT !.files = @ \cup {f}], [diff EXCEPT !.files = @ \ {f}]}

\* A test is edited or, being as the main branch has it or deleted (--diff-filter=ACMR), is
\* not among the changed files.
EditTest(t, outcome) ==
  /\ Commit /\ Noticed(outcome)
  /\ diff' \in {[diff EXCEPT !.tests = @ \cup {t}], [diff EXCEPT !.tests = @ \ {t}]}

\* The list of exceptions is written anew; the difference shows the entries that are not as
\* the main branch has them, and some that sit beside them.
EditExceptions(exceptions, beside) ==
  LET moved == (exceptions \ main.exceptions) \cup (main.exceptions \ exceptions) IN
  /\ Commit
  /\ head' = [head EXCEPT !.exceptions = exceptions]
  /\ diff' = [diff EXCEPT !.list = TRUE, !.changes = moved \cup beside]

\* The list is again as the main branch has it.
RestoreExceptions ==
  /\ Commit
  /\ head' = [head EXCEPT !.exceptions = main.exceptions]
  /\ diff' = [diff EXCEPT !.list = FALSE, !.changes = {}]

\* The check `mutation` passes only if each shard does.
Merge ==
  /\ \A s \in Shards : verdict[s] = "PASS"
  /\ main' = head
  /\ diff' = NoDiff
  /\ verdict' = [s \in Shards |-> "none"]
  /\ UNCHANGED <<head, commits>>

-----------------------------------------------------------------------------
Next ==
  \/ \E s \in Shards : RunShard(s)
  \/ \E outcome \in [Mutants -> Outcomes] :
       \/ \E f \in Files : EditSource(f, outcome)
       \/ \E t \in Tests : EditTest(t, outcome)
  \/ \E exceptions, beside \in SUBSET Changes : EditExceptions(exceptions, beside)
  \/ RestoreExceptions
  \/ Merge

Spec == Init /\ [][Next]_vars

-----------------------------------------------------------------------------
\* Properties

\* What a pull request names: "a changed source file, a module imported by a changed test,
\* and a module named by a changed entry" of the exceptions (mutation_scope.py:10-13).
Named(d) ==
  {f \in Files : \/ f \in d.files
                 \/ \E t \in d.tests : f \in Imports[t]
                 \/ \E m \in Mutants : FileOf[m] = f /\ ChangeOf[m] \in d.changes}

\* Somebody answers for the mutant: a test, a proof or a reviewer; or it is never made.
Answered(tree, m) ==
  \/ tree.outcome[m] \in {"killed", "uncovered"}
  \/ /\ tree.outcome[m] = "survived"
     /\ m \in Equivalent \/ ChangeOf[m] \in tree.exceptions

\* An exception is needed, or its whole file has no survivor.
Needed(tree, x) ==
  \/ \E m \in Mutants : /\ ChangeOf[m] = x /\ tree.outcome[m] = "survived"
                        /\ m \notin Equivalent
  \/ \A m \in Mutants : FileOf[m] \in FilesOfChange(x) => tree.outcome[m] # "survived"

\* What is merged has every mutant of a file the pull request names answered for, and every
\* exception for such a file needed, by the tests and the list that are merged: whatever
\* commits came between the shards, took edits back or rewrote the list.
MergedAnswered ==
  [][main' # main =>
       /\ \A m \in Mutants : FileOf[m] \in Named(diff) => Answered(main', m)
       /\ \A x \in main'.exceptions :
            FilesOfChange(x) \subseteq Named(diff) => Needed(main', x)]_vars

-----------------------------------------------------------------------------
\* What the documentation says

\* "A pull request mutates only the files its diff can affect" (.github/workflows/ci.yml:91):
\* so pull requests keep every mutant of the main branch answered for.
MainStaysAnswered ==
  [][(\A m \in Mutants : Answered(main, m)) => \A m \in Mutants : Answered(main', m)]_vars

\* "An exception that matches no survivor fails the gate: the list cannot keep entries for
\* mutants that were killed or removed" (mutation_gate.py).
ExceptionsNeeded ==
  [][main' # main => \A x \in main'.exceptions \ main.exceptions :
       \E m \in Mutants : ChangeOf[m] = x /\ main'.outcome[m] = "survived"]_vars
=============================================================================
