----------------------------- MODULE Assurance ------------------------------
(***************************************************************************)
(* The assurance engine of one task (control/assurance/ and the proof      *)
(* side of control/verification.py): claims compiled from the contract and *)
(* from the files the task changed, evidence bound to what a claim depends *)
(* on, routes that escalate, owner waivers, human verdicts, and the gate a *)
(* task passes to be completed.                                            *)
(*                                                                         *)
(* The state of a claim is never stored: Resolution computes it from the   *)
(* evidence and from what the files hold now.                              *)
(*                                                                         *)
(* A call that reads, and writes in a later transaction, is two or three   *)
(* steps; what it read is kept in `call`.  Compilation also reads before   *)
(* its transaction, but writes only records that have not changed since,   *)
(* so one step stands for it.                                              *)
(***************************************************************************)
EXTENDS Integers, FiniteSets

CONSTANTS Claims,       \* obligations that can arise for the task
          Contractual,  \* those derived from an acceptance criterion
          ByRisk,       \* those the risk of the task asks for, whatever changed
          HumanOnly,    \* those only a human can settle
          Forecast,     \* those the declared scope raises before any change
          RaisedBy,     \* claim -> the files whose change raises it
          Specs,        \* the verifiers the task declares
          Supplies,     \* claim -> the verifiers that can settle it
          Level,        \* verifier -> its depth
          Rank,         \* verifier -> its place in the planner's order
          Judgment,     \* verifiers that give an opinion
          Dominated,    \* claims some deterministic kind can reach
          Human,        \* the verifier that stands for a human verdict
          Files, Contents, Baseline,  \* the scope of the task; contents when claimed
          Deepest,      \* the last level of escalation
          MaxPolicy,    \* policy changes (bound)
          MaxEvidence,  \* distinct evidence records (bound)
          Procs,        \* calls in progress at a time (bound)
          None          \* absent record

ASSUME AssuranceAssumption ==
  /\ Contractual \subseteq Claims /\ ByRisk \subseteq Claims
  /\ HumanOnly \subseteq ByRisk \ Contractual /\ Forecast \subseteq Claims
  /\ RaisedBy \in [Claims -> SUBSET Files]
  /\ Supplies \in [Claims -> SUBSET Specs]
  /\ Level \in [Specs -> 1..Deepest] /\ Rank \in [Specs -> Nat]
  /\ \A s, t \in Specs : Rank[s] <= Rank[t] => Level[s] <= Level[t]
  /\ Human \notin Specs
  /\ Baseline \in Contents
  /\ Deepest \in Nat \ {0} /\ MaxPolicy \in Nat /\ MaxEvidence \in Nat

VARIABLES
  content,     \* file -> what it holds
  policy,      \* version of the policy
  obligation,  \* claim -> its record, or None
  evidence,    \* the evidence records
  latest,      \* verifier -> the part of its last record completion reads, or None
  state,       \* execution state of the task
  call         \* process -> the call it executes, or None

vars == <<content, policy, obligation, evidence, latest, state, call>>

-----------------------------------------------------------------------------
\* Types

Verifiers == Specs \cup {Human}

Obligation == [enforced: BOOLEAN, waived: BOOLEAN, paths: SUBSET Files,
               floor: 1..Deepest, required: SUBSET Verifiers]

ASSUME AbsentAssumption == None \notin Obligation

\* What a claim depends on: its files, its verifiers and the policy.
Bindings == [files: UNION {[fs -> Contents] : fs \in SUBSET Files},
             required: SUBSET Verifiers, policy: 0..MaxPolicy]

TaskBindings == [files: [Files -> Contents], policy: 0..MaxPolicy]

\* An evidence record: the claims it was produced for, with their bindings before
\* the run, and the binding of the task before and after.
Evidence == [verifier: Verifiers, result: {"PASS", "FAIL", "BLOCKED"},
             stamp: [Claims -> Bindings \cup {None}],
             before: TaskBindings, after: TaskBindings]

Latest == [result: {"PASS", "FAIL", "BLOCKED"}, before: TaskBindings, stale: BOOLEAN]

Run == [op: {"run"}, pc: {"bound", "stamped", "running", "measured"},
        todo: SUBSET Specs, clean: BOOLEAN, stamp: [Claims -> Bindings \cup {None}],
        before: TaskBindings, after: TaskBindings]

Escalation == [op: {"escalate"}, claims: SUBSET Claims]

Waiver == [op: {"waive"}, claim: Claims, read: Obligation]

Completion == [op: {"complete"}, pc: {"compiled", "gated"}]

Calls == Run \cup Escalation \cup Waiver \cup Completion

TypeOK ==
  /\ content \in [Files -> Contents]
  /\ policy \in 0..MaxPolicy
  /\ obligation \in [Claims -> Obligation \cup {None}]
  /\ evidence \subseteq Evidence
  /\ latest \in [Specs -> Latest \cup {None}]
  /\ state \in {"CLAIMED", "RUNNING", "VERIFYING", "FAILED", "COMPLETED",
                "NEEDS_REVALIDATION"}
  /\ call \in [Procs -> Calls \cup {None}]

Init ==
  /\ content = [f \in Files |-> Baseline]
  /\ policy = 0
  /\ obligation = [c \in Claims |-> None]
  /\ evidence = {}
  /\ latest = [s \in Specs |-> None]
  /\ state = "CLAIMED"
  /\ call = [p \in Procs |-> None]

-----------------------------------------------------------------------------
\* What evidence is worth (resolver.py)

TaskBinding == [files |-> content, policy |-> policy]

Binding(c) == [files |-> [f \in obligation[c].paths |-> content[f]],
               required |-> obligation[c].required, policy |-> policy]

\* Evidence recorded before the claim existed still speaks for its criterion.
Matches(e, c) ==
  e.stamp[c] # None \/ (c \in Contractual /\ e.verifier \in Supplies[c])

\* Faulty variant: takes a run whose inputs moved for proof.
AnyRun(e) == TRUE

Consistent(e) == e.before = e.after

CurrentFor(e, c) ==
  /\ Consistent(e)
  /\ IF e.stamp[c] # None THEN e.stamp[c] = Binding(c) ELSE e.before = TaskBinding

\* A verifier the route was escalated away from no longer speaks for the claim.
Matched(c) ==
  {e \in evidence : /\ Matches(e, c)
                    /\ obligation[c].required = {} \/ e.verifier \in obligation[c].required}

Current(c) == {e \in Matched(c) : CurrentFor(e, c)}

Results(c) == {e.result : e \in Current(c)}

Proven(c) ==
  {e.verifier : e \in {d \in Current(c) :
     d.result = "PASS" /\ ~(c \in Dominated /\ d.verifier \in Judgment)}}

Undecided(c) ==
  IF Matched(c) # Current(c) THEN "STALE"
  ELSE IF c \in HumanOnly THEN "HUMAN_REQUIRED" ELSE "UNRESOLVED"

\* Faulty variant: a pass is enough, whatever else current evidence says.
PassFirst(c) ==
  IF obligation[c].waived THEN "WAIVED"
  ELSE IF obligation[c].required # {} /\ obligation[c].required \subseteq Proven(c)
       THEN "VERIFIED"
  ELSE IF "FAIL" \in Results(c) THEN "FAILED" ELSE Undecided(c)

Resolution(c) ==
  IF obligation[c].waived THEN "WAIVED"
  ELSE IF {"FAIL", "PASS"} \subseteq Results(c) THEN "CONFLICTED"
  ELSE IF "FAIL" \in Results(c) THEN "FAILED"
  ELSE IF "BLOCKED" \in Results(c) THEN "BLOCKED"
  ELSE IF obligation[c].required = {} THEN "UNKNOWN"
  ELSE IF obligation[c].required \subseteq Proven(c) THEN "VERIFIED"
  ELSE Undecided(c)

Recorded == {c \in Claims : obligation[c] # None}

Debt == {c \in Recorded : obligation[c].enforced /\ Resolution(c) \notin {"VERIFIED", "WAIVED"}}

\* completion_proof: the last record of every declared verifier passed and is fresh.
ProofHolds ==
  \A s \in Specs : /\ latest[s] # None
                   /\ latest[s].result = "PASS" /\ ~latest[s].stale
                   /\ latest[s].before = TaskBinding

-----------------------------------------------------------------------------
\* Compilation (compiler.py, planner.py, model.monotonic, service.compile_plan)

Changed == {f \in Files : content[f] # Baseline}

Raised(phase) ==
  Contractual \cup ByRisk \cup
    (IF phase = "INITIAL" THEN Forecast
     ELSE {c \in Claims : RaisedBy[c] \cap Changed # {}})

\* A forecast, and a claim without paths of its own, bind to the declared scope.
AffectedPaths(c, phase) ==
  IF phase = "INITIAL" \/ c \in Contractual THEN Files
  ELSE IF c \notin ByRisk THEN RaisedBy[c] \cap Changed
  ELSE IF Changed = {} THEN Files ELSE Changed

Floor(c) == IF obligation[c] = None THEN 1 ELSE obligation[c].floor

Candidates(c, floor) == {s \in Supplies[c] : Level[s] >= floor}

Cheapest(c, floor) ==
  {s \in Candidates(c, floor) : \A t \in Candidates(c, floor) : Rank[s] <= Rank[t]}

Route(c) ==
  IF c \in Contractual THEN Supplies[c]
  ELSE IF c \in HumanOnly THEN {Human}
  ELSE Cheapest(c, Floor(c))

\* The floor follows the level of the route; that of a contract claim is not read.
Depth(c) ==
  IF c \in HumanOnly THEN Deepest
  ELSE IF c \in Contractual \/ Route(c) = {} THEN Floor(c)
  ELSE CHOOSE n \in 1..Deepest : \E s \in Route(c) : Level[s] = n

Candidate(c, phase) ==
  [enforced |-> phase = "RECONCILED" \/ c \in Contractual, waived |-> FALSE,
   paths |-> AffectedPaths(c, phase), floor |-> Depth(c), required |-> Route(c)]

\* Faulty variant: the route accumulates like the other sets.
MonotonicRoute(old, new) ==
  [enforced |-> old.enforced \/ new.enforced, waived |-> old.waived,
   paths |-> old.paths \cup new.paths,
   floor |-> IF old.floor > new.floor THEN old.floor ELSE new.floor,
   required |-> old.required \cup new.required]

\* Nothing recorded is weakened, except that the route is the new one, even an
\* empty one: the contraction found then is only reported.
Monotonic(old, new) ==
  [enforced |-> old.enforced \/ new.enforced, waived |-> old.waived,
   paths |-> old.paths \cup new.paths,
   floor |-> IF old.floor > new.floor THEN old.floor ELSE new.floor,
   required |-> new.required]

Compiled(phase) ==
  [c \in Claims |->
     IF c \notin Raised(phase) THEN obligation[c]
     ELSE IF obligation[c] = None THEN Candidate(c, phase)
     ELSE Monotonic(obligation[c], Candidate(c, phase))]

CompilePlan(phase) ==
  /\ obligation' = Compiled(phase)
  /\ UNCHANGED <<content, policy, evidence, latest, state, call>>

-----------------------------------------------------------------------------
\* Verifier runs (verification.verify)

Idle(p) == call[p] = None

Ends(p) == call' = [call EXCEPT ![p] = None]

Verifiable == state \in {"CLAIMED", "VERIFYING", "FAILED"}

InRun(p, pcs) == ~Idle(p) /\ call[p].op = "run" /\ call[p].pc \in pcs

\* The run of the call is the active one of the task.
Active(p) == InRun(p, {"running", "measured"})

\* The files are read twice before the run: for the binding of the task,
BindRun(p) ==
  /\ Idle(p) /\ Verifiable
  /\ Cardinality(evidence) < MaxEvidence
  /\ call' = [call EXCEPT ![p] =
       [op |-> "run", pc |-> "bound", todo |-> {}, clean |-> TRUE,
        stamp |-> [c \in Claims |-> None], before |-> TaskBinding, after |-> TaskBinding]]
  /\ UNCHANGED <<content, policy, obligation, evidence, latest, state>>

\* and for those of its claims.
StampRun(p) ==
  /\ InRun(p, {"bound"})
  /\ call' = [call EXCEPT ![p].pc = "stamped", ![p].stamp =
       [c \in Claims |-> IF obligation[c] = None THEN None ELSE Binding(c)]]
  /\ UNCHANGED <<content, policy, obligation, evidence, latest, state>>

\* The transaction that marks the run.
StartRun(p, specs) ==
  /\ InRun(p, {"stamped"}) /\ Verifiable
  /\ Cardinality(evidence) + Cardinality(specs) <= MaxEvidence
  /\ state' = "RUNNING"
  /\ call' = [call EXCEPT ![p].pc = "running", ![p].todo = specs]
  /\ UNCHANGED <<content, policy, obligation, evidence, latest>>

\* A verifier ended, and the files are read for the binding of the task once more.
MeasureRun(p) ==
  /\ InRun(p, {"running"}) /\ call[p].todo # {}
  /\ call' = [call EXCEPT ![p].pc = "measured", ![p].after = TaskBinding]
  /\ UNCHANGED <<content, policy, obligation, evidence, latest, state>>

\* Its evidence is recorded.  BLOCKED: it reached no verdict, or the lease was lost.
RecordEvidence(p, s, result) ==
  /\ InRun(p, {"measured"}) /\ s \in call[p].todo
  /\ LET stamp == [c \in Claims |->
           IF call[p].stamp[c] # None /\ s \in call[p].stamp[c].required
           THEN call[p].stamp[c] ELSE None]
         e == [verifier |-> s, result |-> result, stamp |-> stamp,
               before |-> call[p].before, after |-> call[p].after]
     IN /\ evidence' = evidence \cup {e}
        /\ latest' = [latest EXCEPT ![s] =
             [result |-> result, before |-> e.before, stale |-> ~Consistent(e)]]
        /\ call' = [call EXCEPT ![p].pc = "running", ![p].todo = @ \ {s},
             ![p].clean = @ /\ result = "PASS" /\ Consistent(e)]
  /\ UNCHANGED <<content, policy, obligation, state>>

\* After the last verifier, or on an exception.
FinishRun(p, passed) ==
  /\ Active(p)
  /\ passed => call[p].todo = {} /\ call[p].clean
  /\ state' = IF passed THEN "VERIFYING" ELSE "FAILED"
  /\ Ends(p)
  /\ UNCHANGED <<content, policy, obligation, evidence, latest>>

-----------------------------------------------------------------------------
\* Escalation (service.escalate)

\* verify reports the debt, then raises the claims whose route gave no verdict.
StartEscalate(p) ==
  /\ Idle(p)
  /\ LET silent == {c \in Debt \ Contractual : Resolution(c) \in {"UNKNOWN", "BLOCKED"}}
     IN /\ silent # {}
        /\ call' = [call EXCEPT ![p] = [op |-> "escalate", claims |-> silent]]
  /\ UNCHANGED <<content, policy, obligation, evidence, latest, state>>

\* Faulty variant: no last level.
Bottomless(c) == TRUE

CanDeepen(c) == obligation[c].floor < Deepest

Escalate(p) ==
  /\ ~Idle(p) /\ call[p].op = "escalate"
  /\ obligation' = [c \in Claims |->
       IF c \in call[p].claims /\ CanDeepen(c)
       THEN [obligation[c] EXCEPT !.floor = @ + 1] ELSE obligation[c]]
  /\ Ends(p)
  /\ UNCHANGED <<content, policy, evidence, latest, state>>

-----------------------------------------------------------------------------
\* The owner (service.waive, service.resolve_human)

StartWaive(p, c) ==
  /\ Idle(p) /\ c \in Recorded
  /\ Resolution(c) \notin {"FAILED", "CONFLICTED"}
  /\ call' = [call EXCEPT ![p] = [op |-> "waive", claim |-> c, read |-> obligation[c]]]
  /\ UNCHANGED <<content, policy, obligation, evidence, latest, state>>

\* Faulty variant: writes the record it read over whatever is there.
WaiveBlindly(p) ==
  /\ ~Idle(p) /\ call[p].op = "waive"
  /\ obligation' = [obligation EXCEPT ![call[p].claim] = [call[p].read EXCEPT !.waived = TRUE]]
  /\ Ends(p)
  /\ UNCHANGED <<content, policy, evidence, latest, state>>

\* The record must be the one read: its version is in the code, its fields are here, and
\* no write restores earlier ones.  A write that changes no field kept here refuses the
\* waiver in the code, where the model also has GiveUp.
Waive(p) ==
  /\ ~Idle(p) /\ call[p].op = "waive"
  /\ obligation[call[p].claim] = call[p].read
  /\ obligation' = [obligation EXCEPT ![call[p].claim] = [call[p].read EXCEPT !.waived = TRUE]]
  /\ Ends(p)
  /\ UNCHANGED <<content, policy, evidence, latest, state>>

\* The claim is bound before the transaction, the task in it: of a human verdict only the
\* former is ever compared, so one step stands for both.
ResolveHuman(c, accepted) ==
  /\ c \in HumanOnly \cap Recorded
  /\ Cardinality(evidence) < MaxEvidence
  /\ evidence' = evidence \cup
       {[verifier |-> Human, result |-> IF accepted THEN "PASS" ELSE "FAIL",
         stamp |-> [d \in Claims |-> IF d = c THEN Binding(c) ELSE None],
         before |-> TaskBinding, after |-> TaskBinding]}
  /\ UNCHANGED <<content, policy, obligation, latest, state, call>>

-----------------------------------------------------------------------------
\* Completion (verification.complete) and what undoes it

\* The checks before the transaction, and the reconciliation of the gate.
StartComplete(p) ==
  /\ Idle(p) /\ state = "VERIFYING" /\ ProofHolds
  /\ obligation' = Compiled("RECONCILED")
  /\ call' = [call EXCEPT ![p] = [op |-> "complete", pc |-> "compiled"]]
  /\ UNCHANGED <<content, policy, evidence, latest, state>>

\* The gate reads the debt.
PassGate(p) ==
  /\ ~Idle(p) /\ call[p].op = "complete" /\ call[p].pc = "compiled"
  /\ Debt = {}
  /\ call' = [call EXCEPT ![p].pc = "gated"]
  /\ UNCHANGED <<content, policy, obligation, evidence, latest, state>>

\* The transaction repeats every check but that of the gate.
Complete(p) ==
  /\ ~Idle(p) /\ call[p].op = "complete" /\ call[p].pc = "gated"
  /\ state = "VERIFYING" /\ ProofHolds
  /\ state' = "COMPLETED"
  /\ Ends(p)
  /\ UNCHANGED <<content, policy, obligation, evidence, latest>>

Stale(s) == latest[s] # None /\ latest[s].before # TaskBinding

Marked == [s \in Specs |-> IF Stale(s) THEN [latest[s] EXCEPT !.stale = TRUE] ELSE latest[s]]

\* Faulty variant: marks the evidence and leaves the task.
MarkOnly ==
  /\ latest' = Marked
  /\ UNCHANGED <<content, policy, obligation, evidence, state, call>>

\* invalidate: the evidence is marked, and a completed task without proof reopened.
Invalidate ==
  /\ latest' = Marked
  /\ state' = IF state = "COMPLETED" /\ ~ProofHolds THEN "NEEDS_REVALIDATION" ELSE state
  /\ UNCHANGED <<content, policy, obligation, evidence, call>>

\* Made ready and claimed again.
Reclaim ==
  /\ state = "NEEDS_REVALIDATION"
  /\ state' = "CLAIMED"
  /\ UNCHANGED <<content, policy, obligation, evidence, latest, call>>

-----------------------------------------------------------------------------
\* The environment

\* Somebody writes a file, also during a run; an earlier content may come back.
Edit(f, data) ==
  /\ content[f] # data
  /\ content' = [content EXCEPT ![f] = data]
  /\ UNCHANGED <<policy, obligation, evidence, latest, state, call>>

\* Approving a command, or another change of the policy.
ChangePolicy ==
  /\ policy < MaxPolicy
  /\ policy' = policy + 1
  /\ UNCHANGED <<content, obligation, evidence, latest, state, call>>

\* A call is refused, fails or is killed.  The task of a killed run is swept and
\* claimed again (TaskLifecycle).
GiveUp(p) ==
  /\ ~Idle(p)
  /\ state' = IF Active(p) THEN "CLAIMED" ELSE state
  /\ Ends(p)
  /\ UNCHANGED <<content, policy, obligation, evidence, latest>>

-----------------------------------------------------------------------------
Next ==
  \/ \E phase \in {"INITIAL", "RECONCILED"} : CompilePlan(phase)
  \/ \E c \in Claims, accepted \in BOOLEAN : ResolveHuman(c, accepted)
  \/ Invalidate
  \/ Reclaim
  \/ \E f \in Files, data \in Contents : Edit(f, data)
  \/ ChangePolicy
  \/ \E p \in Procs :
       \/ BindRun(p)
       \/ StampRun(p)
       \/ \E specs \in (SUBSET Specs) \ {{}} : StartRun(p, specs)
       \/ MeasureRun(p)
       \/ \E s \in Specs, result \in {"PASS", "FAIL", "BLOCKED"} : RecordEvidence(p, s, result)
       \/ \E passed \in BOOLEAN : FinishRun(p, passed)
       \/ StartEscalate(p)
       \/ Escalate(p)
       \/ \E c \in Claims : StartWaive(p, c)
       \/ Waive(p)
       \/ StartComplete(p)
       \/ PassGate(p)
       \/ Complete(p)
       \/ GiveUp(p)

Spec == Init /\ [][Next]_vars

\* Somebody asks for the status, or reconciles, now and then.
FairSpec == Spec /\ WF_vars(Invalidate)

-----------------------------------------------------------------------------
\* Action properties

\* "Assurance scope may expand automatically. Assurance scope must never contract
\* silently" (docs/v2.1): whatever calls overlap, no step drops a claim, its
\* enforcement, a path it depends on, its depth or its waiver.
ObligationsOnlyWiden ==
  [][\A c \in Recorded :
       /\ obligation'[c] # None
       /\ obligation[c].enforced => obligation'[c].enforced
       /\ obligation[c].waived => obligation'[c].waived
       /\ obligation[c].paths \subseteq obligation'[c].paths
       /\ obligation[c].floor <= obligation'[c].floor]_vars

\* A route is only replaced by a deeper one, so a verifier the claim was escalated
\* away from never speaks for it again.
RouteOnlyDeepens ==
  [][\A c \in Recorded :
       obligation'[c].required # obligation[c].required =>
         \A s \in obligation[c].required, t \in obligation'[c].required :
           s \in Specs /\ t \in Specs /\ Level[s] < Level[t]]_vars

Refuted(c) == Resolution(c) \in {"FAILED", "CONFLICTED"}

\* A claim that current evidence refutes stays refuted until what it depends on
\* changes or the owner waives it: running again does not bury a failure.
RefutedStands ==
  [][\A c \in Recorded :
       Refuted(c) /\ Binding(c)' = Binding(c) => Refuted(c)' \/ obligation'[c].waived]_vars

\* A task is completed only on passes of every declared verifier from runs that read, first
\* and last, the files and the policy of the step that completes it, whatever was edited,
\* run and invalidated since the gate.
CompletedOnProvenInputs ==
  [][state # "COMPLETED" /\ state' = "COMPLETED" =>
       \A s \in Specs :
         \E e \in evidence : /\ e.verifier = s /\ e.result = "PASS"
                            /\ e.before = TaskBinding /\ e.after = TaskBinding]_vars

-----------------------------------------------------------------------------
\* Liveness

\* A completed task whose proof no longer holds does not stay completed: it is
\* reopened, or the inputs of its proof come back.
StaleCompletionReopened == []<>~(state = "COMPLETED" /\ ~ProofHolds)

-----------------------------------------------------------------------------
\* What the documentation says

\* "a waiver is refused outright while current evidence refutes the claim"
\* (docs/v2.1/README.md): the step that waives a claim does not find it refuted.
WaiverHidesNoFailure ==
  [][\A c \in Recorded :
       ~obligation[c].waived /\ obligation'[c].waived => ~Refuted(c)]_vars

\* "A task cannot complete while any mandatory obligation is FAILED, ..."
\* (docs/v2.1/README.md): there is no debt at the step that completes it.
CompletedWithoutDebt == [][state # "COMPLETED" /\ state' = "COMPLETED" => Debt = {}]_vars

\* A recompile "can never ... leave a claim with no verifier. Anything that would do
\* so is refused" (docs/v2.1/README.md).
ClaimKeepsVerifier ==
  [][\A c \in Recorded :
       obligation[c].required # {} => obligation'[c].required # {}]_vars

\* "A run whose own inputs moved underneath it never proves anything"
\* (control/assurance/resolver.py): a claim is VERIFIED only by passes of runs that ended
\* on the files and the policy it depends on now.
VerifiedOnSameInputs ==
  \A c \in Recorded :
    Resolution(c) = "VERIFIED" =>
      \A v \in obligation[c].required :
        \E e \in evidence :
          /\ e.verifier = v /\ e.result = "PASS"
          /\ e.after.policy = policy
          /\ \A f \in obligation[c].paths : e.after.files[f] = content[f]
=============================================================================
