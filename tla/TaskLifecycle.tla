--------------------------- MODULE TaskLifecycle ----------------------------
(***************************************************************************)
(* Tasks, leases and verification runs of the control plane                *)
(* (control/plane.py, control/verification.py, control/workspaces.py).     *)
(*                                                                         *)
(* Agents, the owner and verify processes share one SQLite database.  A    *)
(* BEGIN IMMEDIATE transaction is one atomic step here.  `verify` is not   *)
(* one transaction: it checks its conditions outside any (Preflight),      *)
(* marks the run in a second transaction (Begin), records each verifier's  *)
(* result in one of its own (Record) and closes the run in a last one      *)
(* (Finish); other agents, the clock and a crash come in between.          *)
(*                                                                         *)
(* Deadlines are kept as the time left: Tick lowers every one, and a lease *)
(* or a run has run out when nothing is left.                              *)
(*                                                                         *)
(* What readiness, completion_proof, proof_current and check_changes say   *)
(* depends on files, knowledge and evidence, which are not part of this    *)
(* module: a step they guard may or may not be possible at any time.       *)
(***************************************************************************)
EXTENDS ParallelSafety, FiniteSets

CONSTANTS Tasks, Agents,
          LeaseIds,      \* lease records alive at a time (bound)
          Procs,         \* verify processes alive at a time (bound)
          Contract,      \* the contract of each task
          Capable,       \* the agents that have the task's capabilities
          Files,         \* paths of the files of the repository
          MaxLease,      \* policy: max_lease_seconds, in ticks
          MaxRetries,    \* budget: max_retries
          MaxRuntime,    \* budget: max_runtime, in ticks
          Overrun,       \* what a gate takes beyond its timeout, in ticks (bound)
          Margin,        \* the 30 seconds added to a run's deadline, in ticks
          MaxVerifiers,  \* verifiers a contract declares
          None           \* absent record

ASSUME ConstantsAssumption ==
  /\ Contract \in [Tasks -> Contracts]
  /\ Capable \in [Tasks -> SUBSET Agents]
  /\ MaxLease \in Nat \ {0} /\ MaxRetries \in Nat
  /\ MaxRuntime \in Nat \ {0} /\ Margin \in Nat \ {0} /\ Overrun \in Nat
  /\ MaxVerifiers \in Nat \ {0}
  /\ IsFiniteSet(Procs)
  /\ None \notin [task: Tasks, agent: Agents, ttl: Nat]
  /\ None \notin [id: Nat, ttl: Nat]

ASSUME FilesAssumption == Files \in SUBSET Seq(PathNames)

VARIABLES
  state,         \* task -> its execution state
  blocker,       \* task -> waits for a human decision
  attempts,      \* task -> verification runs begun
  runtimeUsed,   \* task -> runtime charged to its budget
  checkpointed,  \* task -> has a checkpoint
  isolated,      \* task -> has a worktree of its own
  run,           \* task -> its active run, or None
  lease,         \* lease id -> the ACTIVE lease it names, or None
  proc,          \* process -> the verify call it executes, or None
  gone           \* agents that stopped for good

taskVars == <<state, blocker, attempts, runtimeUsed, checkpointed, isolated>>
vars == <<taskVars, run, lease, proc, gone>>

-----------------------------------------------------------------------------
\* Types

TaskStates == {"PLANNED", "READY", "CLAIMED", "RUNNING", "BLOCKED", "VERIFYING",
               "FAILED", "COMPLETED", "NEEDS_REVALIDATION", "CANCELLED",
               "SUPERSEDED"}

MaxWindow == MaxRuntime + Margin

\* What a task may be charged: its budget, and what the last gate took beyond it.
MaxCharge == MaxRuntime + Overrun

LongestLease == IF MaxLease > MaxWindow THEN MaxLease ELSE MaxWindow

\* A lease that ended (EXPIRED, RELEASED, REVOKED) is never read again except
\* to see that it is not ACTIVE: its record is None.
ActiveLease == [task: Tasks, agent: Agents, ttl: 0..LongestLease]

\* Run ids are fresh uids; the number of the attempt stands for them.
ActiveRun == [id: Nat, ttl: 0..MaxWindow]

\* A verify call: what its first reads saw, and what it did since.
VerifyCall == [pc: {"armed", "running"}, task: Tasks, agent: Agents,
               lease: LeaseIds,         \* the lease of the first reads
               run: Nat,                \* its run id once begun
               used: 0..MaxCharge,      \* runtime as it accounts for it
               todo: 0..MaxVerifiers,   \* verifiers left
               results: {"none", "clean", "spoilt"}]  \* of the verifiers run

TypeOK ==
  /\ state \in [Tasks -> TaskStates]
  /\ blocker \in [Tasks -> BOOLEAN]
  /\ attempts \in [Tasks -> Nat]
  /\ runtimeUsed \in [Tasks -> 0..MaxCharge]
  /\ checkpointed \in [Tasks -> BOOLEAN]
  /\ isolated \in [Tasks -> BOOLEAN]
  /\ run \in [Tasks -> ActiveRun \cup {None}]
  /\ lease \in [LeaseIds -> ActiveLease \cup {None}]
  /\ proc \in [Procs -> VerifyCall \cup {None}]
  /\ gone \in SUBSET Agents

Init ==
  /\ state = [t \in Tasks |-> "PLANNED"]
  /\ blocker = [t \in Tasks |-> FALSE]
  /\ attempts = [t \in Tasks |-> 0]
  /\ runtimeUsed = [t \in Tasks |-> 0]
  /\ checkpointed = [t \in Tasks |-> FALSE]
  /\ isolated = [t \in Tasks |-> FALSE]
  /\ run = [t \in Tasks |-> None]
  /\ lease = [l \in LeaseIds |-> None]
  /\ proc = [p \in Procs |-> None]
  /\ gone = {}

-----------------------------------------------------------------------------
\* Leases

Held(l, t) == lease[l] # None /\ lease[l].task = t

Live(l, t, a) == Held(l, t) /\ lease[l].agent = a /\ lease[l].ttl > 0

\* Plane.owned: the agent's one live lease on the task.
Owned(l, t, a) == {m \in LeaseIds : Live(m, t, a)} = {l}

\* An id no lease has and no verify call remembers.
FreshLease(l) == lease[l] = None /\ \A p \in Procs : proc[p] # None => proc[p].lease # l

\* Faulty variants: an expiry that ignores the deadline, or forgets the run, or the
\* failed tasks; each must break a property (README, Mutants).
KeptByNoRun(t) == FALSE

KeptByAnyRun(t) == run[t] # None

\* Plane._expire: a lease that ran out, unless a run inside its deadline keeps it.
KeptByRun(t) == run[t] # None /\ run[t].ttl > 0

RanOut(l) == lease[l] # None /\ lease[l].ttl = 0 /\ ~KeptByRun(lease[l].task)

SweptLease == [l \in LeaseIds |-> IF RanOut(l) THEN None ELSE lease[l]]

FreedExceptFailed ==
  {t \in Tasks : /\ \E l \in LeaseIds : RanOut(l) /\ lease[l].task = t
                 /\ state[t] \in {"CLAIMED", "RUNNING", "VERIFYING"}}

Freed == {t \in Tasks : /\ \E l \in LeaseIds : RanOut(l) /\ lease[l].task = t
                        /\ state[t] \in {"CLAIMED", "RUNNING", "VERIFYING", "FAILED"}}

SweptState == [t \in Tasks |-> IF t \in Freed THEN "READY" ELSE state[t]]

MarkerKept == run

SweptRun == [t \in Tasks |-> IF t \in Freed THEN None ELSE run[t]]

MayRunBeside(t, u) ==
  isolated[t] /\ isolated[u] /\ SafeParallel(Contract[t], Contract[u])

\* Faulty variants: one tests the leases of other tasks only, READY standing for
\* free; the other asks for a worktree of the claimed task only.
NoConflictWithOthers(t) ==
  \A l \in LeaseIds : SweptLease[l] # None =>
    lease[l].task = t \/ MayRunBeside(t, lease[l].task)

NoConflictOfClaimant(t) ==
  \A l \in LeaseIds : SweptLease[l] # None =>
    /\ lease[l].task # t
    /\ isolated[t] /\ SafeParallel(Contract[t], Contract[lease[l].task])

\* No lease left by the sweep is on t, or on a task t may not run beside.
NoConflict(t) ==
  \A l \in LeaseIds : SweptLease[l] # None =>
    lease[l].task # t /\ MayRunBeside(t, lease[l].task)

-----------------------------------------------------------------------------
\* The owner

\* contracts.TRANSITIONS
Transitions ==
  [s \in TaskStates |->
     CASE s = "PLANNED" -> {"READY", "BLOCKED", "CANCELLED", "SUPERSEDED"}
       [] s = "READY" -> {"CLAIMED", "BLOCKED", "CANCELLED", "SUPERSEDED"}
       [] s = "CLAIMED" -> {"RUNNING", "READY", "BLOCKED", "CANCELLED", "SUPERSEDED"}
       [] s = "RUNNING" -> {"VERIFYING", "READY", "BLOCKED", "FAILED", "CANCELLED", "SUPERSEDED"}
       [] s = "BLOCKED" -> {"READY", "CANCELLED", "SUPERSEDED"}
       [] s = "VERIFYING" -> {"COMPLETED", "FAILED", "READY", "BLOCKED", "CANCELLED", "SUPERSEDED"}
       [] s = "FAILED" -> {"READY", "CANCELLED", "SUPERSEDED"}
       [] s = "COMPLETED" -> {"NEEDS_REVALIDATION", "SUPERSEDED"}
       [] s = "NEEDS_REVALIDATION" -> {"READY", "BLOCKED", "CANCELLED", "SUPERSEDED"}
       [] OTHER -> {}]

Ready(t) ==
  /\ state[t] \in {"PLANNED", "BLOCKED", "FAILED", "NEEDS_REVALIDATION", "READY"}
  /\ ~blocker[t]
  /\ state' = [state EXCEPT ![t] = "READY"]
  /\ run' = [run EXCEPT ![t] = None]
  /\ UNCHANGED <<blocker, attempts, runtimeUsed, checkpointed, isolated, lease, proc, gone>>

ResolveBlocker(t) ==
  /\ state[t] = "BLOCKED" /\ blocker[t]
  /\ blocker' = [blocker EXCEPT ![t] = FALSE]
  /\ UNCHANGED <<state, attempts, runtimeUsed, checkpointed, isolated, run, lease, proc, gone>>

\* Faulty variant: cancels under a running verifier.
TransitionDuringRun(t, s) ==
  /\ s \in Transitions[state[t]]
  /\ lease' = [l \in LeaseIds |-> IF Held(l, t) THEN None ELSE lease[l]]
  /\ state' = [state EXCEPT ![t] = s]
  /\ UNCHANGED <<blocker, attempts, runtimeUsed, checkpointed, isolated, run, proc, gone>>

\* Plane.transition: cancel or supersede, revoking the leases of the task.
Transition(t, s) ==
  /\ s \in Transitions[state[t]]
  /\ run[t] = None
  /\ lease' = [l \in LeaseIds |-> IF Held(l, t) THEN None ELSE lease[l]]
  /\ state' = [state EXCEPT ![t] = s]
  /\ UNCHANGED <<blocker, attempts, runtimeUsed, checkpointed, isolated, run, proc, gone>>

\* The task read before `git worktree add` must still be current after it.
CreateWorkspace(t) ==
  /\ ~isolated[t]
  /\ state[t] \in {"PLANNED", "READY"}
  /\ isolated' = [isolated EXCEPT ![t] = TRUE]
  /\ UNCHANGED <<state, blocker, attempts, runtimeUsed, checkpointed, run, lease, proc, gone>>

\* The part of verification.invalidate that moves a task; reconcile and status
\* both run it, each task in a transaction of its own.
Invalidate(t) ==
  /\ state[t] = "COMPLETED"
  /\ state' = [state EXCEPT ![t] = "NEEDS_REVALIDATION"]
  /\ UNCHANGED <<blocker, attempts, runtimeUsed, checkpointed, isolated, run, lease, proc, gone>>

\* The sweep of Plane.status.
Status ==
  /\ lease' = SweptLease
  /\ state' = SweptState
  /\ run' = SweptRun
  /\ UNCHANGED <<blocker, attempts, runtimeUsed, checkpointed, isolated, proc, gone>>

-----------------------------------------------------------------------------
\* Agents

Claim(t, a, seconds) ==
  /\ a \notin gone /\ a \in Capable[t]
  /\ SweptState[t] = "READY" /\ ~blocker[t]
  /\ NoConflict(t)
  /\ \E l \in LeaseIds :
       /\ FreshLease(l)
       /\ lease' = [SweptLease EXCEPT ![l] = [task |-> t, agent |-> a, ttl |-> seconds]]
  /\ state' = [SweptState EXCEPT ![t] = "CLAIMED"]
  /\ run' = SweptRun
  /\ UNCHANGED <<blocker, attempts, runtimeUsed, checkpointed, isolated, proc, gone>>

Heartbeat(t, a, seconds) ==
  /\ a \notin gone
  /\ \E l \in LeaseIds :
       /\ Owned(l, t, a)
       /\ lease' = [lease EXCEPT ![l].ttl = seconds]
  /\ UNCHANGED <<taskVars, run, proc, gone>>

\* Faulty variant: releases under a running verifier.
ReleaseDuringRun(t, a, blocked) ==
  /\ a \notin gone
  /\ \E l \in LeaseIds : Owned(l, t, a) /\ lease' = [lease EXCEPT ![l] = None]
  /\ state' = [state EXCEPT ![t] = IF blocked THEN "BLOCKED" ELSE "READY"]
  /\ blocker' = [blocker EXCEPT ![t] = blocked]
  /\ UNCHANGED <<attempts, runtimeUsed, checkpointed, isolated, run, proc, gone>>

\* blocked: the agent states a blocker for the owner to decide.
Release(t, a, blocked) ==
  /\ a \notin gone
  /\ run[t] = None
  /\ \E l \in LeaseIds : Owned(l, t, a) /\ lease' = [lease EXCEPT ![l] = None]
  /\ state' = [state EXCEPT ![t] = IF blocked THEN "BLOCKED" ELSE "READY"]
  /\ blocker' = [blocker EXCEPT ![t] = blocked]
  /\ UNCHANGED <<attempts, runtimeUsed, checkpointed, isolated, run, proc, gone>>

Checkpoint(t, a) ==
  /\ a \notin gone
  /\ \E l \in LeaseIds : Owned(l, t, a)
  /\ checkpointed' = [checkpointed EXCEPT ![t] = TRUE]
  /\ UNCHANGED <<state, blocker, attempts, runtimeUsed, isolated, run, lease, proc, gone>>

\* verification.complete: its transaction repeats the checks made before it, except
\* the assurance gate.
Complete(t, a) ==
  /\ a \notin gone
  /\ state[t] = "VERIFYING" /\ ~blocker[t]
  /\ checkpointed[t]
  /\ \E l \in LeaseIds : Owned(l, t, a) /\ lease' = [lease EXCEPT ![l] = None]
  /\ state' = [state EXCEPT ![t] = "COMPLETED"]
  /\ UNCHANGED <<blocker, attempts, runtimeUsed, checkpointed, isolated, run, proc, gone>>

-----------------------------------------------------------------------------
\* A verify process

\* Faulty variant: one retry too many.
WithinRetriesAndOne(t) == attempts[t] <= MaxRetries + 1

WithinRetries(t) == attempts[t] <= MaxRetries

Preflight(p, t, a, selected) ==
  /\ proc[p] = None /\ a \notin gone
  /\ state[t] \in {"CLAIMED", "RUNNING", "VERIFYING", "FAILED"}
  /\ ~blocker[t]
  /\ WithinRetries(t)
  /\ run[t] = None
  /\ \E l \in LeaseIds :
       /\ Owned(l, t, a)
       /\ proc' = [proc EXCEPT ![p] =
            [pc |-> "armed", task |-> t, agent |-> a, lease |-> l, run |-> 0,
             used |-> runtimeUsed[t], todo |-> selected, results |-> "none"]]
  /\ UNCHANGED <<taskVars, run, lease, gone>>

\* deadline = now + max_runtime - runtime_used + 30, with the runtime read first; one
\* that lies in the past leaves nothing.
Window(p) ==
  IF proc[p].used > MaxWindow THEN 0 ELSE MaxWindow - proc[p].used

CanBegin(p, l) ==
  /\ proc[p] # None /\ proc[p].pc = "armed"
  /\ Owned(l, proc[p].task, proc[p].agent)
  /\ run[proc[p].task] = None

Begin(p) ==
  \E l \in LeaseIds :
    /\ CanBegin(p, l)
    /\ LET t == proc[p].task
           id == attempts[t] + 1
       IN /\ lease' = [lease EXCEPT ![l].ttl = IF @ < Window(p) THEN Window(p) ELSE @]
          /\ state' = [state EXCEPT ![t] = "RUNNING"]
          /\ run' = [run EXCEPT ![t] = [id |-> id, ttl |-> Window(p)]]
          /\ attempts' = [attempts EXCEPT ![t] = id]
          /\ proc' = [proc EXCEPT ![p].pc = "running", ![p].run = id]
    /\ UNCHANGED <<blocker, runtimeUsed, checkpointed, isolated, gone>>

\* LEASE_LOST or VERIFICATION_BUSY: the transaction rolls back, the call raises.
Refused(p) ==
  /\ proc[p] # None /\ proc[p].pc = "armed"
  /\ \A l \in LeaseIds : ~CanBegin(p, l)
  /\ proc' = [proc EXCEPT ![p] = None]
  /\ UNCHANGED <<taskVars, run, lease, gone>>

\* What is left of the runtime budget, for the next gate's timeout; the faulty
\* variant gives every gate the whole budget.
RemainingOfFirst(p) == MaxRuntime

Remaining(p) == MaxRuntime - proc[p].used

\* The lease of the first reads is still valid; the faulty variant does not look.
LeaseAssumed(p) == TRUE

LeaseValid(p) == lease[proc[p].lease] # None /\ lease[proc[p].lease].ttl > 0

\* The gate of one verifier ended after `cost`, and its evidence is recorded:
\* a result counts only if the lease of the first reads is still valid.  What a gate
\* is charged is measured: one that is stopped at its timeout took at least that long.
Record(p, cost, clean) ==
  /\ proc[p] # None /\ proc[p].pc = "running"
  /\ proc[p].todo > 0
  /\ Remaining(p) > 0 /\ cost <= Remaining(p) + Overrun
  /\ LET spoilt == proc[p].results = "spoilt" \/ ~clean \/ ~LeaseValid(p)
     IN proc' = [proc EXCEPT ![p].todo = @ - 1, ![p].used = @ + cost,
                             ![p].results = IF spoilt THEN "spoilt" ELSE "clean"]
  /\ UNCHANGED <<taskVars, run, lease, gone>>

\* The run of the call is the active one; the faulty variant takes any.
SomeActive(p) == run[proc[p].task] # None

StillActive(p) == run[proc[p].task] # None /\ run[proc[p].task].id = proc[p].run

\* The finally block, on the normal path or on an exception: the run is closed
\* only by the call whose run is still the active one.
Finish(p, passed) ==
  /\ proc[p] # None /\ proc[p].pc = "running"
  /\ passed => proc[p].todo = 0 /\ proc[p].results = "clean"
  /\ LET t == proc[p].task
     IN IF StillActive(p)
        THEN /\ state' = [state EXCEPT ![t] = IF passed THEN "VERIFYING" ELSE "FAILED"]
             /\ run' = [run EXCEPT ![t] = None]
             /\ runtimeUsed' = [runtimeUsed EXCEPT ![t] = proc[p].used]
        ELSE UNCHANGED <<state, run, runtimeUsed>>
  /\ proc' = [proc EXCEPT ![p] = None]
  /\ UNCHANGED <<blocker, attempts, checkpointed, isolated, lease, gone>>

-----------------------------------------------------------------------------
\* The environment

\* The verify process is killed; the database keeps what it last committed.
Crash(p) ==
  /\ proc[p] # None
  /\ proc' = [proc EXCEPT ![p] = None]
  /\ UNCHANGED <<taskVars, run, lease, gone>>

\* An agent stops calling; a verify process it started may go on.
AgentStops(a) ==
  /\ a \notin gone
  /\ gone' = gone \cup {a}
  /\ UNCHANGED <<taskVars, run, lease, proc>>

Less(ttl) == IF ttl = 0 THEN 0 ELSE ttl - 1

Tick ==
  /\ lease' = [l \in LeaseIds |-> IF lease[l] = None THEN None
                                  ELSE [lease[l] EXCEPT !.ttl = Less(@)]]
  /\ run' = [t \in Tasks |-> IF run[t] = None THEN None
                             ELSE [run[t] EXCEPT !.ttl = Less(@)]]
  /\ UNCHANGED <<taskVars, proc, gone>>

-----------------------------------------------------------------------------
OwnerStep ==
  \/ Status
  \/ \E t \in Tasks :
       \/ Ready(t)
       \/ ResolveBlocker(t)
       \/ \E s \in {"CANCELLED", "SUPERSEDED"} : Transition(t, s)
       \/ CreateWorkspace(t)
       \/ Invalidate(t)

AgentStep ==
  \E t \in Tasks, a \in Agents :
    \/ \E seconds \in 1..MaxLease : Claim(t, a, seconds) \/ Heartbeat(t, a, seconds)
    \/ \E blocked \in BOOLEAN : Release(t, a, blocked)
    \/ Checkpoint(t, a)
    \/ Complete(t, a)

VerifyStep ==
  \E p \in Procs :
    \/ \E t \in Tasks, a \in Agents, selected \in 1..MaxVerifiers :
         Preflight(p, t, a, selected)
    \/ Begin(p)
    \/ Refused(p)
    \/ \E cost \in 0..MaxCharge, clean \in BOOLEAN : Record(p, cost, clean)
    \/ \E passed \in BOOLEAN : Finish(p, passed)
    \/ Crash(p)

Next == OwnerStep \/ AgentStep \/ VerifyStep \/ Tick \/ \E a \in Agents : AgentStops(a)

Spec == Init /\ [][Next]_vars

\* The clock goes on, and somebody asks for the status now and then.
FairSpec == Spec /\ WF_vars(Tick) /\ WF_vars(Status)

-----------------------------------------------------------------------------
\* Invariants

\* A task has at most one ACTIVE lease: the test `claim` makes, the sweep before it
\* and the revocations of `transition` leave no second owner behind.
OneOwner ==
  \A l, m \in LeaseIds :
    lease[l] # None /\ lease[m] # None /\ lease[l].task = lease[m].task => l = m

\* Ownership and execution state never drift apart: a lease stays ACTIVE only on a
\* task somebody may be working on, and a task that is claimed, running, verifying
\* or failed always has its owner's lease, so that the sweep can free it.
LeaseMatchesState ==
  \A t \in Tasks :
    LET owned == \E l \in LeaseIds : Held(l, t)
    IN /\ owned => state[t] \in {"READY", "CLAIMED", "RUNNING", "VERIFYING", "FAILED"}
       /\ state[t] \in {"CLAIMED", "RUNNING", "VERIFYING", "FAILED"} => owned

\* A run marker is there exactly while the task is RUNNING, and is the last run
\* begun: no end of a run, sweep or owner's decision leaves a marker that would
\* refuse every later verification as busy.
RunMatchesState ==
  \A t \in Tasks : /\ run[t] # None <=> state[t] = "RUNNING"
                   /\ run[t] # None => run[t].id = attempts[t]

\* Work goes on in parallel only between tasks with worktrees of their own whose
\* contracts are SAFE_PARALLEL, whatever order claims, expiries and workspace
\* creations came in.
ParallelIsolation ==
  \A l, m \in LeaseIds :
    lease[l] # None /\ lease[m] # None /\ lease[l].task # lease[m].task
      => MayRunBeside(lease[l].task, lease[m].task)

\* What the isolation is for: no file of the repository is in the scope of two tasks
\* somebody owns.
Under(file, path) == Len(path) <= Len(file) /\ SubSeq(file, 1, Len(path)) = path

InScope(file, t) == \E path \in Contract[t].scope : Under(file, path)

NoSharedFile ==
  \A l, m \in LeaseIds :
    lease[l] # None /\ lease[m] # None /\ lease[l].task # lease[m].task
      => \A file \in Files : ~(InScope(file, lease[l].task) /\ InScope(file, lease[m].task))

\* A task that waits for a human decision is not worked on before it is decided.
BlockedUntilDecided ==
  \A t \in Tasks : blocker[t] => state[t] \in {"BLOCKED", "CANCELLED", "SUPERSEDED"}

\* However verify processes race past the check made before their transaction, runs
\* exceed the retry budget by less than the number of processes.
Armed(t) == {p \in Procs : proc[p] # None /\ proc[p].pc = "armed" /\ proc[p].task = t}

AttemptsBounded ==
  \A t \in Tasks :
    attempts[t] + Cardinality(Armed(t)) <= MaxRetries + Cardinality(Procs)

\* A process whose run is the active one, and whose results are all clean, still
\* works under the lease it started from.
CleanRunOwned ==
  \A p \in Procs :
    proc[p] # None =>
      LET t == proc[p].task
          l == proc[p].lease
      IN /\ lease[l] # None => lease[l].task = t /\ lease[l].agent = proc[p].agent
         /\ proc[p].pc = "armed" => proc[p].results = "none"
         /\ proc[p].pc = "running" => proc[p].run <= attempts[t]
         /\ /\ proc[p].pc = "running" /\ proc[p].results = "clean"
            /\ run[t] # None /\ run[t].id = proc[p].run
            => lease[l] # None

-----------------------------------------------------------------------------
\* Action properties

\* A run inside its deadline is ended by the process that began it and by nothing
\* else: no expiry, claim, release, cancellation or other process frees its task.
BudgetedRunKept ==
  [][\A t \in Tasks :
       run[t] # None /\ run[t].ttl > 0 =>
         \/ run'[t] # None /\ run'[t].id = run[t].id /\ state'[t] = "RUNNING"
         \/ \E p \in Procs : /\ proc[p] # None /\ proc'[p] = None
                             /\ proc[p].pc = "running"
                             /\ proc[p].task = t /\ proc[p].run = run[t].id]_vars

\* A task becomes VERIFYING only on the word of a run that worked under the lease
\* its owner has now: a process that lost its lease and woke up later changes nothing.
VerdictUnderLease ==
  [][\A t \in Tasks :
       state[t] # "VERIFYING" /\ state'[t] = "VERIFYING" =>
         \E p \in Procs, l \in LeaseIds :
           /\ proc[p] # None /\ proc[p].task = t /\ proc[p].lease = l
           /\ Held(l, t) /\ lease[l].agent = proc[p].agent]_vars

\* A cancelled or superseded task stays so, and gets no owner.
TerminalForever ==
  [][\A t \in Tasks :
       state[t] \in {"CANCELLED", "SUPERSEDED"} =>
         state'[t] = state[t] /\ (\A l \in LeaseIds : ~Held(l, t)')]_vars

-----------------------------------------------------------------------------
\* Liveness

\* The task of an agent that stopped is freed of its lease, whatever verify process
\* it left behind, running or crashed.
StoppedAgentFreed ==
  \A t \in Tasks, a \in Agents :
    (a \in gone /\ \E l \in LeaseIds : Held(l, t) /\ lease[l].agent = a)
      ~> (\A l \in LeaseIds : Held(l, t) => lease[l].agent # a)

-----------------------------------------------------------------------------
\* What the documentation says (docs/v2/OPERATIONS.md, Leases and interruptions)

\* "A running verifier extends its lease through its remaining runtime budget plus a
\* 30-second recovery margin": while a run is active, its lease lasts as long.
LeaseOutlastsRun ==
  \A t \in Tasks : run[t] # None =>
    \E l \in LeaseIds : Held(l, t) /\ lease[l].ttl >= run[t].ttl

\* "a crashed runner is recoverable after the bounded deadline": a run no process
\* executes any more ends.
Crashed(t) ==
  run[t] # None /\ \A p \in Procs :
    proc[p] # None /\ proc[p].pc = "running" => proc[p].task # t \/ proc[p].run # run[t].id

CrashedRunRecovered == \A t \in Tasks : Crashed(t) ~> ~Crashed(t)
=============================================================================
