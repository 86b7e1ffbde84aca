# TLA+ models of the agentic discipline kit

These modules model the kit's own protocols: the control plane
(`src/src/agentic_discipline/control/`), which decides who works on which task, when a verifier
may run, what its verdict is worth, when a task is complete and merged; the store, the knowledge
and the ledger it keeps; the installation it lives in; and the mutation testing that guards its
source. TLC checks small instances of them, and TLAPS proves their types, invariants and action
properties, and that the store implements its abstract specification, for every value of the
constants.

Paths below are relative to `src/src/agentic_discipline/`, those of `scripts/` to `src/`, those of
`docs/` to `src/`.

## The system

One SQLite file per repository holds versioned records (`control/store.py`). Every process
(CLI, HTTP API, MCP server) opens it and works through `Plane` (`control/plane.py`). A
write happens inside `store.transaction()`, a `BEGIN IMMEDIATE` transaction, so
transactions of different processes never overlap; what a process reads before its
transaction may be old by the time it writes. There is no daemon: a lease that ran out is
swept by the next claim or status call.

Beside the database there are three kinds of state no transaction protects: git branches
and worktrees (`control/workspaces.py`), files of the installation
(`bootstrap.py`, `repair.py`, `adapters.py`) and files of the verifiers (the ledger,
the registry, the packages). Calls over those are killed between two writes and run side by side.

| component | state | operations | hard behaviour | what makes it correct | module |
|---|---|---|---|---|---|
| tasks and leases: `control/plane.py`, `contracts.py` | task record (state, blocker, attempts, runtime, active run), lease records, checkpoints | create, ready, claim, heartbeat, checkpoint, release, transition, resolve_blocker, status | concurrent agents, leases expiring under work, an agent that dies | one owner per task; state, lease and run agree; blocked and cancelled work stays so | `TaskLifecycle` |
| parallel safety: `control/workspaces.py` | none | `parallel_safety` | paths inside one another | only disjoint, reviewed-safe work runs side by side | `ParallelSafety` |
| verification: `control/verification.py` | run marker and deadline, evidence records | verify, complete, proof_current, invalidate | verify is five steps with reads outside its transactions; crashes, late processes, races | a verdict counts only for the run and the lease it belongs to; budgets hold | `TaskLifecycle`, `Assurance` |
| assurance: `control/assurance/` | obligations, plans, waivers, human decisions | compile, reconcile, escalate, verify, waive, resolve_human, decide | status recomputed from evidence of moving inputs; gates outside transactions | obligations only widen; nothing completes with debt; a waiver hides no failure; a person is asked when only a person can answer | `Assurance`, `AssuranceDecision` |
| assurance migration: `control/assurance/migration.py` | schema version, migration records | migrate, rollback | killed between its transactions, run again, rolled back | an upgrade can always be run again | `SchemaMigration` |
| workspaces: `control/workspaces.py` | worktrees, branches, workspace records, the integration record | create, gate, merge, refresh, cleanup | crash between git and database, edits, commits and resets under a running call | what is recorded as merged is what the gate passed; what completes is what was verified | `Integration` |
| work sessions: `control/work.py` | request records | start, checkpoint, verify, finish | start is five transactions; killed, repeated, overtaken by others | a repeated request finds its task; the work is served | `WorkSession` |
| knowledge: `control/knowledge.py`, `control/migration.py` | entities, relations, changesets, claims | apply, link, claim, resolve_claim, lifecycle, index, import, rollback | stale readers, rollback under later changes, evidence that moves | the past is fixed; active intent rests on active intent; one truth per subject | `KnowledgeGraph`, `CanonicalClaims` |
| store: `control/store.py` | records, revisions, events | put, event, transaction, bump, audit, history | concurrent writers, aborted transactions | no update is lost; the history is one story | `Store`, `VersionedRecords` |
| evidence ledger: `evidence.py` | JSON-lines file, lock file | append, verify | crash with the lock held, torn line | every record chains to the one before; nothing acknowledged is lost | `EvidenceLedger` |
| installation: `bootstrap.py`, `adapters.py`, `repair.py`, `readiness.py`, `control/preflight.py` | payload files, `AGENTS.md`, `config.json`, the control directory | init, adopt, repair, preflight | two tools at once, killed in the middle of a file, files the owner writes between a look and a write | what the owner left alone since the look, and history, survive; gaps close | `Installation` |
| verifier package: `verifier/` | packages, `registry.json`, protection artifacts | register, protect, execute | overlapping calls without a lock, killed between two writes | what is listed can be executed | `VerifierRegistry` |
| mutation testing: `scripts/assurance_mutation.py`, `mutation_gate.py`, `mutation_scope.py` | campaign reports, copies of the sources, exceptions | campaign, resume, dispose; select, gate | workers sharing copies; a resumed count; sources edited under a campaign; a branch that never touches the source it weakens | a reported kill was measured; a merge leaves every mutant of the files it names answered for | `MutationCampaign`, `MutationGate` |
| requirements, acceptance, risk | none | convert one document into another | none | | none |
| interfaces, reports, other scripts | none of their own | parse, render, detect | none | | none |

Components call one another synchronously. They share state through the store and the
working tree only; there are no callbacks. `verify` starts verifiers as child processes,
which is why it holds no transaction while they run.

## The modules

| module | models |
|---|---|
| `ParallelSafety` | when two task contracts may be worked on at the same time |
| `TaskLifecycle` | tasks, leases, agents, verify processes, the clock |
| `Assurance` | the claims of one task: how they are compiled, routed, proven, waived and completed |
| `AssuranceDecision` | what `decide` answers and asks for, as operators on the state of `Assurance` |
| `VersionedRecords` | the abstract specification of the store |
| `Store` | the database, shown to implement `VersionedRecords` |
| `KnowledgeGraph` | entities, dependencies, changesets, rollback, import, index |
| `CanonicalClaims` | claims, conflicts and what becomes of them when evidence moves |
| `SchemaMigration` | the upgrade to the assurance engine and its rollback |
| `Integration` | worktrees, gate, merge, refresh, cleanup, completion |
| `WorkSession` | start, checkpoint, verify and finish over the shared task list |
| `EvidenceLedger` | the append-only file and its lock |
| `Installation` | what init, repair and preflight write and what readiness says |
| `VerifierRegistry` | packages, registry, protection, execution |
| `MutationCampaign`, `MutationGate` | the two users of mutation testing |
| `Records` | the nine components that keep something else than tasks and their proof (from `Store` to `SchemaMigration`, from `EvidenceLedger` to `MutationGate` in this table), side by side: their instances and what each promises |
| `Completion` | `Assurance` and an instance of `Integration`, side by side: what a completion rests on |
| `TaskLifecycle_proofs`, `Assurance_proofs`, `WorkSession_proofs`, `Store_proofs`, `KnowledgeGraph_proofs`, `Integration_proofs`, `MutationGate_proofs` | theorems about one component |
| `Records_proofs` | theorems about the smaller components, and all of them stated of the instances of `Records`, as `Assurance_proofs` states those of `Integration` of the instance in `Completion` |
| `MCTaskLifecycle`, `MCAssurance`, `MCClaims`, `MCRecords`, `MCRecovery` | the instances for TLC |

`TaskLifecycle` and `Assurance` describe the same `verify` and `complete` from two sides:
the first keeps leases, budgets and deadlines and leaves evidence out, the second keeps
evidence and leaves leases out. Where one needs the other it takes every outcome: a run may
end BLOCKED in `Assurance` at any time, `readiness` may refuse in `TaskLifecycle` at any time.
`Integration` and `WorkSession` describe the operations around them: a verifier run and a
lease are single steps there, and `Integration` adds the second tree, `WorkSession` the
requests, the dependencies between tasks and the obligations that a killed start left behind.

### ParallelSafety

`parallel_safety` (`control/workspaces.py:14`) as operators on contracts. A scope path is
the sequence of its components, so the string test `a.startswith(b + "/")` is "is a prefix
of", and `.` is the empty path. Only the parts of a contract that the function reads are
kept: scope, boundaries, risk.

### TaskLifecycle

| variable | in the code |
|---|---|
| `state`, `blocker`, `attempts`, `runtimeUsed`, `checkpointed`, `isolated` | fields of the task record (`blocker` is the open decision of a BLOCKED task, `isolated` a `workspace_id`), and whether a checkpoint record exists |
| `run` | `active_run` with `active_run_deadline`, or `None` |
| `lease` | the ACTIVE lease records; an ended lease is `None`, since nothing reads one again except to see that it ended |
| `proc` | the local variables of a `verify` call: the lease of its first reads, its run id, the runtime as it counts it, verifiers left, results |
| `gone` | agents that will not call again |

One action is one transaction with all it changes, the expiry sweep included where the
code sweeps first (`Claim`, `Status`). `verify` is split where the code is: `Preflight`
(reads before the transaction), `Begin` or `Refused` (the transaction that marks the run),
`Record` (one verifier and its evidence) and `Finish` (the `finally` block, normal or
exceptional). `Crash` kills the process between any two. Deadlines are kept as time left
and `Tick` lowers them all. A claim or a heartbeat lasts a whole number of ticks, at most
`MaxLease`, the policy's `max_lease_seconds`; a run's window is what its budget has left
plus `Margin`, which stands for the code's 30 seconds.

A gate gets what is left of the budget as its timeout, and is charged the time it took
(`verification.py:215`). One that times out takes longer than its timeout: killing it and reading
what it wrote costs up to `Overrun`. A run charges no further gate once nothing is left
(`:209`), so a task is charged `MaxCharge` (`MaxRuntime + Overrun`) at most, and the
window of its next run is what is left of the margin.

Run ids and lease ids are fresh uids in the code. The attempt number stands for the run id;
a lease id is taken from a finite set and is fresh when no lease has it and no verify call
remembers it.

Conditions that depend on files, knowledge or evidence (`readiness`, `completion_proof`,
`proof_current`, `check_changes`) are not state here: the actions they guard may or may not
happen. The model therefore has every behaviour of the code and some more, and what holds
of it holds whatever those conditions say.

### Assurance

A claim (the code's obligation) is derived from an acceptance criterion, from the risk of
the task, or from a file pattern. `Contractual`, `ByRisk`, `Forecast` and `RaisedBy` stand
for the rules of `compiler.py`: which claims a contract, a risk, the declared scope and a
change of a file raise. `Supplies`, `Level` and `Rank` stand for the capability registry and
for `_rank` of the planner. Strings, fingerprints and digests are replaced by what they tell
apart: a binding is the contents of the files a claim depends on, its verifiers and the
version of the policy.

| variable | in the code |
|---|---|
| `content` | the files of the task's scope, `Baseline` when it was claimed |
| `policy` | the version of the policy record |
| `obligation` | the obligation records: `enforced`, `status` WAIVED, `affected_paths`, `floor`, `required_verifiers` |
| `evidence` | evidence records as `resolve` reads them, with `obligation_bindings` (`stamp`), `binding` (`before`) and the binding that decided `run_consistent` (`after`) |
| `latest` | the part of the last evidence record of a verifier that `completion_proof` and `invalidate` read, with its `stale` mark |
| `state` | the state of the task |
| `call` | the local variables of a call between its reads and its transaction |

The state of a claim is not stored, in the code or in the model: `Resolution` is `resolve`.

Steps. `verify` is `BindRun` and `StampRun` (its two reads of the files, for the binding of the
task and for those of its claims), `StartRun` (the transaction that marks the run), `MeasureRun`
and `RecordEvidence` (a verifier ended: the files are read again, then the evidence is written) and
`FinishRun`. Files may be edited between any two of them. `service.verify` is made of `CompilePlan`, these, and `StartEscalate` and
`Escalate`; its loop is any sequence of them. `waive` is `StartWaive` (resolution) and
`Waive` (transaction); `complete` is `StartComplete` (first checks and reconciliation),
`PassGate` (debt) and `Complete` (transaction). `GiveUp` is a call that is refused, raises or
is killed. `Edit` is anybody's write to a file, during a run too; contents can come back.

`CompilePlan` is one step although `compile_plan` reads before its transaction. The
transaction writes a record only if its version is the one read (`store.py:123`), and a
record it does not write is one it would not change; so the call has the effect it would
have had at the moment of its reads, or none. Versions are not in the model: the fields of a record
stand for them, and never return to earlier values (`ObligationsOnlyWiden`,
`RouteOnlyDeepens`: floor, paths, enforcement and waiver only grow, and the route follows
from the floor). A write that changes none of the fields kept here, such as a second waiver,
raises the version in the code and makes an overlapping call fail; in the model that call
may fail (`GiveUp`) or go on, so the model has every behaviour of the code and a few more.
`ResolveHuman` is one step too: a write to a file between its reads and
its transaction has the same effect as the write just after.

Runs are one at a time (`active_run`). The process of a swept run, which `TaskLifecycle`
follows, writes evidence but no state; here a run that lost its task ends with `GiveUp`.

### AssuranceDecision

`decide` and `request` (`control/assurance/decision.py`) compute an answer from the states of
the claims. The module adds no state: `Decision` is the cascade of `decide`, first match
first, over `Assurance!Resolution`, and `HumanIsAsked` relates it to what a
verifier run could still do (`pending_specs`).

### Store and VersionedRecords

`VersionedRecords` is what clients may rely on: a log of writes, and what each client has seen
of each record. A client appends a batch as a whole, and only if it saw the last write of
every record in it. It knows no transactions, versions, events or hashes.

`Store` has them. `db` is the committed database (records with versions, revisions, events,
the knowledge counter), `tx` the one open transaction with its working copy, `view` the version
each client would pass as `expected`. `Begin`, `Put`, `Note`, `Bump`, `Commit` and `Abort` are
the calls; `Conflict` is a `put` that meets another version, after which the transaction is
aborted. `put` without `expected` is allowed only where the code makes it: for a record that
does not exist yet. `CreateSchema` lets several processes open an absent
file. A digest is modelled as what is hashed, which is all a collision-free hash tells.

`ImplementsRecords` is the refinement: `log` is the writes of the committed database at their
places among its events (`LogOf`: the n-th write is the event with n writes up to it), `seen` is
`view`. A commit with n writes is one `Extend` by a batch of n; puts inside
a transaction, aborts, notes and bumps stutter.

### KnowledgeGraph and CanonicalClaims

Each operation of `KnowledgeGraph` is one transaction, and its reader is the knowledge version
it names (`seen`). `history` is the revisions of each entity, so that `EntitiesAt` can be asked
again about the past. The list of a changeset is kept as the changes it names of each entity
(`MaxChanges` at most), in their order; the order between changes of different entities makes no
difference to what is written. `Rollback` restores what a changeset replaced, unless somebody
revised it since; `Import` inserts a graph nobody checked, cycles included; `Index` is what a
reconcile does to the entities of code. The code finds a cycle by walking the dependencies with
a stack; `Visited` is what that walk reaches: what is in every set that holds the start and is
closed under active dependencies.

In `CanonicalClaims`, `Examine` is the part of `claim` before its transaction (the evidence it
cites is checked there) and `Claim` the transaction. `MarkEvidence` and `MarkClaims` are the
two parts of `invalidate` that concern claims.

### SchemaMigration

`migrate` is `MigrateSwitch` (first transaction), `MigrateList` (the tasks it will compile),
`MigrateCompile` (once a task) and `MigrateRecord`; `MigrateCut` kills it anywhere. Tasks are
created and planned meanwhile. A task has one obligation.

### Integration

A commit is the sequence of the writes its history made (a file and what it then holds). A branch
can be fast-forwarded exactly when one sequence is a prefix of the other; two trees agree when their
files hold the same. Contents come from a small set and come back: agents and the owner edit back
and forth, discard, and reset a branch to an earlier commit (`Edit`, `Reset`) at any time,
between any two looks of a call.

The calls look at a tree several times, and each look is a step. The gate is `GateExamine`,
`GateBind` (`workspaces.py:114-119`) and `GateRecord`; the merge goes on with `MergeGit` and
`MergeRecord`; `RecoverProve`, `RecoverRead`, `RecoverMatch` and `MergeRecover` are the branch that
finds a merge without its record; `CompleteProve`, `CompleteCompare`, `CompleteBind` and `Complete` are
the four looks of the transaction of `complete`; refresh and cleanup are split between git and the
database. `Cut` and `CutUpkeep` kill a call anywhere. A call that read the record of the task has
`same`, the version test; a transaction that holds the write lock keeps the others' out (`Unlocked`).

`still` in a call is no state of the code: it says whether the tree of the task is as the call
measured it. Nothing can be promised of a tree that is edited while a call looks at it, and the
two properties say so. They are about the rest: edits before, edits of the primary, commits, resets,
rebases, cuts, and records written by others.

### WorkSession

`start` is `Derive` (search for an open task, `AskOwner` when it is ambiguous or protected),
`Create`, `Compile`, `Record`, `Report`, `MakeReady`, `Look`, `Claim`, in the code's order and
each a step; `finish` is the checkpoint, the verification and the completion with its gate.
`Kill` ends a call between any two and the caller asks again. Leases lapse (`Lapse`) and
are swept by `Status` and `Claim`.

### EvidenceLedger

The file is a sequence of whole records, ends of line and fragments. `Acquire` creates the lock
file, `TimeOut` gives up on it, `Form` reads the whole file, which must be readable
and verify, and forms the record that comes next (`NextRecord`); a write may leave a fragment
when the writer is killed. A lock whose holder was killed stays
(`"dead"`) until a person removes it (`RemoveLock`).

### Installation

An operation is a sequence of file writes (`tool[p].todo`), computed when it starts from what it
finds and executed one at a time. Each write is two steps, as in the code: `Look` is the test for the
file, or the read of what will be rewritten (`bootstrap.py:72`, `:106`, `:241`, `adapters.py:53`,
`:65`), and what it saw is kept in `saw`; `WriteFile`, `WriteConfig`, `WriteSkills`, `WriteAgents` and
`WriteMode` write what follows from that, whatever the file holds by then. Two tools and the owner
come in between. A copy of a directory onto one that appeared after the test raises (`LeaveInstall`:
an init ends, a repair goes on with the next one, `repair.py:149`); a copy of a file overwrites.
`KillInFile`, `KillInConfig` and `KillInAgents` tear the file being written. `State` is the
whole of `readiness`, `Repairs` what a preflight does about it. The owner edits and deletes, and a
newer kit installs itself.

### VerifierRegistry, MutationCampaign, MutationGate

`VerifierRegistry` splits each call where it touches the disk; `Truncate` and `Fill` are the two
halves of a write of `registry.json`, between which it is unreadable.

`MutationCampaign` follows one campaign after the other. `Plan` reads the sources for the mutants,
`Choose` checks the report it resumes against them (by its digest or, for a report from before
digests, by the number of mutants in every module, `Undigested`), `CopyProject` and `Baseline` make
the copies; workers write a mutant into a copy, judge it and write the original back; `Finish`
takes the digest of its report. Each of those is a read of the sources, and they are edited
at any time (`ChangeSources`). Which mutants the tests notice is left open for every run. `measured` remembers which
mutants were seen killed, alone in their copy, on which version; `whole` in a report says
that every read of its campaign, and of those it resumes, found one version, none was limited
and none had been reviewed. Neither is state of the code.

`MutationGate` follows a pull request: commits to sources, tests and exceptions, the shards that
run for its diff, and the merge once every shard passed. The shards run whole suites, so a commit
may change what becomes of every mutant, of files the diff does not name too, and whether
their lines are covered at all.

## What the runs check

Passing runs:

| run | instance | distinct states | properties |
|---|---|---|---|
| `verification` | 1 task, 2 agents, 3 lease ids, 2 racing verify processes, 2 verifiers, 1 retry, leases up to 2 ticks, a gate 1 tick over its timeout | 670 000 | `TypeOK`, `OneOwner`, `LeaseMatchesState`, `RunMatchesState`, `BlockedUntilDecided`, `TerminalForever`, `AttemptsBounded`, `CleanRunOwned`, `BudgetedRunKept`, `VerdictUnderLease` |
| `claims` | three instances side by side, below | 2 140 000 | `TypesOK` and the six below |
| `records` | ten instances side by side, below | 2 050 000 | `TypesOK` and the thirteen below |
| `recovery` | five instances side by side, below, with fairness | 330 000 | `TypeOK` of `WorkSession` and the seven below |

`claims`:

| part | instance | properties |
|---|---|---|
| overlap | a criterion and a policy claim, a unit and a deeper judgment verifier, 1 file with 2 contents, 1 evidence record, 2 calls at a time | `RouteOnlyDeepens`, `ObligationsOnlyWiden`, `CompletedOnProvenInputs`, `RefutedStands` |
| repeat | the same, 2 evidence records, calls one after the other | the same |
| integration | 1 task, 1 file with 2 contents, 2 writes in a history | `MergedAsGated`, `CompletedInPrimary` |

`records`:

| part | instance | properties |
|---|---|---|
| store | 2 clients, 2 records, 2 payloads, 3 events, 1 bump | `ImplementsRecords`, `AuditTrail` |
| graph | 3 entities, one of them code; 3 knowledge versions, 2 changes a changeset | `PastKept`, `DependenciesSound` |
| claims | 1 subject, 2 values, 3 authorities, 3 claims | `OneTruthByAuthority` |
| ledger | 2 writers, 3 records | `LedgerSound` |
| migration | a task of before and one of after, 3 migrations | `RunAgainRepairs` |
| kit | 2 tools, a payload directory, 2 events (kills, edits, inits) | `OwnWorkKept` |
| verifiers | 2 packages, 2 calls at a time, 4 events | `EntriesHavePackages` |
| campaign | 2 mutants at one position, 2 versions of the sources, 2 workers, 3 events | `ReportsMeasured` |
| gate | 3 files in 2 shards, 3 mutants (one equivalent), a test of two files, 2 commits | `MergedAnswered` |
| work | 3 tasks, 2 agents, 2 leases: `t1` and `t3` overlap, `t2` is disjoint; no verifier runs | `ParallelIsolation`, `NoSharedFile` |

`recovery`:

| part | instance | properties |
|---|---|---|
| session | 2 callers, overlapping requests, 4 tasks, 2 faults | `EveryRequestServed`, `RetryFindsTask`, `CompletedCompiled` |
| ledger | 2 writers, 3 records | `AppendEnds` |
| kit | 1 tool, 3 events | `GapsClose` |
| lifecycle | 1 task, 2 agents, 1 process | `StoppedAgentFreed` |
| proof | a claim only a human settles, 1 verifier, 1 file with 2 contents, 1 policy change, 1 evidence record | `StaleCompletionReopened` |

The parts of `claims`, `records` and `recovery` share no state in the code beyond what each module
already has, so composing them freely would only multiply their states. The variable `part`
chooses, in the initial state, which of them moves; the rest stay in an initial state of theirs.
The reachable states are the union of those of the parts, every property is checked on all
behaviours of its part, and the other parts satisfy it in the one state they stay in
(`EveryRequestServed` and `GapsClose`, which ask for something to happen, say so for their own
part). Where two components do share state they share a module: leases and runs in
`TaskLifecycle`, files, evidence and claims in `Assurance`, git, gate and completion in `Integration`, tasks and obligations in `WorkSession`,
readiness, repair and adoption in `Installation`. TLC's coverage shows every action of
every part taken, except those of a verifier run in the part `work`, which has none; `verification` takes
those.

Why the bounds are enough to be interesting. Two agents are needed for a lost lease to be
taken by somebody else; two processes for a race past the preflight; three lease ids so
that a remembered, an active and a fresh one exist together; two verifiers so that a lease
can end between the results of one run. Leases of 1 and 2 ticks against a window of 1 or 2
ticks give leases shorter than, equal to and longer than a run. Attempts need no artificial
bound: `AttemptsBounded` itself keeps them finite. Symmetry over agents (who are the clients of
`Records` too), lease ids (its record ids), values and processes is used in the safety runs only. Deadlock is checked in every run but `records` and
`recovery`, whose parts stop at their bounds.

In `Assurance`, two contents let a file change and change back; two evidence
records let a verdict be confirmed, contradicted or overtaken (a third is needed only by the
completion race below, where the human speaks twice; one is enough to complete a task whose human
claim is waived, as in part `proof` of `recovery`); the deeper verifier lets a claim be
escalated to it and past it; two calls at a time are what each race needs.

In `Store`, two clients and two records give lost updates, write skew between two records of a
batch, and aborts under a reader; three events are the least with a chain that has a middle. Three
entities give a cycle that an import brought and a dependency on something else; three
knowledge versions a change, a later change and a rollback; two changes a changeset let one name an
entity twice or two entities at once. Three migrations are an upgrade, an
interrupted one and a third after a rollback. In `Integration`, one file with two contents and
two writes in a history let the worktree and the primary each part, agree, be undone and agree again
under every call; writes of a refresh to a file the task did not touch need a second one, and are covered by the
proofs only. One campaign and one pull request are under way at a time, as in the code. Four tasks and two faults in
`WorkSession` let a start be killed twice, or once while an agent's lease runs out. Two
workers, two mutants, two versions and three events let the sources change and change back under a
campaign, or a campaign be resumed after a change.
The bounds that are not in the code are named `Max...` in every module.

Runs that must fail. Each states what `docs/v2/OPERATIONS.md` ("Leases and interruptions"),
`docs/v2.1/README.md`, `docs/v2.1/MIGRATION.md` or a docstring says and what the code does otherwise:

| run | property | what happens |
|---|---|---|
| `lease_shortened` | `LeaseOutlastsRun` | A heartbeat during a run replaces the extended expiry by a shorter one (`plane.py:634`). |
| `crashed_run` | `CrashedRunRecovered` | After a crash the owner goes on with heartbeats; the dead run's marker is cleared only where its lease expires (`plane.py:520`), so it stays. |
| `waiver_race` | `WaiverHidesNoFailure` | A run records a failure between the resolution that `waive` reads and its transaction, which tests only the version of the record (`service.py:481`, `:487`). |
| `completion_race` | `CompletedWithoutDebt` | A human rejects the change between the gate and the transaction of `complete`, which repeats every other check (`verification.py:350`, `:357`). |
| `run_bound_apart` | `VerifiedOnSameInputs` | A file is edited between the two reads before a run (`verification.py:174`, `:175`) and put back before it ends: the run is consistent, its stamp names contents it never saw, and the claim is VERIFIED once the file holds them. |
| `empty_route` | `ClaimKeepsVerifier` | After an escalation past the deepest verifier a recompile reports the contraction as refused and still stores the empty route (`service.py:109`, `model.py:188`). |
| `human_not_asked` | `HumanIsAsked` | A human verdict goes stale: `decide` answers EXPAND_VERIFICATION, though no verifier is left to run and only a person can settle the claim (`decision.py:95`, `service.py:203`). |
| `migration_rollback` | `RollbackTurnsOff` | A project is migrated twice and the second migration rolled back: its record says it came from schema 2, so the engine stays on (`migration.py:97`, `:138`). |

### Observed, without a run of their own

These are in the models; where a property is named, it is defined beside the others of its
module and TLC finds it violated.

- `TaskLifecycle`: a task is charged more than its `max_runtime` when its last gate times out
  (`verification.py:215`). Two `verify` calls may both pass the retry test, so the retries used may
  exceed the budget by the calls that race (`AttemptsBounded` says by how many). A call that
  read `runtime_used` before another run ended writes its own sum over what that run charged
  (`verification.py:204`, `:295`).
- `Integration`: `MergesOnlyVerified` (the transaction of the merge does not compare what the gate
  was passed on, `workspaces.py:271`: a worktree reset after the gate is merged without the gated
  work, and the merge recorded; the completion then refuses). A crash between the removal of a worktree and its record leaves
  `WORKSPACE_LOST`; after a cleanup and a refresh `workspace_root` raises, and the sweep over all
  tasks with it.
- `WorkSession`: a start on a task that is claimed, failed or superseded reports READY
  without a lease (`work.py:587`); a superseded task still counts as open for its
  request; two starts at the same time make two tasks.
- `Installation`: `RulesOnlyKept` (a torn `config.json` loses the decision, `bootstrap.py:214`),
  `NewerPayloadKept` (`bootstrap.py:33` says a newer payload must not quietly be written over; an
  init writes `AGENTS.md` and the skills of a newer kit over). A directory of the payload that was
  copied in part is never completed. A killed rewrite of `AGENTS.md` loses the owner's text, and so does any
  rewrite of text the owner saves between the read and the write (`adapters.py:65`, `:53`), or a copy
  over a file that appears after the test for it (`bootstrap.py:72`, `:83`).
- `KnowledgeGraph`: an index that retires a removed file does not look at what depends on it,
  and the next `apply` is refused; a changeset that names an entity twice can never be
  rolled back.
- `VerifierRegistry`: `EntriesStay`, `ProtectionStays` (two calls at a time lose each other's
  entry), `LedgerHoldsResult`. A register killed before its entry leaves a directory that makes
  every later one fail; one killed inside its write leaves an unreadable registry.
- `MutationCampaign`: `CarriedKillsMeasured` (a resume counts as killed what an earlier, limited
  campaign never ran, `assurance_mutation.py:378`; and sources edited during a campaign give its
  report a digest its kills were not measured on, `:399`), `PassAccountsForAll`. A report
  without a digest is trusted on its counts (`:314`).
- `MutationGate`: `MainStaysAnswered` (`.github/workflows/ci.yml:91` calls what the scope selects the
  files a diff can affect: direct imports are followed, while suites run whole, so a weakened test
  or caller revives mutants of files nobody looks at, `mutation_scope.py:96`),
  `ExceptionsNeeded` (the exceptions of a file out of scope are not looked at).
- `AssuranceDecision`: `ExpansionCanSettle` (a claim whose only route is a judgment asks for
  more verification for ever).
- `SchemaMigration`: evidence recorded between two migrations is marked as legacy by the second.
- `EvidenceLedger`: a write killed between its record and the end of the line leaves a readable
  ledger; the next append joins that line, is acknowledged, and every later read fails.
  `LedgerSound` holds: what was acknowledged is in the file, in the damaged last line.

### Fairness

`FairSpec` adds weak fairness of `Tick` (time passes) and of `Status` (someone opens the
console, or runs `agentic status`, every now and then; nothing else sweeps a task nobody
claims). No agent, owner or verify process is fair: an agent may stop, a verifier may hang.
`StoppedAgentFreed` therefore rests on the clock and on the sweep alone. Its guard is
enabled for good once the lease has run out and the run's deadline has passed, since the
agent's heartbeats have stopped.

`Assurance!FairSpec` adds weak fairness of `Invalidate` only: `reconcile` and the status views
call it, and a project where nobody ever looks keeps its stale label. `Invalidate` is enabled
in every state it would change, so weak fairness is enough.

`EvidenceLedger!Fairness`: a writer that is not killed goes on; its waiting is bounded by the code's
timeout. `WorkSession!FairSpec`: a caller goes on and asks again until its work is complete
(that is what a request is), verifies again what failed (strong fairness of the run that
passes: it fails finitely often, which `MaxFaults` says too), time passes, and the status is opened now
and then. `Installation!FairSpec`: a tool goes on with its writes, and every execution starts
with a preflight, which is what `agentic` does. `MCRecovery` asks each of these of the part
that moves.

### Mutants

Beside some definitions stands a faulty variant (`SamePath`, `KeptByNoRun`, `MarkerKept`,
`LeaseAssumed`, ...), which no action uses. Each is the definition with a plausible mistake:
a dropped guard, a forgotten state, an off-by-one. With the variant in its place, TLC finds
the property listed with it in `PROJECT.json` violated: the property would catch that
mistake.

## What is proved

Every invariant and every action property of the passing runs, and the refinement of the store,
is stated by a theorem. The components of `Records` are proved about under the names the runs
use, of the same instances (`Storing`, `Graph`, ...), so run and theorem are about the same
definitions. Assumptions are those on the constants: `ConstantsAssumption`, `AssuranceAssumption`,
`CompletionAssumption` (that of `Integration`), `RecordsAssumption` (the conjunction of the `...Assumption`
of its nine modules). Each says that bounds are
naturals, that certain sets are finite or not empty, that ranks are ordered as the code's are, or that
certain names differ; TLC evaluates them in the runs.

`TaskLifecycle_proofs` proves, for any sets of tasks, agents, lease ids and (finitely many)
processes, any contracts and capabilities, and any bounds satisfying
`ConstantsAssumption`:

1. `TypeCorrect`. Inductive as it stands. The arithmetic is in `Record` (a gate is charged at most
   what is left and `Overrun`, and none is begun when nothing is left, so the sum stays within
   `MaxCharge`) and `Begin` (the window).
2. `OneOwnerAlways`, from `TypeOK`. `Claim` puts a lease on a task without one; the other
   actions only remove leases or change their time.
3. `ParallelIsolationAlways`, from `TypeOK`: `isolated` never goes back. `NoSharedFileAlways`
   follows: two scopes that `parallel_safety` finds disjoint share no file, since a file is
   in a scope when some scope path is a prefix of it, and two prefixes of one path are
   prefixes of one another.
4. `RunMatchesStateAlways`, from `TypeOK` and `OneOwner`. A sweep clears markers of the
   tasks it frees, and frees only tasks whose run is past its deadline.
5. `LeaseMatchesStateAlways`, from 1, 2 and 4. It needs `RunMatchesState` because `Finish`
   moves a task whose marker it finds, and must know that task was RUNNING, hence owned;
   and `OneOwner` because a release must leave no second lease behind.
6. `BlockedUntilDecidedAlways` and `TerminalForeverAlways`: from 4 and 5, a blocked or
   cancelled task has no run that could still move it, and no owner.
7. `BudgetedRunKeptAlways`, from 4 and 5.
8. `CleanRunOwnedAlways`: the inductive form of what a process may conclude from the lease
   it remembers. `FreshLease` is what keeps a remembered id from naming another lease.
   `VerdictUnderLeaseAlways` follows.
9. `AttemptsBoundedAlways`: `attempts` plus the calls still before their transaction never
   exceed the retries plus the processes. A call that passes the test adds one to the second
   term; the run it begins moves that one to the first. Without the second term the bound
   is not inductive.

About `Assurance`, for any claims, rules, verifiers, files, contents, bounds and number of
overlapping calls satisfying `AssuranceAssumption` (the planner's order goes from shallow to
deep; a human claim is no criterion):

10. `AssuranceTypes` (in `CompletionKeepsTypes`), with the fact that an escalation raises recorded claims
    (`RaisesRecorded`), without which it might write a field of an absent record.
11. `ObligationsOnlyWidenAlways`, from 10. Compilations, escalations and waivers are the only
    writers (`WritesOfRecords`), and each widens what it finds.
12. `RouteOnlyDeepensAlways`. The inductive part is `RoutesPlanned`: the route of a claim is
    the cheapest at some depth its floor has reached. `CheapestDeepens`: the cheapest at a
    deeper depth is the same or strictly deeper.
13. `VerdictInv`, for the last two: criteria bind the whole scope and the verifiers of their
    contract (`ContractRecords`), and what completion reads of a verifier's last record is in the
    evidence (`LatestRecorded`). From it: `RefutedStandsAlways` (evidence is only added, and stays
    current while the binding of the claim does; evidence without a stamp is compared with the
    binding of the task, which is where `ContractRecords` is needed) and
    `CompletedOnProvenInputsAlways` (only `Complete` completes; what it reads is the last record of
    each verifier, which names an evidence record of a run that read the same first and last). A
    stamp says less: it is read apart from the binding, so that a claim is VERIFIED on what its
    verifiers saw is false (`run_bound_apart`).

About `WorkSession`, for any callers, requests and bounds:

14. `SessionTypes`, `RetriesFindTheirTask`, `CompletedWorkIsCompiled`. `RetryFindsTask` alone is not
    inductive: a caller between its search and `Create` must still have no task under way
    (`NothingUnderWay`), which holds because no other caller's step gives it one. For
    `CompletedCompiled`: a caller past the gate keeps compiled obligations whatever is done to
    the task meanwhile (`PastGateCompiled`). `Shape` has the types: a task waits for older ones only, and
    a call is about a task there is.

About `Store`, for any clients, records, payloads and number of writes:

15. `StoreKeepsAuditTrail`. The database and the working copy of the open transaction are each
    `Sound`: the chain verifies, events, revisions and records account for one another, no revision is
    ahead of the knowledge version, and a record has as many versions as the log has writes of
    it. `AuditTrail` says only the first two; without the others a write could break it.
16. `StoreKeepsVersions`, the refinement. `InitRefines`: an absent database is the empty log.
    `NextRefines`, one step per action: a commit is one `Extend`, a `Get` is a `Look`, an abort and a
    conflict are `Forget`, the rest stutters. It needs `Follows`: the working copy is the committed
    log and one batch more, of records whose last version the writer had seen. That is what
    `BEGIN IMMEDIATE` and the version test of `put` are for.

About `KnowledgeGraph`, for any entities, callers and changesets:

17. `RollbackKeepsPast` and `DependenciesStaySound`, from `GraphInv`. Every write only adds revisions dated
    with the next knowledge version (`Grown`), so what an earlier version reads is unchanged; a
    changeset wrote once what it names once (`WrittenOnce`), so what its rollback finds to restore is
    what was before it. A dependency is added only if its start is not in what its end reaches,
    and that set is closed under the dependencies (`VisitedClosed`), so a cycle through the new one would be
    inside it (`LinkNoCycle`). No write makes an entity active again (`NoneRevived`, since the code
    refuses what would), so what rested on nothing retired before does not come back on
    something retired since.

About the others:

18. `ClaimsKeepOneTruth` (`CanonicalClaims`): `Agree` is the inductive form, over claims and not over
    sets of values.
19. `LedgerStaysSound` (`EvidenceLedger`): who is past the lock has it; what was formed comes next in
    a ledger that is readable; what was written is there (`LedgerInv`). A record appended to a
    verified chain verifies (`AppendVerified`), and a fragment or a damaged line is the last.
20. `GateMergesAnswered` (`MutationGate`): a shard passed on the tree and the difference there are now
    (`PassedOnHead`), which a commit of any kind makes it run for again. The scope holds every file the
    difference names (`NamedInScope`); a gate that passes counted every survivor (`GateAnswers`: proven
    and reviewed ones are disjoint parts of the survivors, as many as there are) and found a survivor for
    every exception it looked at (`GateNeeds`). Nothing is assumed of what a commit does to a mutant.
21. `CallsKnow`, `MergesRecordedAsGated` and `CompletesOnPrimary` (`Integration`): contents come and
    go, so no fact about a tree is invariant. What is invariant is what a call knows at each of its
    steps, under the condition that its tree was not edited since (`Measured`), with what exists together
    (`Together`). It needs one step per look at a tree: what the gate bound is what it found, what the
    transaction merges, recovers or completes is bound to what was gated. Others' records cannot come in
    between, by the version (`same`) or by the write lock.
22. `RegistryEntriesHavePackages` (`VerifierRegistry`): what is in the registry, or in what some call is
    about to write, has its package, and what is being copied is known to nobody else (`VerifierInv`).
23. `UpgradeRunsAgain` (`SchemaMigration`): `RunAgainRepairs` is inductive with the types.
24. `CampaignReportsMeasured` (`MutationCampaign`): a copy holds the mutant tested in it and nothing else,
    and every mutant of the campaign waits, is tested or has its result (`CampaignSound`). As long as every
    read of the sources found the version of the plan, a killed mutant was measured on that version,
    and what a resumed report does not leave alive was measured on it before (`ReportSound`).
25. `InstallationKeepsOwnWork` (`Installation`): every write, by its kind (`WriteKeeps`). What a tool saw
    is of the type of the file it is about to write (`KitTools`), so a write is the one the code computes
    from that; where the file is as it was seen, the owner's text is in it. A directory is
    kept whatever was seen, since a copy onto it raises (`WriteFileKeeps`).
26. `RecordsKeepTypes`: the types of all nine, side by side (`RecordsSpec`). For `Installation` the
    records of the tools need a lemma of their own (`KitTools`): a request stays what was asked while
    the list of writes is worked off.

Only model-checked: `StoppedAgentFreed`, `StaleCompletionReopened`, `EveryRequestServed`, `AppendEnds`
and `GapsClose` (liveness under fairness is out of the prover's reach), and the failing runs, which
are counterexamples.

## Not modelled, and why

- The text of contracts, claims, plans, reports and prompts, and how a request's words become a
  scope (`derive` in `control/work.py`): no property here is about wording.
- `requirements.py`, `acceptance.py`, `risk.py`, `integrity.py`, `quality.py`, `validation.py`,
  `crap.py`, `evolution.py`: each converts one document into another in one call and keeps nothing.
  A model of them would be the program again.
- Interfaces (`cli.py`, `control/cli.py`, `control/api.py`, `control/mcp.py`, `control/console.py`): they parse, call one
  of the operations above and render.
- `migration.py` (files of a version, rewritten in place) and `diagnostics.py`: one sequential pass.
- In `Assurance`: claims reached through the knowledge graph (IMPACT), changes of the
  capability registry, artifacts that were tampered with (`artifact_intact`, `outcome_matches`),
  the `integrity` report. No verifier run ends UNKNOWN (`quality.run_gate`), so that branch of
  `resolve` is left out.
- In `Assurance` and `Integration`: evidence of requirements and of dependencies. Dependencies
  between tasks are in `WorkSession`, as an order of completion.
- In `VerifierRegistry`: how a command's output becomes a result. In `MutationCampaign` and
  `MutationGate`: how mutants are generated and which rules prove them equivalent.
- SQLite itself: a transaction is atomic and durable. Git itself: a fast-forward happens or not.
- Hazards no property covers are in `PROJECT.json` with the reason.

## Plan

1. Done: the models above and their runs; a theorem for every invariant, action property and
   refinement they check.
2. Abstract specifications of components that have none yet, with their step simulations: a
   task list with one owner per task for `TaskLifecycle`, an append-only list for
   `EvidenceLedger`.
3. The safety halves of the liveness properties: that the step which must happen is enabled by the
   state alone, for instance that nothing but time and a sweep stands between a stopped agent and
   a free task.
