---------------------------- MODULE WorkSession -----------------------------
(***************************************************************************)
(* From a request in someone's own words to completed work                 *)
(* (control/work.py): start links the request to an open task or derives   *)
(* one, compiles its obligations, makes it ready and claims it; the agent  *)
(* verifies and finishes it.  Each of these is a transaction of its own,   *)
(* the call may be killed between any two, other callers and the owner act *)
(* in between, and a caller whose work is not complete asks again.         *)
(*                                                                         *)
(* All tasks share the primary working tree.  The steps inside a verifier  *)
(* run and a lease are those of TaskLifecycle and happen at once here.     *)
(***************************************************************************)
EXTENDS Integers, Sequences, FiniteSets

CONSTANTS Callers,   \* command-line users, each with one request
          Files,
          Scope,     \* caller -> the files its request names
          MaxTasks,  \* tasks created (bound)
          MaxFaults, \* kills, slow agents, failing runs, decisions (bound)
          None       \* no holder, no task

ASSUME WorkSessionAssumption ==
  /\ Scope \in [Callers -> (SUBSET Files) \ {{}}]
  /\ MaxTasks \in Nat /\ MaxFaults \in Nat /\ None \notin Callers

VARIABLES
  tasks,  \* the tasks created, in order: record, obligations, request record
  lease,  \* task -> its holder and whether its time has run out, or None
  call,   \* caller -> where its call is, and what it read
  done,   \* callers that saw their work complete
  faults  \* how many faults happened

vars == <<tasks, lease, call, done, faults>>

Idle == [at |-> "idle", task |-> 0, seen |-> "none", deps |-> {}]
Places == {"idle", "create", "compile", "record", "report", "ready", "look", "claim",
           "work", "finish", "gate", "complete"}
Working == {"work", "finish", "gate", "complete"}
States == {"PLANNED", "READY", "CLAIMED", "VERIFYING", "FAILED", "COMPLETED",
           "NEEDS_REVALIDATION", "CANCELLED", "SUPERSEDED"}

TypeOK ==
  /\ \A t \in DOMAIN tasks :
       /\ tasks[t].state \in States /\ tasks[t].deps \subseteq 1..(t - 1)
       /\ lease[t] # None => lease[t].by \in Callers /\ lease[t].lapsed \in BOOLEAN
  /\ DOMAIN lease = DOMAIN tasks
  /\ \A c \in Callers : call[c].at \in Places /\ call[c].task \in 0..Len(tasks)
  /\ done \subseteq Callers /\ faults \in 0..MaxFaults

Init ==
  /\ tasks = << >>
  /\ lease = << >>
  /\ call = [c \in Callers |-> Idle]
  /\ done = {}
  /\ faults = 0

-----------------------------------------------------------------------------
\* What start reads

Open(t) == tasks[t].state \notin {"COMPLETED", "CANCELLED"}

SameRequest(c) == {t \in DOMAIN tasks : Open(t) /\ tasks[t].request = c}

Covering(c) == {t \in DOMAIN tasks : Open(t) /\ Scope[c] \subseteq tasks[t].scope}

\* Faulty variant: finds a request by the record start writes last.
LinkedByRecord(c) ==
  LET same == {t \in SameRequest(c) : tasks[t].recorded}
  IN  IF same # {} THEN same ELSE Covering(c) \ SameRequest(c)

\* _existing: the same words first, else an open task that covers the scope.
Linked(c) == IF SameRequest(c) # {} THEN SameRequest(c) ELSE Covering(c)

\* _dependencies: open tasks that own part of the scope.
Overlapping(c) == {t \in DOMAIN tasks : Open(t) /\ tasks[t].scope \cap Scope[c] # {}}

\* readiness: every dependency holds a current proof.
Ready(t) == \A d \in tasks[t].deps : tasks[d].state = "COMPLETED"

\* _held_elsewhere: an ACTIVE lease of another task, lapsed or not.
HeldElsewhere(t) == \E u \in DOMAIN tasks \ {t} : lease[u] # None

Owned(c) == lease[call[c].task] = [by |-> c, lapsed |-> FALSE]

\* Faulty variant: a sweep that frees the lease and leaves the task as it was.
SweptLeaseOnly(t) == tasks[t]

\* _expire on every lease whose time has run out.
Swept(t) ==
  IF lease[t] # None /\ lease[t].lapsed /\ tasks[t].state \in {"CLAIMED", "VERIFYING", "FAILED"}
  THEN [tasks[t] EXCEPT !.state = "READY"] ELSE tasks[t]

SweptLease(t) == IF lease[t] # None /\ lease[t].lapsed THEN None ELSE lease[t]

-----------------------------------------------------------------------------
\* The steps of start

Goto(c, place) == call' = [call EXCEPT ![c].at = place]
Return(c) == call' = [call EXCEPT ![c] = Idle]

\* Preflight passed, the contract is derived and an existing task looked for.
Derive(c) ==
  /\ call[c] = Idle /\ c \notin done
  /\ IF Linked(c) # {}
     THEN \E t \in Linked(c) :
            call' = [call EXCEPT ![c] =
              [at |-> "report", task |-> t, seen |-> tasks[t].state, deps |-> {}]]
     ELSE /\ Len(tasks) < MaxTasks
          /\ call' = [call EXCEPT ![c] =
               [at |-> "create", task |-> 0, seen |-> "none", deps |-> Overlapping(c)]]
  /\ UNCHANGED <<tasks, lease, done, faults>>

\* Faulty variant: dependencies are looked for once the task is there to be found.
NewTaskAmongOpen(c) ==
  [request |-> c, scope |-> Scope[c], deps |-> Overlapping(c) \cup {Len(tasks) + 1},
   state |-> "PLANNED", compiled |-> FALSE, recorded |-> FALSE, checkpointed |-> FALSE,
   proven |-> FALSE]

\* The task of a derived contract, with the dependencies as they were read.
NewTask(c) ==
  [request |-> c, scope |-> Scope[c], deps |-> call[c].deps, state |-> "PLANNED",
   compiled |-> FALSE, recorded |-> FALSE, checkpointed |-> FALSE, proven |-> FALSE]

\* Plane.create_task
Create(c) ==
  /\ call[c].at = "create" /\ Len(tasks) < MaxTasks
  /\ tasks' = Append(tasks, NewTask(c))
  /\ lease' = Append(lease, None)
  /\ call' = [call EXCEPT ![c] =
       [at |-> "compile", task |-> Len(tasks) + 1, seen |-> "PLANNED", deps |-> {}]]
  /\ UNCHANGED <<done, faults>>

\* _compile_obligations
Compile(c) ==
  /\ call[c].at = "compile"
  /\ tasks' = [tasks EXCEPT ![call[c].task].compiled = TRUE]
  /\ Goto(c, "record")
  /\ UNCHANGED <<lease, done, faults>>

\* The transaction that writes the work_request.
Record(c) ==
  /\ call[c].at = "record"
  /\ tasks' = [tasks EXCEPT ![call[c].task].recorded = TRUE]
  /\ Goto(c, "report")
  /\ UNCHANGED <<lease, done, faults>>

\* _report reads the readiness; a task that is not ready is left waiting.
Report(c) ==
  /\ call[c].at = "report"
  /\ IF ~Ready(call[c].task) THEN Return(c)
     ELSE Goto(c, IF call[c].seen = "PLANNED" THEN "ready" ELSE "look")
  /\ UNCHANGED <<tasks, lease, done, faults>>

\* Plane.ready, which tests state and readiness again, or the call raises.
MakeReady(c) ==
  /\ call[c].at = "ready"
  /\ LET t == call[c].task
     IN  IF tasks[t].state \in {"PLANNED", "FAILED", "NEEDS_REVALIDATION", "READY"} /\ Ready(t)
         THEN /\ tasks' = [tasks EXCEPT ![t].state = "READY"]
              /\ call' = [call EXCEPT ![c].at = "look", ![c].seen = "READY"]
         ELSE Return(c) /\ UNCHANGED tasks
  /\ UNCHANGED <<lease, done, faults>>

\* The claim is attempted when no other task holds the tree.
Look(c) ==
  /\ call[c].at = "look"
  /\ IF call[c].seen = "READY" /\ ~HeldElsewhere(call[c].task) THEN Goto(c, "claim") ELSE Return(c)
  /\ UNCHANGED <<tasks, lease, done, faults>>

Sweep ==
  /\ tasks' = [t \in DOMAIN tasks |-> Swept(t)]
  /\ lease' = [t \in DOMAIN tasks |-> SweptLease(t)]

\* Plane.claim: sweeps, then takes the task; a refusal rolls the sweep back.
Claim(c) ==
  /\ call[c].at = "claim"
  /\ LET t == call[c].task
     IN  IF Swept(t).state = "READY" /\ Ready(t) /\ \A u \in DOMAIN tasks : SweptLease(u) = None
         THEN /\ tasks' = [u \in DOMAIN tasks |->
                    IF u = t THEN [Swept(u) EXCEPT !.state = "CLAIMED"] ELSE Swept(u)]
              /\ lease' = [u \in DOMAIN tasks |->
                    IF u = t THEN [by |-> c, lapsed |-> FALSE] ELSE SweptLease(u)]
              /\ Goto(c, "work")
         ELSE Return(c) /\ UNCHANGED <<tasks, lease>>
  /\ UNCHANGED <<done, faults>>

-----------------------------------------------------------------------------
\* The work

Fault == faults < MaxFaults /\ faults' = faults + 1

\* A call whose lease is gone raises LEASE_LOST, and the agent asks again.
LeaseLost(c) ==
  /\ call[c].at \in Working /\ ~Owned(c)
  /\ Return(c)
  /\ UNCHANGED <<tasks, lease, done, faults>>

Verifiable(t) == tasks[t].state \in {"CLAIMED", "VERIFYING", "FAILED"}

\* Somebody made the task READY under its agent: verify and finish are refused, and
\* the agent gives up.
GiveUp(c) ==
  /\ call[c].at \in Working /\ Owned(c) /\ ~Verifiable(call[c].task)
  /\ Return(c)
  /\ UNCHANGED <<tasks, lease, done, faults>>

\* finish begins with a checkpoint of what was measured.
Checkpoint(c) ==
  /\ call[c].at = "work" /\ Owned(c) /\ Verifiable(call[c].task)
  /\ tasks' = [tasks EXCEPT ![call[c].task].checkpointed = TRUE]
  /\ Goto(c, "finish")
  /\ UNCHANGED <<lease, done, faults>>

\* verify passes: by hand, or in finish on a task nobody verified.
VerifyPasses(c) ==
  LET t == call[c].task
  IN  /\ call[c].at = "work" \/ (call[c].at = "finish" /\ tasks[t].state = "CLAIMED")
      /\ Owned(c) /\ tasks[t].state \in {"CLAIMED", "FAILED"} /\ Ready(t)
      /\ tasks' = [tasks EXCEPT ![t].state = "VERIFYING"]
      /\ Goto(c, IF call[c].at = "finish" THEN "gate" ELSE "work")
      /\ UNCHANGED <<lease, done, faults>>

\* verify fails, or is refused for a dependency that lost its proof.
VerifyFails(c) ==
  LET t == call[c].task
  IN  /\ call[c].at \in {"work", "finish"} /\ Owned(c)
      /\ tasks[t].state \in {"CLAIMED", "VERIFYING"}
      /\ Fault
      /\ tasks' = [tasks EXCEPT ![t].state = "FAILED"]
      /\ Goto(c, "work")
      /\ UNCHANGED <<lease, done>>

\* finish on a task that is not CLAIMED goes straight to complete.
FinishVerified(c) ==
  /\ call[c].at = "finish" /\ Owned(c) /\ tasks[call[c].task].state # "CLAIMED"
  /\ Goto(c, "gate")
  /\ UNCHANGED <<tasks, lease, done, faults>>

\* Faulty variant: a gate that reads the debt of the obligations there are.
GateAsCompiled(c) ==
  /\ call[c].at = "gate" /\ Owned(c)
  /\ Goto(c, IF tasks[call[c].task].state = "VERIFYING" THEN "complete" ELSE "work")
  /\ UNCHANGED <<tasks, lease, done, faults>>

\* complete, first half: assurance_gate compiles the obligations of the change itself,
\* and finds no debt; a task that is not VERIFYING is refused.
Gate(c) ==
  LET t == call[c].task
  IN  /\ call[c].at = "gate" /\ Owned(c)
      /\ IF tasks[t].state = "VERIFYING" /\ Ready(t)
         THEN tasks' = [tasks EXCEPT ![t].compiled = TRUE] /\ Goto(c, "complete")
         ELSE Goto(c, "work") /\ UNCHANGED tasks
      /\ UNCHANGED <<lease, done, faults>>

\* complete, second half: its transaction; a refusal is the answer of finish.
Complete(c) ==
  LET t == call[c].task
  IN  /\ call[c].at = "complete" /\ Owned(c)
      /\ IF tasks[t].state = "VERIFYING" /\ Ready(t) /\ tasks[t].checkpointed
         THEN /\ tasks' = [tasks EXCEPT ![t].state = "COMPLETED", ![t].proven = TRUE]
              /\ lease' = [lease EXCEPT ![t] = None]
              /\ done' = done \cup {c}
              /\ Return(c)
         ELSE Goto(c, "work") /\ UNCHANGED <<tasks, lease, done>>
      /\ UNCHANGED faults

-----------------------------------------------------------------------------
\* Everything else

\* The contract of new work holds a decision that is not the system's to make: nothing
\* is written, and the caller asks again when the owner has decided.
AskOwner(c) ==
  /\ call[c] = Idle /\ c \notin done /\ Linked(c) = {} /\ Fault
  /\ UNCHANGED <<tasks, lease, call, done>>

\* The process of a call is killed, or its agent leaves.
Kill(c) ==
  /\ call[c].at # "idle" /\ Fault
  /\ Return(c)
  /\ UNCHANGED <<tasks, lease, done>>

\* A lease runs out: of an agent that left, or (a fault) of one that is slow.
Lapse(t) ==
  /\ lease[t] # None /\ ~lease[t].lapsed
  /\ LET working == call[lease[t].by].task = t /\ call[lease[t].by].at \in Working
     IN  IF working THEN Fault ELSE UNCHANGED faults
  /\ lease' = [lease EXCEPT ![t].lapsed = TRUE]
  /\ UNCHANGED <<tasks, call, done>>

\* Somebody opens the status.
Status == Sweep /\ UNCHANGED <<call, done, faults>>

\* The owner cancels or supersedes a task: its lease is revoked.
Dispose(t, s) ==
  /\ Fault
  /\ tasks[t].state \notin {"CANCELLED", "SUPERSEDED"}
  /\ tasks[t].state = "COMPLETED" => s = "SUPERSEDED"
  /\ tasks' = [tasks EXCEPT ![t].state = s]
  /\ lease' = [lease EXCEPT ![t] = None]
  /\ UNCHANGED <<call, done>>

\* A completed task whose inputs moved loses its proof.
Invalidate(t) ==
  /\ tasks[t].state = "COMPLETED" /\ Fault
  /\ tasks' = [tasks EXCEPT ![t].state = "NEEDS_REVALIDATION"]
  /\ UNCHANGED <<lease, call, done>>

\* Plane.ready, called for a task whose proof was lost.
ReadyByHand(t) ==
  /\ tasks[t].state \in {"FAILED", "NEEDS_REVALIDATION"} /\ Ready(t)
  /\ tasks' = [tasks EXCEPT ![t].state = "READY"]
  /\ UNCHANGED <<lease, call, done, faults>>

Step(c) ==
  \/ Derive(c) \/ Create(c) \/ Compile(c) \/ Record(c) \/ Report(c) \/ MakeReady(c)
  \/ Look(c) \/ Claim(c) \/ LeaseLost(c) \/ GiveUp(c) \/ Checkpoint(c) \/ VerifyPasses(c)
  \/ FinishVerified(c) \/ Gate(c) \/ Complete(c)

Next ==
  \/ \E c \in Callers : Step(c) \/ AskOwner(c) \/ Kill(c) \/ VerifyFails(c)
  \/ \E t \in DOMAIN tasks :
       Lapse(t) \/ Invalidate(t) \/ \E s \in {"CANCELLED", "SUPERSEDED"} : Dispose(t, s)
  \/ \E t \in DOMAIN tasks : ReadyByHand(t)
  \/ Status

Spec == Init /\ [][Next]_vars

\* A caller goes on until its work is complete and verifies again what failed, time
\* passes, and the status is opened now and then.
FairSpec ==
  /\ Spec
  /\ \A c \in Callers : WF_vars(Step(c)) /\ SF_vars(VerifyPasses(c))
  /\ \A t \in 1..MaxTasks : WF_vars(t \in DOMAIN tasks /\ Lapse(t))
  /\ WF_vars(Status)

-----------------------------------------------------------------------------
\* Properties

\* However often a start is killed and repeated, a request has one task under way:
\* digest's "asking for the same thing twice finds the same task".
RetryFindsTask ==
  \A t, u \in DOMAIN tasks :
    /\ Open(t) /\ ~tasks[t].proven /\ Open(u) /\ ~tasks[u].proven
    /\ tasks[t].request = tasks[u].request
    => t = u

\* Work never completes without its obligations, even if the start that created the
\* task was killed before it compiled them.
CompletedCompiled == \A t \in DOMAIN tasks : tasks[t].state = "COMPLETED" => tasks[t].compiled

\* Tasks nobody is asked to complete: disposed of, or reopened after their caller left.
\* start does not tell them from tasks under way.
Dead == {t \in DOMAIN tasks :
           \/ tasks[t].state \in {"CANCELLED", "SUPERSEDED"}
           \/ tasks[t].proven /\ tasks[t].state # "COMPLETED"}

\* Tasks that are dead or wait for one that is.
Hopeless ==
  LET Waits[t \in DOMAIN tasks] == t \in Dead \/ \E d \in tasks[t].deps : Waits[d]
  IN  {t \in DOMAIN tasks : Waits[t]}

Stuck(c) == Linked(c) \cap Hopeless # {}

\* A caller that keeps asking sees its work complete: interrupted starts, agents that
\* left and leases that ran out delay it, and only a disposed task stands in its way.
RequestsServed == \A c \in Callers : <>(c \in done \/ Stuck(c))
=============================================================================
