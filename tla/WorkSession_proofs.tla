------------------------- MODULE WorkSession_proofs -------------------------
(***************************************************************************)
(* Theorems about WorkSession, for any callers, scopes and bounds.         *)
(***************************************************************************)
EXTENDS WorkSession, SequenceTheorems, TLAPS

-----------------------------------------------------------------------------
\* The inductive invariant

TaskRecords ==
  [request: Callers, scope: SUBSET Files, deps: SUBSET Nat, state: States, compiled: BOOLEAN,
   recorded: BOOLEAN, checkpointed: BOOLEAN, proven: BOOLEAN]

Leases == [by: Callers, lapsed: BOOLEAN] \cup {None}

CallRecords == [at: Places, task: Nat, seen: States \cup {"none"}, deps: SUBSET Nat]

\* A task waits only for older ones, and a call is about a task there is.
Shape ==
  /\ tasks \in Seq(TaskRecords) /\ lease \in Seq(Leases) /\ Len(lease) = Len(tasks)
  /\ call \in [Callers -> CallRecords]
  /\ done \subseteq Callers /\ faults \in 0..MaxFaults
  /\ \A t \in DOMAIN tasks : tasks[t].deps \subseteq 1..(t - 1)
  /\ \A c \in Callers :
       /\ call[c].task \in 0..Len(tasks) /\ call[c].deps \subseteq DOMAIN tasks
       /\ call[c].at \notin {"idle", "create"} => call[c].task \in DOMAIN tasks

\* What is COMPLETED went through the gate and was proven.
CompletedProven ==
  \A t \in DOMAIN tasks : tasks[t].state = "COMPLETED" => tasks[t].compiled /\ tasks[t].proven

\* A caller that is past the gate has compiled obligations, whatever was done to the task.
PastGateCompiled ==
  \A c \in Callers : call[c].at = "complete" => tasks[call[c].task].compiled

\* A caller about to create a task has none under way, and nobody else can give it one.
NothingUnderWay ==
  \A c \in Callers : call[c].at = "create" =>
    \A t \in DOMAIN tasks :
      tasks[t].request = c => tasks[t].proven \/ tasks[t].state = "CANCELLED"

IInv ==
  Shape /\ CompletedProven /\ PastGateCompiled /\ NothingUnderWay /\ RetryFindsTask

-----------------------------------------------------------------------------
\* Facts about the operators

\* A record written over another one keeps the tasks a sequence of as many.
LEMMA TaskReplaced ==
  ASSUME tasks \in Seq(TaskRecords), NEW t \in DOMAIN tasks, NEW r \in TaskRecords
  PROVE  /\ [tasks EXCEPT ![t] = r] \in Seq(TaskRecords)
         /\ Len([tasks EXCEPT ![t] = r]) = Len(tasks)
         /\ DOMAIN [tasks EXCEPT ![t] = r] = DOMAIN tasks
BY ExceptSeq, LenProperties

\* A lease written over another one keeps as many.
LEMMA LeaseReplaced ==
  ASSUME lease \in Seq(Leases), NEW t \in DOMAIN lease, NEW r \in Leases
  PROVE  /\ [lease EXCEPT ![t] = r] \in Seq(Leases)
         /\ Len([lease EXCEPT ![t] = r]) = Len(lease)
BY ExceptSeq, LenProperties

\* A sweep makes tasks READY and changes nothing else of them.
LEMMA SweptTask ==
  ASSUME Shape, NEW t \in DOMAIN tasks
  PROVE  /\ Swept(t) \in TaskRecords
         /\ \/ Swept(t) = tasks[t]
            \/ /\ Swept(t) = [tasks[t] EXCEPT !.state = "READY"]
               /\ tasks[t].state \notin {"COMPLETED", "CANCELLED"}
         /\ SweptLease(t) \in Leases
<1>1. tasks[t] \in TaskRecords /\ lease[t] \in Leases
  BY ElementOfSeq, LenProperties DEF Shape
<1>2. [tasks[t] EXCEPT !.state = "READY"] \in TaskRecords
  BY <1>1 DEF TaskRecords, States
<1>3. \/ Swept(t) = tasks[t]
      \/ /\ Swept(t) = [tasks[t] EXCEPT !.state = "READY"]
         /\ tasks[t].state \notin {"COMPLETED", "CANCELLED"}
  BY DEF Swept
<1>4. SweptLease(t) \in Leases
  BY <1>1 DEF SweptLease, Leases
<1>5. QED
  BY <1>1, <1>2, <1>3, <1>4

\* The types of the model follow from the shape.
LEMMA ShapeTypes == Shape => TypeOK
<1> SUFFICES ASSUME Shape PROVE TypeOK
  OBVIOUS
<1>1. ASSUME NEW t \in DOMAIN tasks PROVE tasks[t] \in TaskRecords /\ lease[t] \in Leases
  BY ElementOfSeq, LenProperties DEF Shape
<1>2. DOMAIN lease = DOMAIN tasks
  BY LenProperties DEF Shape
<1>3. QED
  BY <1>1, <1>2 DEF Shape, TypeOK, TaskRecords, Leases, CallRecords

-----------------------------------------------------------------------------
\* Steps that create no task

\* What may happen to a task: it keeps its request and its dependencies, what was compiled
\* and proven stays so, and a cancelled task stays cancelled.
TaskMoves(t) ==
  /\ tasks'[t].request = tasks[t].request /\ tasks'[t].deps = tasks[t].deps
  /\ tasks[t].compiled => tasks'[t].compiled
  /\ tasks[t].proven => tasks'[t].proven
  /\ tasks'[t].state = "COMPLETED" => tasks'[t].compiled /\ tasks'[t].proven
  /\ tasks[t].state = "CANCELLED" => tasks'[t].state = "CANCELLED"

\* Where a call may go to.
CallMoves(c) ==
  LET r == call'[c]
  IN  /\ r.task \in 0..Len(tasks) /\ r.deps \subseteq DOMAIN tasks
      /\ r.at \notin {"idle", "create"} => r.task \in DOMAIN tasks
      /\ r.at = "complete" => tasks'[r.task].compiled
      /\ r.at = "create" => SameRequest(c) = {}

\* The steps below are of this kind.
OldTasksMove ==
  /\ tasks' \in Seq(TaskRecords) /\ Len(tasks') = Len(tasks)
  /\ lease' \in Seq(Leases) /\ Len(lease') = Len(lease)
  /\ call' \in [Callers -> CallRecords]
  /\ done' \subseteq Callers /\ faults' \in 0..MaxFaults
  /\ \A t \in DOMAIN tasks : TaskMoves(t)
  /\ \A c \in Callers : call'[c] = call[c] \/ CallMoves(c)

\* Such a step keeps the invariant: it neither opens a task that was closed nor takes
\* away what a call relies on.
LEMMA OldTasksInvariant ==
  ASSUME IInv, OldTasksMove
  PROVE  IInv'
<1>1. DOMAIN tasks' = DOMAIN tasks /\ DOMAIN tasks = 1..Len(tasks)
  BY LenProperties DEF IInv, Shape, OldTasksMove
<1>2. \A t \in DOMAIN tasks : TaskMoves(t)
  BY DEF OldTasksMove
<1>3. Shape'
  <2>1. ASSUME NEW t \in DOMAIN tasks PROVE tasks'[t].deps \subseteq 1..(t - 1)
    BY <1>2 DEF TaskMoves, IInv, Shape
  <2>2. ASSUME NEW c \in Callers
        PROVE  /\ call'[c].task \in 0..Len(tasks') /\ call'[c].deps \subseteq DOMAIN tasks'
               /\ call'[c].at \notin {"idle", "create"} => call'[c].task \in DOMAIN tasks'
    BY <1>1 DEF OldTasksMove, CallMoves, IInv, Shape
  <2>3. QED
    BY <1>1, <2>1, <2>2 DEF OldTasksMove, IInv, Shape
<1>4. CompletedProven'
  BY <1>1, <1>2 DEF CompletedProven, TaskMoves
<1>5. PastGateCompiled'
  <2> SUFFICES ASSUME NEW c \in Callers, call'[c].at = "complete"
               PROVE  tasks'[call'[c].task].compiled
    BY DEF PastGateCompiled
  <2>1. CASE call'[c] = call[c]
    <3>1. call[c].task \in DOMAIN tasks /\ tasks[call[c].task].compiled
      BY <2>1 DEF IInv, Shape, PastGateCompiled
    <3>2. QED
      BY <1>2, <2>1, <3>1 DEF TaskMoves
  <2>2. CASE CallMoves(c)
    BY <2>2 DEF CallMoves
  <2>3. QED
    BY <2>1, <2>2 DEF OldTasksMove
<1>5a. ASSUME NEW t \in DOMAIN tasks,
              tasks[t].proven \/ tasks[t].state = "CANCELLED"
       PROVE  tasks'[t].proven \/ tasks'[t].state = "CANCELLED"
  BY <1>2, <1>5a DEF TaskMoves
<1>5b. ASSUME NEW t \in DOMAIN tasks, ~Open(t)
       PROVE  tasks[t].proven \/ tasks[t].state = "CANCELLED"
  BY <1>5b DEF Open, IInv, CompletedProven
<1>6. NothingUnderWay'
  <2> SUFFICES ASSUME NEW c \in Callers, call'[c].at = "create",
                      NEW t \in DOMAIN tasks, tasks'[t].request = c
               PROVE  tasks'[t].proven \/ tasks'[t].state = "CANCELLED"
    BY <1>1 DEF NothingUnderWay
  <2>0. tasks[t].request = c
    BY <1>2 DEF TaskMoves
  <2>1. CASE call'[c] = call[c]
    BY <1>5a, <2>0, <2>1 DEF IInv, NothingUnderWay
  <2>2. CASE CallMoves(c)
    <3>1. ~Open(t)
      BY <2>0, <2>2 DEF CallMoves, SameRequest
    <3>2. QED
      BY <1>5a, <1>5b, <3>1
  <2>3. QED
    BY <2>1, <2>2 DEF OldTasksMove
<1>7. RetryFindsTask'
  <2> SUFFICES ASSUME NEW t \in DOMAIN tasks, NEW u \in DOMAIN tasks,
                      Open(t)', ~tasks'[t].proven, Open(u)', ~tasks'[u].proven,
                      tasks'[t].request = tasks'[u].request
               PROVE  t = u
    BY <1>1 DEF RetryFindsTask
  <2>1. /\ ~tasks[t].proven /\ tasks[t].state # "CANCELLED"
        /\ ~tasks[u].proven /\ tasks[u].state # "CANCELLED"
    BY <1>5a DEF Open
  <2>2. Open(t) /\ Open(u) /\ tasks[t].request = tasks[u].request
    BY <1>2, <1>5b, <2>1 DEF TaskMoves
  <2>3. QED
    BY <2>1, <2>2 DEF IInv, RetryFindsTask
<1>8. QED
  BY <1>3, <1>4, <1>5, <1>6, <1>7 DEF IInv

-----------------------------------------------------------------------------
\* The kinds of steps

\* Tasks that are left alone.
LEMMA TasksKept ==
  ASSUME IInv, UNCHANGED tasks
  PROVE  tasks' \in Seq(TaskRecords) /\ Len(tasks') = Len(tasks) /\ \A t \in DOMAIN tasks : TaskMoves(t)
BY DEF IInv, Shape, CompletedProven, TaskMoves

\* A task that moves as TaskMoves allows, all others left alone.
LEMMA TaskWritten ==
  ASSUME IInv, NEW t \in DOMAIN tasks, NEW r \in TaskRecords, tasks' = [tasks EXCEPT ![t] = r],
         r.request = tasks[t].request, r.deps = tasks[t].deps,
         tasks[t].compiled => r.compiled, tasks[t].proven => r.proven,
         r.state = "COMPLETED" => r.compiled /\ r.proven,
         tasks[t].state = "CANCELLED" => r.state = "CANCELLED"
  PROVE  tasks' \in Seq(TaskRecords) /\ Len(tasks') = Len(tasks) /\ \A u \in DOMAIN tasks : TaskMoves(u)
<1>1. tasks' \in Seq(TaskRecords) /\ Len(tasks') = Len(tasks)
  BY TaskReplaced DEF IInv, Shape
<1>2. ASSUME NEW u \in DOMAIN tasks PROVE TaskMoves(u)
  <2>1. CASE u = t
    BY <2>1 DEF TaskMoves
  <2>2. CASE u # t
    BY <2>2 DEF TaskMoves, IInv, CompletedProven
  <2>3. QED
    BY <2>1, <2>2
<1>3. QED
  BY <1>1, <1>2

\* A call that moves as CallMoves allows, all others left alone.
LEMMA CallMoved ==
  ASSUME IInv, NEW c \in Callers, NEW r \in CallRecords, call' = [call EXCEPT ![c] = r], CallMoves(c)
  PROVE  /\ call' \in [Callers -> CallRecords]
         /\ \A d \in Callers : call'[d] = call[d] \/ CallMoves(d)
BY DEF IInv, Shape

\* A call that goes to another place, or returns.
LEMMA CallGoes ==
  ASSUME IInv, NEW c \in Callers, call[c].task \in DOMAIN tasks,
         NEW p \in Places \ {"create"}, Goto(c, p),
         p = "complete" => tasks'[call[c].task].compiled
  PROVE  /\ call' \in [Callers -> CallRecords]
         /\ \A d \in Callers : call'[d] = call[d] \/ CallMoves(d)
<1> DEFINE r == [call[c] EXCEPT !.at = p]
<1>1. call[c] \in CallRecords /\ call[c].deps \subseteq DOMAIN tasks
  BY DEF IInv, Shape
<1>2. r \in CallRecords /\ r.at = p /\ r.task = call[c].task /\ r.deps = call[c].deps
  BY <1>1 DEF CallRecords
<1>3. call' = [call EXCEPT ![c] = r]
  BY DEF Goto
<1>4. call'[c] = r
  BY <1>3 DEF IInv, Shape
<1>5. CallMoves(c)
  <2>1. r.task \in 0..Len(tasks)
    BY <1>2 DEF IInv, Shape
  <2>2. QED
    BY <1>1, <1>2, <1>4, <2>1 DEF CallMoves
<1>6. QED
  BY <1>2, <1>3, <1>5, CallMoved

\* A call that returns to its agent leaves a call that is idle.
LEMMA CallReturns ==
  ASSUME IInv, NEW c \in Callers, Return(c)
  PROVE  /\ call' \in [Callers -> CallRecords]
         /\ \A d \in Callers : call'[d] = call[d] \/ CallMoves(d)
<1>1. Idle \in CallRecords
  BY DEF Idle, CallRecords, Places
<1>2. call' = [call EXCEPT ![c] = Idle] /\ call'[c] = Idle
  BY DEF Return, IInv, Shape
<1>3. 0 \in 0..Len(tasks)
  BY LenProperties DEF IInv, Shape
<1>4. CallMoves(c)
  BY <1>2, <1>3 DEF CallMoves, Idle
<1>5. QED
  BY <1>1, <1>2, <1>4, CallMoved

\* A step of no call leaves every call as it is.
LEMMA CallsKept ==
  ASSUME IInv, UNCHANGED call
  PROVE  /\ call' \in [Callers -> CallRecords]
         /\ \A d \in Callers : call'[d] = call[d] \/ CallMoves(d)
BY DEF IInv, Shape

\* A sweep, whatever it finds.
LEMMA SweepMoves ==
  ASSUME IInv, Sweep
  PROVE  /\ tasks' \in Seq(TaskRecords) /\ Len(tasks') = Len(tasks)
         /\ lease' \in Seq(Leases) /\ Len(lease') = Len(lease)
         /\ \A t \in DOMAIN tasks : TaskMoves(t)
<1>1. Len(tasks) \in Nat /\ DOMAIN tasks = 1..Len(tasks) /\ Len(lease) = Len(tasks)
  BY LenProperties DEF IInv, Shape
<1>2. tasks' = [t \in 1..Len(tasks) |-> Swept(t)] /\ lease' = [t \in 1..Len(tasks) |-> SweptLease(t)]
  BY <1>1 DEF Sweep
<1>3. tasks' \in Seq(TaskRecords) /\ Len(tasks') = Len(tasks)
  <2>1. \A t \in 1..Len(tasks) : Swept(t) \in TaskRecords
    BY <1>1, SweptTask DEF IInv
  <2>2. QED
    BY <1>1, <1>2, <2>1, IsASeq, LenProperties
<1>4. lease' \in Seq(Leases) /\ Len(lease') = Len(lease)
  <2>1. \A t \in 1..Len(tasks) : SweptLease(t) \in Leases
    BY <1>1, SweptTask DEF IInv
  <2>2. QED
    BY <1>1, <1>2, <2>1, IsASeq, LenProperties
<1>5. ASSUME NEW t \in DOMAIN tasks PROVE TaskMoves(t)
  <2>1. tasks'[t] = Swept(t)
    BY <1>1, <1>2
  <2>2. tasks[t] \in TaskRecords
    BY ElementOfSeq, <1>1 DEF IInv, Shape
  <2>3. CASE Swept(t) = tasks[t]
    BY <2>1, <2>3 DEF TaskMoves, IInv, CompletedProven
  <2>4. CASE Swept(t) = [tasks[t] EXCEPT !.state = "READY"] /\ tasks[t].state \notin {"COMPLETED", "CANCELLED"}
    BY <2>1, <2>2, <2>4 DEF TaskMoves, TaskRecords
  <2>5. QED
    BY <2>3, <2>4, SweptTask DEF IInv
<1>6. QED
  BY <1>3, <1>4, <1>5

-----------------------------------------------------------------------------
\* The steps of one call

\* Where no lease is written there is still one for each task.
LEMMA LeasesKept ==
  ASSUME IInv, UNCHANGED lease
  PROVE  lease' \in Seq(Leases) /\ Len(lease') = Len(lease)
BY DEF IInv, Shape

\* A lease written at a task leaves one for each task.
LEMMA LeaseWritten ==
  ASSUME IInv, NEW t \in DOMAIN tasks, NEW l \in Leases, lease' = [lease EXCEPT ![t] = l]
  PROVE  lease' \in Seq(Leases) /\ Len(lease') = Len(lease)
<1>1. t \in DOMAIN lease
  BY LenProperties DEF IInv, Shape
<1>2. QED
  BY <1>1, LeaseReplaced DEF IInv, Shape

\* Who is done and what went wrong stay as they are.
LEMMA RestKept ==
  ASSUME IInv, UNCHANGED <<done, faults>>
  PROVE  done' \subseteq Callers /\ faults' \in 0..MaxFaults
BY DEF IInv, Shape

\* A fault is taken only below the bound.
LEMMA FaultCounted ==
  ASSUME IInv, Fault
  PROVE  faults' \in 0..MaxFaults
BY WorkSessionAssumption DEF IInv, Shape, Fault

\* What is known of a single task.
LEMMA TaskTypes ==
  ASSUME IInv, NEW t \in DOMAIN tasks
  PROVE  /\ tasks[t] \in TaskRecords /\ lease[t] \in Leases /\ t \in 1..Len(tasks)
         /\ tasks[t].state = "COMPLETED" => tasks[t].compiled /\ tasks[t].proven
BY ElementOfSeq, LenProperties DEF IInv, Shape, CompletedProven

\* The steps of start that create nothing: reading, writing to the caller's own task,
\* and the claim.
LEMMA StartMoves ==
  ASSUME IInv, NEW c \in Callers,
         \/ Derive(c) \/ Compile(c) \/ Record(c) \/ Report(c) \/ MakeReady(c) \/ Look(c) \/ Claim(c)
  PROVE  OldTasksMove
<1>0. /\ call[c] \in CallRecords
      /\ call[c].at \notin {"idle", "create"} => call[c].task \in DOMAIN tasks
  BY DEF IInv, Shape
<1>1. CASE Derive(c)
  <2>0. UNCHANGED <<tasks, lease, done, faults>>
    BY <1>1 DEF Derive
  <2>1. CASE Linked(c) # {}
    <3>1. PICK t \in Linked(c) :
            call' = [call EXCEPT ![c] = [at |-> "report", task |-> t, seen |-> tasks[t].state, deps |-> {}]]
      BY <1>1, <2>1 DEF Derive
    <3>2. t \in DOMAIN tasks
      BY DEF Linked, SameRequest, Covering
    <3> DEFINE r == [at |-> "report", task |-> t, seen |-> tasks[t].state, deps |-> {}]
    <3>3. t \in 0..Len(tasks) /\ t \in Nat /\ tasks[t].state \in States
      BY <3>2, TaskTypes, LenProperties DEF TaskRecords
    <3>4. r \in CallRecords
      BY <3>3 DEF CallRecords, Places
    <3>5. call'[c] = r
      BY <3>1 DEF IInv, Shape
    <3>6. CallMoves(c)
      BY <3>2, <3>3, <3>5 DEF CallMoves
    <3>7. QED
      BY <2>0, <3>1, <3>4, <3>6, CallMoved, TasksKept, LeasesKept, RestKept DEF OldTasksMove
  <2>2. CASE Linked(c) = {}
    <3> DEFINE r == [at |-> "create", task |-> 0, seen |-> "none", deps |-> Overlapping(c)]
    <3>1. call' = [call EXCEPT ![c] = r]
      BY <1>1, <2>2 DEF Derive
    <3>2. Overlapping(c) \subseteq DOMAIN tasks /\ DOMAIN tasks \subseteq Nat /\ 0 \in 0..Len(tasks)
      BY LenProperties DEF Overlapping, IInv, Shape
    <3>4. r \in CallRecords
      BY <3>2 DEF CallRecords, Places
    <3>5. call'[c] = r
      BY <3>1 DEF IInv, Shape
    <3>6. SameRequest(c) = {}
      BY <2>2 DEF Linked
    <3>7. CallMoves(c)
      BY <3>2, <3>5, <3>6 DEF CallMoves
    <3>8. QED
      BY <2>0, <3>1, <3>4, <3>7, CallMoved, TasksKept, LeasesKept, RestKept DEF OldTasksMove
  <2>3. QED
    BY <2>1, <2>2
<1>2. CASE Compile(c)
  <2> DEFINE t == call[c].task
             r == [tasks[t] EXCEPT !.compiled = TRUE]
  <2>0. t \in DOMAIN tasks /\ tasks' = [tasks EXCEPT ![t] = r] /\ Goto(c, "record")
        /\ UNCHANGED <<lease, done, faults>>
    BY <1>0, <1>2 DEF Compile
  <2>1. tasks[t] \in TaskRecords /\ (tasks[t].state = "COMPLETED" => tasks[t].proven)
    BY <2>0, TaskTypes
  <2>2. r \in TaskRecords /\ r.request = tasks[t].request /\ r.deps = tasks[t].deps
        /\ r.compiled /\ r.proven = tasks[t].proven /\ r.state = tasks[t].state
    BY <2>1 DEF TaskRecords
  <2>3. tasks' \in Seq(TaskRecords) /\ Len(tasks') = Len(tasks) /\ \A u \in DOMAIN tasks : TaskMoves(u)
    BY <2>0, <2>1, <2>2, TaskWritten
  <2>4. "record" \in Places \ {"create"}
    BY DEF Places
  <2>5. QED
    BY <2>0, <2>3, <2>4, CallGoes, LeasesKept, RestKept DEF OldTasksMove
<1>3. CASE Record(c)
  <2> DEFINE t == call[c].task
             r == [tasks[t] EXCEPT !.recorded = TRUE]
  <2>0. t \in DOMAIN tasks /\ tasks' = [tasks EXCEPT ![t] = r] /\ Goto(c, "report")
        /\ UNCHANGED <<lease, done, faults>>
    BY <1>0, <1>3 DEF Record
  <2>1. tasks[t] \in TaskRecords /\ (tasks[t].state = "COMPLETED" => tasks[t].compiled /\ tasks[t].proven)
    BY <2>0, TaskTypes
  <2>2. r \in TaskRecords /\ r.request = tasks[t].request /\ r.deps = tasks[t].deps
        /\ r.compiled = tasks[t].compiled /\ r.proven = tasks[t].proven /\ r.state = tasks[t].state
    BY <2>1 DEF TaskRecords
  <2>3. tasks' \in Seq(TaskRecords) /\ Len(tasks') = Len(tasks) /\ \A u \in DOMAIN tasks : TaskMoves(u)
    BY <2>0, <2>1, <2>2, TaskWritten
  <2>4. "report" \in Places \ {"create"}
    BY DEF Places
  <2>5. QED
    BY <2>0, <2>3, <2>4, CallGoes, LeasesKept, RestKept DEF OldTasksMove
<1>4. CASE Report(c)
  <2>0. call[c].task \in DOMAIN tasks /\ UNCHANGED <<tasks, lease, done, faults>>
    BY <1>0, <1>4 DEF Report
  <2>1. CASE Return(c)
    BY <2>0, <2>1, CallReturns, TasksKept, LeasesKept, RestKept DEF OldTasksMove
  <2>2. CASE Goto(c, "ready") \/ Goto(c, "look")
    <3>1. {"ready", "look"} \subseteq Places \ {"create"}
      BY DEF Places
    <3>2. QED
      BY <2>0, <2>2, <3>1, CallGoes, TasksKept, LeasesKept, RestKept DEF OldTasksMove
  <2>3. QED
    BY <1>4, <2>1, <2>2 DEF Report
<1>5. CASE MakeReady(c)
  <2>0. call[c].task \in DOMAIN tasks /\ UNCHANGED <<lease, done, faults>>
    BY <1>0, <1>5 DEF MakeReady
  <2> DEFINE t == call[c].task
             r == [tasks[t] EXCEPT !.state = "READY"]
  <2>1. CASE Return(c) /\ UNCHANGED tasks
    BY <2>0, <2>1, CallReturns, TasksKept, LeasesKept, RestKept DEF OldTasksMove
  <2>2. CASE /\ tasks[t].state \in {"PLANNED", "FAILED", "NEEDS_REVALIDATION", "READY"}
             /\ tasks' = [tasks EXCEPT ![t].state = "READY"]
             /\ call' = [call EXCEPT ![c].at = "look", ![c].seen = "READY"]
    <3>1. tasks[t] \in TaskRecords /\ tasks' = [tasks EXCEPT ![t] = r]
      BY <2>0, <2>2, TaskTypes
    <3>2. r \in TaskRecords /\ r.request = tasks[t].request /\ r.deps = tasks[t].deps
          /\ r.compiled = tasks[t].compiled /\ r.proven = tasks[t].proven /\ r.state = "READY"
      BY <3>1 DEF TaskRecords, States
    <3>3. tasks' \in Seq(TaskRecords) /\ Len(tasks') = Len(tasks) /\ \A u \in DOMAIN tasks : TaskMoves(u)
      BY <2>0, <2>2, <3>1, <3>2, TaskWritten
    <3> DEFINE q == [call[c] EXCEPT !.at = "look", !.seen = "READY"]
    <3>4. q \in CallRecords /\ q.at = "look" /\ q.task = t /\ q.deps = call[c].deps
      BY <1>0 DEF CallRecords, Places, States
    <3>5. call' = [call EXCEPT ![c] = q] /\ call'[c] = q
      BY <2>2 DEF IInv, Shape
    <3>6. CallMoves(c)
      BY <2>0, <3>4, <3>5 DEF CallMoves, IInv, Shape
    <3>7. QED
      BY <2>0, <3>3, <3>4, <3>5, <3>6, CallMoved, LeasesKept, RestKept DEF OldTasksMove
  <2>3. QED
    BY <1>5, <2>1, <2>2 DEF MakeReady
<1>6. CASE Look(c)
  <2>0. call[c].task \in DOMAIN tasks /\ UNCHANGED <<tasks, lease, done, faults>>
    BY <1>0, <1>6 DEF Look
  <2>1. CASE Return(c)
    BY <2>0, <2>1, CallReturns, TasksKept, LeasesKept, RestKept DEF OldTasksMove
  <2>2. CASE Goto(c, "claim")
    <3>1. "claim" \in Places \ {"create"}
      BY DEF Places
    <3>2. QED
      BY <2>0, <2>2, <3>1, CallGoes, TasksKept, LeasesKept, RestKept DEF OldTasksMove
  <2>3. QED
    BY <1>6, <2>1, <2>2 DEF Look
<1>7. CASE Claim(c)
  <2>0. call[c].task \in DOMAIN tasks /\ UNCHANGED <<done, faults>>
    BY <1>0, <1>7 DEF Claim
  <2> DEFINE t == call[c].task
             taken == [Swept(t) EXCEPT !.state = "CLAIMED"]
             holds == [by |-> c, lapsed |-> FALSE]
  <2>1. CASE Return(c) /\ UNCHANGED <<tasks, lease>>
    BY <2>0, <2>1, CallReturns, TasksKept, LeasesKept, RestKept DEF OldTasksMove
  <2>2. CASE /\ Swept(t).state = "READY"
             /\ tasks' = [u \in DOMAIN tasks |-> IF u = t THEN taken ELSE Swept(u)]
             /\ lease' = [u \in DOMAIN tasks |-> IF u = t THEN holds ELSE SweptLease(u)]
             /\ Goto(c, "work")
    <3>1. Len(tasks) \in Nat /\ DOMAIN tasks = 1..Len(tasks) /\ Len(lease) = Len(tasks)
      BY LenProperties DEF IInv, Shape
    <3>2. ASSUME NEW u \in DOMAIN tasks
          PROVE  /\ Swept(u) \in TaskRecords /\ SweptLease(u) \in Leases /\ tasks[u] \in TaskRecords
                 /\ Swept(u).request = tasks[u].request /\ Swept(u).deps = tasks[u].deps
                 /\ Swept(u).compiled = tasks[u].compiled /\ Swept(u).proven = tasks[u].proven
                 /\ Swept(u).state = tasks[u].state
                    \/ (Swept(u).state = "READY" /\ tasks[u].state \notin {"COMPLETED", "CANCELLED"})
      BY SweptTask, TaskTypes DEF TaskRecords, IInv
    <3>3. taken \in TaskRecords /\ holds \in Leases
      BY <2>0, <3>2 DEF TaskRecords, States, Leases
    <3>4. tasks' \in Seq(TaskRecords) /\ Len(tasks') = Len(tasks)
      <4> DEFINE task(u) == IF u = t THEN taken ELSE Swept(u)
      <4>1. \A u \in 1..Len(tasks) : task(u) \in TaskRecords
        BY <3>1, <3>2, <3>3
      <4>2. tasks' = [u \in 1..Len(tasks) |-> task(u)]
        BY <2>2, <3>1
      <4> HIDE DEF task
      <4>3. QED
        BY <3>1, <4>1, <4>2, IsASeq, LenProperties
    <3>5. lease' \in Seq(Leases) /\ Len(lease') = Len(lease)
      <4> DEFINE held(u) == IF u = t THEN holds ELSE SweptLease(u)
      <4>1. \A u \in 1..Len(tasks) : held(u) \in Leases
        BY <3>1, <3>2, <3>3
      <4>2. lease' = [u \in 1..Len(tasks) |-> held(u)]
        BY <2>2, <3>1
      <4> HIDE DEF held
      <4>3. QED
        BY <3>1, <4>1, <4>2, IsASeq, LenProperties
    <3>6. ASSUME NEW u \in DOMAIN tasks PROVE TaskMoves(u)
      <4>1. CASE u = t
        <5>1. tasks'[t] = taken
          BY <2>0, <2>2
        <5>2. taken.request = tasks[t].request /\ taken.deps = tasks[t].deps /\ taken.state = "CLAIMED"
              /\ taken.compiled = tasks[t].compiled /\ taken.proven = tasks[t].proven
          BY <2>0, <3>2 DEF TaskRecords
        <5>3. tasks[t].state # "CANCELLED"
          BY <2>0, <2>2, <3>2
        <5>4. QED
          BY <4>1, <5>1, <5>2, <5>3 DEF TaskMoves
      <4>2. CASE u # t
        <5>1. tasks'[u] = Swept(u)
          BY <2>2, <4>2
        <5>2. QED
          BY <3>2, <5>1, TaskTypes DEF TaskMoves
      <4>3. QED
        BY <4>1, <4>2
    <3>7. "work" \in Places \ {"create"}
      BY DEF Places
    <3>8. QED
      BY <2>0, <2>2, <3>4, <3>5, <3>6, <3>7, CallGoes, RestKept DEF OldTasksMove
  <2>3. QED
    BY <1>7, <2>1, <2>2 DEF Claim
<1>8. QED
  BY <1>1, <1>2, <1>3, <1>4, <1>5, <1>6, <1>7

\* A record whose state alone is written.
LEMMA StateWritten ==
  ASSUME IInv, NEW t \in DOMAIN tasks, NEW s \in States \ {"COMPLETED"},
         tasks' = [tasks EXCEPT ![t].state = s],
         tasks[t].state = "CANCELLED" => s = "CANCELLED"
  PROVE  tasks' \in Seq(TaskRecords) /\ Len(tasks') = Len(tasks) /\ \A u \in DOMAIN tasks : TaskMoves(u)
<1> DEFINE r == [tasks[t] EXCEPT !.state = s]
<1>1. tasks[t] \in TaskRecords
  BY TaskTypes
<1>2. r \in TaskRecords /\ r.request = tasks[t].request /\ r.deps = tasks[t].deps
      /\ r.compiled = tasks[t].compiled /\ r.proven = tasks[t].proven /\ r.state = s
  BY <1>1 DEF TaskRecords
<1>3. QED
  BY <1>2, TaskWritten

\* The steps of an agent that works: each touches its own task, and complete passes only
\* what the gate compiled.
LEMMA WorkMoves ==
  ASSUME IInv, NEW c \in Callers,
         \/ LeaseLost(c) \/ GiveUp(c) \/ Checkpoint(c) \/ VerifyPasses(c) \/ VerifyFails(c)
         \/ FinishVerified(c) \/ Gate(c) \/ Complete(c)
  PROVE  OldTasksMove
<1> DEFINE t == call[c].task
<1>0. t \in DOMAIN tasks
  BY DEF IInv, Shape, LeaseLost, GiveUp, Checkpoint, VerifyPasses, VerifyFails, FinishVerified,
        Gate,
         Complete, Working
<1>1. /\ tasks[t] \in TaskRecords
      /\ tasks[t].state = "COMPLETED" => tasks[t].compiled /\ tasks[t].proven
  BY <1>0, TaskTypes
<1>2. CASE LeaseLost(c) \/ GiveUp(c)
  <2>1. Return(c) /\ UNCHANGED <<tasks, lease, done, faults>>
    BY <1>2 DEF LeaseLost, GiveUp
  <2>2. QED
    BY <2>1, CallReturns, TasksKept, LeasesKept, RestKept DEF OldTasksMove
<1>3. CASE Checkpoint(c)
  <2> DEFINE r == [tasks[t] EXCEPT !.checkpointed = TRUE]
  <2>1. tasks' = [tasks EXCEPT ![t] = r] /\ Goto(c, "finish") /\ UNCHANGED <<lease, done, faults>>
    BY <1>3 DEF Checkpoint
  <2>2. r \in TaskRecords /\ r.request = tasks[t].request /\ r.deps = tasks[t].deps
        /\ r.compiled = tasks[t].compiled /\ r.proven = tasks[t].proven /\ r.state = tasks[t].state
    BY <1>1 DEF TaskRecords
  <2>3. tasks' \in Seq(TaskRecords) /\ Len(tasks') = Len(tasks) /\ \A u \in DOMAIN tasks : TaskMoves(u)
    BY <1>0, <1>1, <2>1, <2>2, TaskWritten
  <2>4. "finish" \in Places \ {"create"}
    BY DEF Places
  <2>5. QED
    BY <1>0, <2>1, <2>3, <2>4, CallGoes, LeasesKept, RestKept DEF OldTasksMove
<1>4. CASE VerifyPasses(c)
  <2> DEFINE p == IF call[c].at = "finish" THEN "gate" ELSE "work"
  <2>1. /\ tasks[t].state \in {"CLAIMED", "FAILED"} /\ tasks' = [tasks EXCEPT ![t].state = "VERIFYING"]
        /\ Goto(c, p) /\ UNCHANGED <<lease, done, faults>>
    BY <1>4 DEF VerifyPasses
  <2>2. tasks' \in Seq(TaskRecords) /\ Len(tasks') = Len(tasks) /\ \A u \in DOMAIN tasks : TaskMoves(u)
    BY <1>0, <2>1, StateWritten DEF States
  <2>3. p \in Places \ {"create"} /\ p # "complete"
    BY DEF Places
  <2>4. QED
    BY <1>0, <2>1, <2>2, <2>3, CallGoes, LeasesKept, RestKept DEF OldTasksMove
<1>5. CASE VerifyFails(c)
  <2>1. /\ tasks[t].state \in {"CLAIMED", "VERIFYING"} /\ tasks' = [tasks EXCEPT ![t].state = "FAILED"]
        /\ Goto(c, "work") /\ UNCHANGED <<lease, done>> /\ Fault
    BY <1>5 DEF VerifyFails
  <2>2. tasks' \in Seq(TaskRecords) /\ Len(tasks') = Len(tasks) /\ \A u \in DOMAIN tasks : TaskMoves(u)
    BY <1>0, <2>1, StateWritten DEF States
  <2>3. "work" \in Places \ {"create"}
    BY DEF Places
  <2>4. done' \subseteq Callers
    BY <2>1 DEF IInv, Shape
  <2>5. QED
    BY <1>0, <2>1, <2>2, <2>3, <2>4, CallGoes, LeasesKept, FaultCounted DEF OldTasksMove
<1>6. CASE FinishVerified(c)
  <2>1. Goto(c, "gate") /\ UNCHANGED <<tasks, lease, done, faults>>
    BY <1>6 DEF FinishVerified
  <2>2. "gate" \in Places \ {"create"}
    BY DEF Places
  <2>3. QED
    BY <1>0, <2>1, <2>2, CallGoes, TasksKept, LeasesKept, RestKept DEF OldTasksMove
<1>7. CASE Gate(c)
  <2>0. UNCHANGED <<lease, done, faults>>
    BY <1>7 DEF Gate
  <2>1. CASE /\ tasks' = [tasks EXCEPT ![t].compiled = TRUE] /\ Goto(c, "complete")
    <3> DEFINE r == [tasks[t] EXCEPT !.compiled = TRUE]
    <3>1. r \in TaskRecords /\ r.request = tasks[t].request /\ r.deps = tasks[t].deps
          /\ r.compiled /\ r.proven = tasks[t].proven /\ r.state = tasks[t].state
      BY <1>1 DEF TaskRecords
    <3>2. tasks' = [tasks EXCEPT ![t] = r] /\ tasks'[t].compiled
      BY <1>0, <2>1, <3>1
    <3>3. tasks' \in Seq(TaskRecords) /\ Len(tasks') = Len(tasks) /\ \A u \in DOMAIN tasks : TaskMoves(u)
      BY <1>0, <1>1, <3>1, <3>2, TaskWritten
    <3>4. "complete" \in Places \ {"create"}
      BY DEF Places
    <3>5. QED
      BY <1>0, <2>0, <2>1, <3>2, <3>3, <3>4, CallGoes, LeasesKept, RestKept DEF OldTasksMove
  <2>2. CASE Goto(c, "work") /\ UNCHANGED tasks
    <3>1. "work" \in Places \ {"create"}
      BY DEF Places
    <3>2. QED
      BY <1>0, <2>0, <2>2, <3>1, CallGoes, TasksKept, LeasesKept, RestKept DEF OldTasksMove
  <2>3. QED
    BY <1>7, <2>1, <2>2 DEF Gate
<1>8. CASE Complete(c)
  <2>0. tasks[t].compiled /\ UNCHANGED faults
    BY <1>8 DEF Complete, IInv, PastGateCompiled
  <2>1. CASE /\ tasks[t].state = "VERIFYING"
             /\ tasks' = [tasks EXCEPT ![t].state = "COMPLETED", ![t].proven = TRUE]
             /\ lease' = [lease EXCEPT ![t] = None]
             /\ done' = done \cup {c} /\ Return(c)
    <3> DEFINE r == [tasks[t] EXCEPT !.state = "COMPLETED", !.proven = TRUE]
    <3>1. r \in TaskRecords /\ r.request = tasks[t].request /\ r.deps = tasks[t].deps
          /\ r.compiled = tasks[t].compiled /\ r.proven /\ r.state = "COMPLETED"
      BY <1>1 DEF TaskRecords, States
    <3>2. tasks' = [tasks EXCEPT ![t] = r]
      BY <1>0, <2>1
    <3>3. tasks' \in Seq(TaskRecords) /\ Len(tasks') = Len(tasks) /\ \A u \in DOMAIN tasks : TaskMoves(u)
      BY <1>0, <2>0, <2>1, <3>1, <3>2, TaskWritten
    <3>4. lease' \in Seq(Leases) /\ Len(lease') = Len(lease)
      BY <1>0, <2>1, LeaseWritten DEF Leases
    <3>5. done' \subseteq Callers /\ faults' \in 0..MaxFaults
      BY <2>0, <2>1 DEF IInv, Shape
    <3>6. QED
      BY <2>1, <3>3, <3>4, <3>5, CallReturns DEF OldTasksMove
  <2>2. CASE Goto(c, "work") /\ UNCHANGED <<tasks, lease, done>>
    <3>1. "work" \in Places \ {"create"}
      BY DEF Places
    <3>2. QED
      BY <1>0, <2>0, <2>2, <3>1, CallGoes, TasksKept, LeasesKept, RestKept DEF OldTasksMove
  <2>3. QED
    BY <1>8, <2>1, <2>2 DEF Complete
<1>9. QED
  BY <1>2, <1>3, <1>4, <1>5, <1>6, <1>7, <1>8

\* What others do: kills, leases that run out, decisions of the owner, a sweep.
LEMMA OtherMoves ==
  ASSUME IInv,
         \/ \E c \in Callers : AskOwner(c) \/ Kill(c)
         \/ \E t \in DOMAIN tasks :
              \/ Lapse(t) \/ Invalidate(t) \/ ReadyByHand(t)
              \/ \E s \in {"CANCELLED", "SUPERSEDED"} : Dispose(t, s)
         \/ Status \/ UNCHANGED vars
  PROVE  OldTasksMove
<1>0. done \subseteq Callers
  BY DEF IInv, Shape
<1>1. ASSUME NEW c \in Callers, AskOwner(c) PROVE OldTasksMove
  BY <1>0, <1>1, CallsKept, TasksKept, LeasesKept, FaultCounted DEF OldTasksMove, AskOwner
<1>2. ASSUME NEW c \in Callers, Kill(c) PROVE OldTasksMove
  BY <1>0, <1>2, CallReturns, TasksKept, LeasesKept, FaultCounted DEF OldTasksMove, Kill
<1>3. ASSUME NEW t \in DOMAIN tasks, Lapse(t) PROVE OldTasksMove
  <2> DEFINE l == [lease[t] EXCEPT !.lapsed = TRUE]
  <2>1. lease[t] \in Leases /\ lease[t] # None
    BY <1>3, TaskTypes DEF Lapse
  <2>2. l \in Leases /\ lease' = [lease EXCEPT ![t] = l]
    BY <1>3, <2>1 DEF Leases, Lapse
  <2>3. lease' \in Seq(Leases) /\ Len(lease') = Len(lease)
    BY <2>2, LeaseWritten
  <2>4. faults' \in 0..MaxFaults
    BY <1>3, FaultCounted DEF Lapse, IInv, Shape
  <2>5. UNCHANGED <<tasks, call, done>>
    BY <1>3 DEF Lapse
  <2>6. QED
    BY <1>0, <2>3, <2>4, <2>5, CallsKept, TasksKept DEF OldTasksMove
<1>4. ASSUME NEW t \in DOMAIN tasks, Invalidate(t) PROVE OldTasksMove
  <2>1. tasks' \in Seq(TaskRecords) /\ Len(tasks') = Len(tasks) /\ \A u \in DOMAIN tasks : TaskMoves(u)
    BY <1>4, StateWritten DEF Invalidate, States
  <2>2. Fault /\ UNCHANGED <<lease, call, done>>
    BY <1>4 DEF Invalidate
  <2>3. QED
    BY <1>0, <2>1, <2>2, CallsKept, LeasesKept, FaultCounted DEF OldTasksMove
<1>5. ASSUME NEW t \in DOMAIN tasks, ReadyByHand(t) PROVE OldTasksMove
  <2>1. tasks' \in Seq(TaskRecords) /\ Len(tasks') = Len(tasks) /\ \A u \in DOMAIN tasks : TaskMoves(u)
    BY <1>5, StateWritten DEF ReadyByHand, States
  <2>2. UNCHANGED <<lease, call, done, faults>>
    BY <1>5 DEF ReadyByHand
  <2>3. QED
    BY <2>1, <2>2, CallsKept, LeasesKept, RestKept DEF OldTasksMove
<1>6. ASSUME NEW t \in DOMAIN tasks, NEW s \in {"CANCELLED", "SUPERSEDED"}, Dispose(t, s)
      PROVE  OldTasksMove
  <2>1. /\ tasks[t].state # "CANCELLED" /\ tasks' = [tasks EXCEPT ![t].state = s]
        /\ lease' = [lease EXCEPT ![t] = None] /\ Fault /\ UNCHANGED <<call, done>>
    BY <1>6 DEF Dispose
  <2>2. tasks' \in Seq(TaskRecords) /\ Len(tasks') = Len(tasks) /\ \A u \in DOMAIN tasks : TaskMoves(u)
    BY <2>1, StateWritten DEF States
  <2>3. lease' \in Seq(Leases) /\ Len(lease') = Len(lease)
    BY <2>1, LeaseWritten DEF Leases
  <2>4. QED
    BY <1>0, <2>1, <2>2, <2>3, CallsKept, FaultCounted DEF OldTasksMove
<1>7. CASE Status
  BY <1>7, SweepMoves, CallsKept, RestKept DEF OldTasksMove, Status
<1>8. CASE UNCHANGED vars
  BY <1>8, CallsKept, TasksKept, LeasesKept, RestKept DEF OldTasksMove, vars
<1>9. QED
  BY <1>1, <1>2, <1>3, <1>4, <1>5, <1>6, <1>7, <1>8

-----------------------------------------------------------------------------
\* The step that creates one

\* Nothing was under way for the caller since it looked, so its new task is alone.
LEMMA CreateInvariant ==
  ASSUME IInv, NEW c \in Callers, Create(c)
  PROVE  IInv'
<1> DEFINE n == Len(tasks) + 1
           r == NewTask(c)
           q == [at |-> "compile", task |-> n, seen |-> "PLANNED", deps |-> {}]
<1>1. /\ call[c].at = "create" /\ tasks' = Append(tasks, r) /\ lease' = Append(lease, None)
      /\ call' = [call EXCEPT ![c] = q] /\ UNCHANGED <<done, faults>>
  BY DEF Create
<1>2. Len(tasks) \in Nat /\ DOMAIN tasks = 1..Len(tasks)
  BY LenProperties DEF IInv, Shape
<1>3. call[c].deps \subseteq 1..Len(tasks) /\ Scope[c] \in SUBSET Files
  BY <1>2, WorkSessionAssumption DEF IInv, Shape
<1>4. r \in TaskRecords
  BY <1>2, <1>3 DEF NewTask, TaskRecords, States
<1>5. r.request = c /\ r.deps = call[c].deps /\ r.state = "PLANNED"
  BY DEF NewTask
<1>6. tasks' \in Seq(TaskRecords) /\ Len(tasks') = n /\ DOMAIN tasks' = 1..n
      /\ tasks'[n] = r /\ \A t \in DOMAIN tasks : tasks'[t] = tasks[t]
  BY <1>1, <1>2, <1>4, AppendProperties, LenProperties DEF IInv, Shape
<1>7. lease' \in Seq(Leases) /\ Len(lease') = n
  BY <1>1, AppendProperties DEF IInv, Shape, Leases
<1>8. q \in CallRecords
  BY <1>2 DEF CallRecords, Places, States
<1>9. ASSUME NEW d \in Callers PROVE call'[d] = IF d = c THEN q ELSE call[d]
  BY <1>1 DEF IInv, Shape
<1>10. Shape'
  <2>1. call' \in [Callers -> CallRecords] /\ done' \subseteq Callers /\ faults' \in 0..MaxFaults
    BY <1>1, <1>8 DEF IInv, Shape
  <2>2. ASSUME NEW t \in DOMAIN tasks' PROVE tasks'[t].deps \subseteq 1..(t - 1)
    <3>1. CASE t = n
      BY <1>2, <1>3, <1>5, <1>6, <3>1
    <3>2. CASE t \in DOMAIN tasks
      BY <1>6, <3>2 DEF IInv, Shape
    <3>3. QED
      BY <1>2, <1>6, <3>1, <3>2
  <2>3. ASSUME NEW d \in Callers
        PROVE  /\ call'[d].task \in 0..Len(tasks') /\ call'[d].deps \subseteq DOMAIN tasks'
               /\ call'[d].at \notin {"idle", "create"} => call'[d].task \in DOMAIN tasks'
    BY <1>2, <1>6, <1>9 DEF IInv, Shape
  <2>4. QED
    BY <1>6, <1>7, <2>1, <2>2, <2>3 DEF Shape
<1>11. CompletedProven'
  BY <1>2, <1>5, <1>6 DEF IInv, CompletedProven
<1>12. PastGateCompiled'
  BY <1>2, <1>6, <1>9 DEF IInv, Shape, PastGateCompiled
<1>13. NothingUnderWay'
  BY <1>2, <1>5, <1>6, <1>9 DEF IInv, NothingUnderWay
<1>14. RetryFindsTask'
  <2> SUFFICES ASSUME NEW t \in DOMAIN tasks', NEW u \in DOMAIN tasks',
                      Open(t)', ~tasks'[t].proven, Open(u)', ~tasks'[u].proven,
                      tasks'[t].request = tasks'[u].request
               PROVE  t = u
    BY DEF RetryFindsTask
  <2>1. ASSUME NEW v \in DOMAIN tasks, Open(v)', ~tasks'[v].proven
        PROVE  Open(v) /\ ~tasks[v].proven /\ tasks[v].request # c
    BY <1>1, <1>6, <2>1 DEF Open, IInv, NothingUnderWay
  <2>2. CASE t \in DOMAIN tasks /\ u \in DOMAIN tasks
    BY <1>6, <2>1, <2>2 DEF IInv, RetryFindsTask
  <2>3. CASE t = n \/ u = n
    BY <1>2, <1>5, <1>6, <2>1, <2>3
  <2>4. QED
    BY <1>2, <1>6, <2>2, <2>3
<1>15. QED
  BY <1>10, <1>11, <1>12, <1>13, <1>14 DEF IInv

-----------------------------------------------------------------------------
\* The theorems

\* Nothing was started yet.
LEMMA InitInvariant == Init => IInv
<1> SUFFICES ASSUME Init PROVE IInv
  OBVIOUS
<1>1. tasks = << >> /\ lease = << >> /\ Len(tasks) = 0 /\ DOMAIN tasks = {} /\ Len(lease) = 0
  BY DEF Init
<1>2. tasks \in Seq(TaskRecords) /\ lease \in Seq(Leases)
  BY <1>1
<1>3. Idle \in CallRecords /\ Idle.at = "idle" /\ Idle.task = 0 /\ Idle.deps = {}
  BY DEF Idle, CallRecords, Places
<1>4. call \in [Callers -> CallRecords] /\ \A c \in Callers : call[c] = Idle
  BY <1>3 DEF Init
<1>5. done \subseteq Callers /\ faults \in 0..MaxFaults
  BY WorkSessionAssumption DEF Init
<1>6. Shape
  BY <1>1, <1>2, <1>3, <1>4, <1>5 DEF Shape
<1>7. QED
  BY <1>1, <1>3, <1>4, <1>6
     DEF IInv, CompletedProven, PastGateCompiled, NothingUnderWay, RetryFindsTask

\* Every step keeps the invariant.
LEMMA NextInvariant == IInv /\ [Next]_vars => IInv'
<1> SUFFICES ASSUME IInv, [Next]_vars PROVE IInv'
  OBVIOUS
<1>1. CASE UNCHANGED vars
  BY <1>1, OtherMoves, OldTasksInvariant
<1>2. CASE Next
  <2>1. ASSUME NEW c \in Callers, Step(c) PROVE IInv'
    <3>1. CASE Create(c)
      BY <3>1, CreateInvariant
    <3>2. CASE \/ Derive(c) \/ Compile(c) \/ Record(c) \/ Report(c) \/ MakeReady(c) \/ Look(c) \/ Claim(c)
      BY <3>2, StartMoves, OldTasksInvariant
    <3>3. CASE \/ LeaseLost(c) \/ GiveUp(c) \/ Checkpoint(c) \/ VerifyPasses(c)
               \/ FinishVerified(c) \/ Gate(c) \/ Complete(c)
      BY <3>3, WorkMoves, OldTasksInvariant
    <3>4. QED
      BY <2>1, <3>1, <3>2, <3>3 DEF Step
  <2>2. ASSUME NEW c \in Callers, VerifyFails(c) PROVE IInv'
    BY <2>2, WorkMoves, OldTasksInvariant
  <2>3. CASE \/ \E c \in Callers : AskOwner(c) \/ Kill(c)
             \/ \E t \in DOMAIN tasks :
                  \/ Lapse(t) \/ Invalidate(t) \/ ReadyByHand(t)
                  \/ \E s \in {"CANCELLED", "SUPERSEDED"} : Dispose(t, s)
             \/ Status
    BY <2>3, OtherMoves, OldTasksInvariant
  <2>4. QED
    BY <1>2, <2>1, <2>2, <2>3 DEF Next
<1>3. QED
  BY <1>1, <1>2

\* The inductive invariant of sessions holds of every behaviour of the code.
THEOREM SessionInvariant == Spec => []IInv
BY InitInvariant, NextInvariant, PTL DEF Spec

\* However starts, agents and owners interleave, records have their types, a task waits
\* only for older ones and a call is about a task there is.
THEOREM SessionTypes == Spec => []TypeOK
<1>1. IInv => TypeOK
  BY ShapeTypes DEF IInv
<1>2. QED
  BY <1>1, SessionInvariant, PTL

\* However often starts are killed and repeated, and whatever the owner disposes of, a
\* request has at most one task under way (control/work.py, _existing before create_task).
THEOREM RetriesFindTheirTask == Spec => []RetryFindsTask
<1>1. IInv => RetryFindsTask
  BY DEF IInv
<1>2. QED
  BY <1>1, SessionInvariant, PTL

\* No task is COMPLETED without obligations, though the start that created it may have
\* been killed before it compiled them: the gate of complete compiles them itself.
THEOREM CompletedWorkIsCompiled == Spec => []CompletedCompiled
<1>1. IInv => CompletedCompiled
  BY DEF IInv, CompletedProven, CompletedCompiled
<1>2. QED
  BY <1>1, SessionInvariant, PTL

=============================================================================
