------------------------ MODULE TaskLifecycle_proofs ------------------------
(***************************************************************************)
(* Theorems about TaskLifecycle, for any tasks, agents, contracts and      *)
(* bounds.                                                                 *)
(***************************************************************************)
EXTENDS TaskLifecycle, FiniteSetTheorems, TLAPS

-----------------------------------------------------------------------------
\* Types

\* Every variable keeps its type, whatever the order of the steps.
LEMMA InitTypeOK == Init => TypeOK
BY ConstantsAssumption DEF Init, TypeOK, TaskStates, MaxCharge

\* The owner's steps keep every variable's type.
LEMMA OwnerTypeOK ==
  ASSUME TypeOK, OwnerStep
  PROVE  TypeOK'
<1>1. CASE Status
  BY <1>1 DEF TypeOK, Status, SweptLease, SweptState, SweptRun, TaskStates
<1>2. ASSUME NEW t \in Tasks, Ready(t)
      PROVE  TypeOK'
  BY <1>2 DEF TypeOK, Ready, TaskStates
<1>3. ASSUME NEW t \in Tasks, ResolveBlocker(t)
      PROVE  TypeOK'
  BY <1>3 DEF TypeOK, ResolveBlocker
<1>4. ASSUME NEW t \in Tasks, NEW s \in {"CANCELLED", "SUPERSEDED"}, Transition(t, s)
      PROVE  TypeOK'
  BY <1>4 DEF TypeOK, Transition, TaskStates
<1>5. ASSUME NEW t \in Tasks, CreateWorkspace(t)
      PROVE  TypeOK'
  BY <1>5 DEF TypeOK, CreateWorkspace
<1>6. ASSUME NEW t \in Tasks, Invalidate(t)
      PROVE  TypeOK'
  BY <1>6 DEF TypeOK, Invalidate, TaskStates
<1>7. QED
  BY <1>1, <1>2, <1>3, <1>4, <1>5, <1>6 DEF OwnerStep

\* The agents' steps keep every variable's type.
LEMMA AgentTypeOK ==
  ASSUME TypeOK, AgentStep
  PROVE  TypeOK'
<1> SUFFICES ASSUME NEW t \in Tasks, NEW a \in Agents,
                    \/ \E seconds \in 1..MaxLease :
                         Claim(t, a, seconds) \/ Heartbeat(t, a, seconds)
                    \/ \E blocked \in BOOLEAN : Release(t, a, blocked)
                    \/ Checkpoint(t, a)
                    \/ Complete(t, a)
             PROVE  TypeOK'
  BY DEF AgentStep
<1>1. ASSUME NEW seconds \in 1..MaxLease PROVE seconds \in 0..LongestLease
  BY ConstantsAssumption DEF LongestLease, MaxWindow
<1>2. ASSUME NEW seconds \in 1..MaxLease, Claim(t, a, seconds)
      PROVE  TypeOK'
  <2>1. [task |-> t, agent |-> a, ttl |-> seconds] \in ActiveLease
    BY <1>1 DEF ActiveLease
  <2>2. SweptLease \in [LeaseIds -> ActiveLease \cup {None}]
    BY DEF TypeOK, SweptLease
  <2>3. lease' \in [LeaseIds -> ActiveLease \cup {None}]
    BY <1>2, <2>1, <2>2 DEF Claim
  <2>4. state' \in [Tasks -> TaskStates] /\ run' \in [Tasks -> ActiveRun \cup {None}]
    BY <1>2 DEF TypeOK, Claim, SweptState, SweptRun, TaskStates
  <2>5. QED
    BY <1>2, <2>3, <2>4 DEF TypeOK, Claim
<1>3. ASSUME NEW seconds \in 1..MaxLease, Heartbeat(t, a, seconds)
      PROVE  TypeOK'
  <2>1. PICK l \in LeaseIds : /\ Owned(l, t, a)
                              /\ lease' = [lease EXCEPT ![l].ttl = seconds]
    BY <1>3 DEF Heartbeat
  <2>2. lease[l] \in ActiveLease
    BY <2>1 DEF Owned, Live, Held, TypeOK
  <2>3. lease' \in [LeaseIds -> ActiveLease \cup {None}]
    BY <1>1, <2>1, <2>2 DEF TypeOK, ActiveLease
  <2>4. QED
    BY <1>3, <2>3 DEF TypeOK, Heartbeat, taskVars
<1>4. ASSUME NEW blocked \in BOOLEAN, Release(t, a, blocked)
      PROVE  TypeOK'
  BY <1>4 DEF TypeOK, Release, TaskStates
<1>5. CASE Checkpoint(t, a)
  BY <1>5 DEF TypeOK, Checkpoint
<1>6. CASE Complete(t, a)
  BY <1>6 DEF TypeOK, Complete, TaskStates
<1>7. QED
  BY <1>2, <1>3, <1>4, <1>5, <1>6

\* The steps of verify processes keep every variable's type.
LEMMA VerifyTypeOK ==
  ASSUME TypeOK, VerifyStep
  PROVE  TypeOK'
<1> SUFFICES ASSUME NEW p \in Procs,
                    \/ \E t \in Tasks, a \in Agents, selected \in 1..MaxVerifiers :
                         Preflight(p, t, a, selected)
                    \/ Begin(p)
                    \/ Refused(p)
                    \/ \E cost \in 0..MaxCharge, clean \in BOOLEAN : Record(p, cost, clean)
                    \/ \E passed \in BOOLEAN : Finish(p, passed)
                    \/ Crash(p)
             PROVE  TypeOK'
  BY DEF VerifyStep
<1>1. proc[p] # None => proc[p] \in VerifyCall
  BY DEF TypeOK
<1>2. ASSUME NEW t \in Tasks, NEW a \in Agents, NEW selected \in 1..MaxVerifiers,
             Preflight(p, t, a, selected)
      PROVE  TypeOK'
  <2>1. PICK l \in LeaseIds : proc' = [proc EXCEPT ![p] =
            [pc |-> "armed", task |-> t, agent |-> a, lease |-> l, run |-> 0,
             used |-> runtimeUsed[t], todo |-> selected, results |-> "none"]]
    BY <1>2 DEF Preflight
  <2>2. [pc |-> "armed", task |-> t, agent |-> a, lease |-> l, run |-> 0,
         used |-> runtimeUsed[t], todo |-> selected, results |-> "none"] \in VerifyCall
    BY ConstantsAssumption DEF VerifyCall, TypeOK
  <2>3. QED
    BY <1>2, <2>1, <2>2 DEF TypeOK, Preflight, taskVars
<1>3. CASE Begin(p)
  <2> DEFINE t == proc[p].task
             id == attempts[t] + 1
  <2>1. PICK l \in LeaseIds :
          /\ CanBegin(p, l)
          /\ lease' = [lease EXCEPT ![l].ttl = IF @ < Window(p) THEN Window(p) ELSE @]
          /\ state' = [state EXCEPT ![t] = "RUNNING"]
          /\ run' = [run EXCEPT ![t] = [id |-> id, ttl |-> Window(p)]]
          /\ attempts' = [attempts EXCEPT ![t] = id]
          /\ proc' = [proc EXCEPT ![p].pc = "running", ![p].run = id]
          /\ UNCHANGED <<blocker, runtimeUsed, checkpointed, isolated, gone>>
    BY <1>3 DEF Begin
  <2>2. proc[p] \in VerifyCall
    BY <1>1, <2>1 DEF CanBegin
  <2>3. /\ t \in Tasks /\ id \in Nat
        /\ Window(p) \in 0..MaxWindow /\ Window(p) \in 0..LongestLease
    BY <2>2, ConstantsAssumption
       DEF VerifyCall, TypeOK, Window, MaxWindow, MaxCharge, LongestLease
  <2>4. lease[l] \in ActiveLease
    BY <2>1 DEF CanBegin, Owned, Live, Held, TypeOK
  <2>5. lease' \in [LeaseIds -> ActiveLease \cup {None}]
    BY <2>1, <2>3, <2>4 DEF TypeOK, ActiveLease
  <2>6. run' \in [Tasks -> ActiveRun \cup {None}]
    BY <2>1, <2>3 DEF TypeOK, ActiveRun
  <2>7. proc' \in [Procs -> VerifyCall \cup {None}]
    BY <2>1, <2>2, <2>3 DEF TypeOK, VerifyCall
  <2>8. QED
    BY <2>1, <2>3, <2>5, <2>6, <2>7 DEF TypeOK, TaskStates
<1>4. CASE Refused(p)
  BY <1>4 DEF TypeOK, Refused, taskVars
<1>5. ASSUME NEW cost \in 0..MaxCharge, NEW clean \in BOOLEAN, Record(p, cost, clean)
      PROVE  TypeOK'
  <2>1. proc[p] \in VerifyCall
    BY <1>1, <1>5 DEF Record
  <2>2. PICK r \in {"spoilt", "clean"} :
          proc' = [proc EXCEPT ![p].todo = @ - 1, ![p].used = @ + cost, ![p].results = r]
    BY <1>5 DEF Record
  <2>3. /\ proc[p].todo - 1 \in 0..MaxVerifiers
        /\ proc[p].used + cost \in 0..MaxCharge
    <3>1. /\ proc[p].todo > 0 /\ cost <= MaxRuntime - proc[p].used + Overrun
      BY <1>5 DEF Record, Remaining
    <3>2. proc[p].todo \in 0..MaxVerifiers /\ proc[p].used \in 0..MaxCharge
      BY <2>1 DEF VerifyCall
    <3>3. QED
      BY <3>1, <3>2, ConstantsAssumption DEF MaxCharge
  <2>4. proc' \in [Procs -> VerifyCall \cup {None}]
    BY <2>1, <2>2, <2>3 DEF TypeOK, VerifyCall
  <2>5. QED
    BY <1>5, <2>4 DEF TypeOK, Record, taskVars
<1>6. ASSUME NEW passed \in BOOLEAN, Finish(p, passed)
      PROVE  TypeOK'
  <2>1. proc[p] \in VerifyCall
    BY <1>1, <1>6 DEF Finish, StillActive
  <2>2. /\ state' \in [Tasks -> TaskStates]
        /\ run' \in [Tasks -> ActiveRun \cup {None}]
        /\ runtimeUsed' \in [Tasks -> 0..MaxCharge]
    BY <1>6, <2>1 DEF Finish, StillActive, TypeOK, VerifyCall, TaskStates
  <2>3. QED
    BY <1>6, <2>2 DEF Finish, StillActive, TypeOK
<1>7. CASE Crash(p)
  BY <1>7 DEF TypeOK, Crash, taskVars
<1>8. QED
  BY <1>2, <1>3, <1>4, <1>5, <1>6, <1>7

\* The clock keeps every deadline within its bound.
LEMMA TickTypeOK ==
  ASSUME TypeOK, Tick
  PROVE  TypeOK'
<1>1. lease' \in [LeaseIds -> ActiveLease \cup {None}]
  <2>1. ASSUME NEW l \in LeaseIds, lease[l] # None
        PROVE  [lease[l] EXCEPT !.ttl = Less(@)] \in ActiveLease
    BY <2>1, ConstantsAssumption
       DEF TypeOK, ActiveLease, Less, LongestLease, MaxWindow
  <2>2. QED
    BY <2>1 DEF Tick, TypeOK
<1>2. run' \in [Tasks -> ActiveRun \cup {None}]
  <2>1. ASSUME NEW t \in Tasks, run[t] # None
        PROVE  [run[t] EXCEPT !.ttl = Less(@)] \in ActiveRun
    BY <2>1, ConstantsAssumption DEF TypeOK, ActiveRun, Less, MaxWindow
  <2>2. QED
    BY <2>1 DEF Tick, TypeOK
<1>3. QED
  BY <1>1, <1>2 DEF Tick, TypeOK, taskVars

\* Every step keeps every variable's type.
LEMMA NextTypeOK ==
  ASSUME TypeOK, [Next]_vars
  PROVE  TypeOK'
<1>1. CASE UNCHANGED vars
  BY <1>1 DEF TypeOK, vars, taskVars
<1>2. ASSUME NEW a \in Agents, AgentStops(a)
      PROVE  TypeOK'
  BY <1>2 DEF TypeOK, AgentStops, taskVars
<1>3. QED
  BY <1>1, <1>2, OwnerTypeOK, AgentTypeOK, VerifyTypeOK, TickTypeOK DEF Next

\* Every variable keeps its type in every reachable state.
THEOREM TypeCorrect == Spec => []TypeOK
BY InitTypeOK, NextTypeOK, PTL DEF Spec

-----------------------------------------------------------------------------
\* Leases

\* The ACTIVE lease l goes on as it was, up to its time left.
Continues(l) ==
  /\ lease[l] # None
  /\ lease'[l].task = lease[l].task /\ lease'[l].agent = lease[l].agent

\* A step other than a claim ends leases or lets them go on, and gives none to
\* another task or agent.
LEMMA LeaseSteps ==
  ASSUME TypeOK, [Next]_vars,
         ~(\E t \in Tasks, a \in Agents, seconds \in 1..MaxLease : Claim(t, a, seconds)),
         NEW l \in LeaseIds, lease'[l] # None
  PROVE  Continues(l)
<1> USE DEF Continues
<1>1. CASE UNCHANGED lease
  BY <1>1
<1>2. CASE OwnerStep
  BY <1>2 DEF OwnerStep, Status, SweptLease, Ready, ResolveBlocker, Transition,
              CreateWorkspace, Invalidate
<1>3. CASE AgentStep
  <2>1. PICK t \in Tasks, a \in Agents :
          \/ \E seconds \in 1..MaxLease : Heartbeat(t, a, seconds)
          \/ \E blocked \in BOOLEAN : Release(t, a, blocked)
          \/ Checkpoint(t, a)
          \/ Complete(t, a)
    BY <1>3 DEF AgentStep
  <2>2. ASSUME NEW seconds \in 1..MaxLease, Heartbeat(t, a, seconds)
        PROVE  Continues(l)
    <3>1. PICK m \in LeaseIds : /\ Owned(m, t, a)
                                /\ lease' = [lease EXCEPT ![m].ttl = seconds]
      BY <2>2 DEF Heartbeat
    <3>2. lease[m] # None /\ lease[m] \in ActiveLease
      BY <3>1 DEF Owned, Live, Held, TypeOK
    <3>3. QED
      BY <3>1, <3>2 DEF TypeOK, ActiveLease
  <2>3. ASSUME NEW blocked \in BOOLEAN, Release(t, a, blocked)
        PROVE  Continues(l)
    BY <2>3 DEF Release, TypeOK
  <2>4. CASE Checkpoint(t, a) \/ Complete(t, a)
    BY <2>4 DEF Checkpoint, Complete, TypeOK
  <2>5. QED
    BY <2>1, <2>2, <2>3, <2>4
<1>4. CASE VerifyStep
  <2>1. CASE \E p \in Procs : Begin(p)
    <3>1. PICK p \in Procs, m \in LeaseIds :
            /\ CanBegin(p, m)
            /\ lease' = [lease EXCEPT ![m].ttl = IF @ < Window(p) THEN Window(p) ELSE @]
      BY <2>1 DEF Begin
    <3>2. lease[m] # None /\ lease[m] \in ActiveLease
      BY <3>1 DEF CanBegin, Owned, Live, Held, TypeOK
    <3>3. QED
      BY <3>1, <3>2 DEF TypeOK, ActiveLease
  <2>2. CASE ~(\E p \in Procs : Begin(p))
    <3>1. UNCHANGED lease
      BY <1>4, <2>2 DEF VerifyStep, Preflight, Refused, Record, Finish, Crash
    <3>2. QED
      BY <3>1
  <2>3. QED
    BY <2>1, <2>2
<1>5. CASE Tick
  <2>1. lease[l] # None /\ lease'[l] = [lease[l] EXCEPT !.ttl = Less(@)]
    BY <1>5 DEF Tick
  <2>2. lease[l] \in ActiveLease
    BY <2>1 DEF TypeOK
  <2>3. QED
    BY <2>1, <2>2 DEF ActiveLease
<1>6. QED
  BY <1>1, <1>2, <1>3, <1>4, <1>5 DEF Next, AgentStops, vars

\* What a claim does to the leases: the sweep, then one lease on a free task.
LEMMA ClaimLease ==
  ASSUME TypeOK,
         NEW t \in Tasks, NEW a \in Agents, NEW seconds \in 1..MaxLease,
         Claim(t, a, seconds)
  PROVE  \E new \in LeaseIds :
           /\ FreshLease(new)
           /\ lease'[new] = [task |-> t, agent |-> a, ttl |-> seconds]
           /\ \A l \in LeaseIds \ {new} :
                /\ lease'[l] = SweptLease[l]
                /\ lease'[l] # None =>
                     /\ lease[l] # None /\ lease'[l] = lease[l] /\ ~RanOut(l)
                     /\ lease[l].task # t /\ MayRunBeside(t, lease[l].task)
<1>1. PICK new \in LeaseIds :
        /\ FreshLease(new)
        /\ lease' = [SweptLease EXCEPT ![new] = [task |-> t, agent |-> a, ttl |-> seconds]]
  BY DEF Claim
<1>2. \A l \in LeaseIds : SweptLease[l] # None =>
        /\ SweptLease[l] = lease[l] /\ ~RanOut(l)
        /\ lease[l].task # t /\ MayRunBeside(t, lease[l].task)
  BY DEF Claim, NoConflict, SweptLease
<1>3. \A l \in LeaseIds \ {new} : lease'[l] = SweptLease[l]
  BY <1>1 DEF SweptLease
<1>4. lease'[new] = [task |-> t, agent |-> a, ttl |-> seconds]
  BY <1>1 DEF SweptLease
<1>5. QED
  BY <1>1, <1>2, <1>3, <1>4

-----------------------------------------------------------------------------
\* One owner

\* No step gives a task a second owner.
LEMMA OneOwnerStep ==
  ASSUME TypeOK, OneOwner, [Next]_vars
  PROVE  OneOwner'
<1>1. CASE \E t \in Tasks, a \in Agents, seconds \in 1..MaxLease : Claim(t, a, seconds)
  <2>1. PICK t \in Tasks, a \in Agents, seconds \in 1..MaxLease : Claim(t, a, seconds)
    BY <1>1
  <2>2. PICK new \in LeaseIds :
          /\ lease'[new] = [task |-> t, agent |-> a, ttl |-> seconds]
          /\ \A l \in LeaseIds \ {new} : lease'[l] # None =>
               lease[l] # None /\ lease'[l] = lease[l] /\ lease[l].task # t
    BY <2>1, ClaimLease
  <2>3. QED
    BY <2>2 DEF OneOwner
<1>2. CASE ~(\E t \in Tasks, a \in Agents, seconds \in 1..MaxLease : Claim(t, a, seconds))
  BY <1>2, LeaseSteps DEF OneOwner, Continues
<1>3. QED
  BY <1>1, <1>2

\* No order of claims, sweeps, releases and cancellations gives a task two owners.
THEOREM OneOwnerAlways == Spec => []OneOwner
<1>1. Init => OneOwner
  BY DEF Init, OneOwner
<1>2. QED
  BY <1>1, OneOwnerStep, TypeCorrect, PTL DEF Spec

-----------------------------------------------------------------------------
\* Parallel work

\* parallel_safety does not depend on which contract comes first.
LEMMA SafeParallelSymmetric ==
  ASSUME NEW left, NEW right
  PROVE  SafeParallel(left, right) <=> SafeParallel(right, left)
<1>1. ASSUME NEW x, NEW y, PathOverlap(x, y) = {}
      PROVE  PathOverlap(y, x) = {}
  <2> SUFFICES ASSUME NEW pair \in PathOverlap(y, x)
               PROVE  FALSE
    OBVIOUS
  <2>1. <<pair[2], pair[1]>> \in PathOverlap(x, y)
    BY DEF PathOverlap
  <2>2. QED
    BY <1>1, <2>1
<1>2. SharedBoundaries(left, right) = SharedBoundaries(right, left)
  BY DEF SharedBoundaries
<1>3. QED
  BY <1>1, <1>2 DEF SafeParallel, SafetyStatus

\* The test `claim` makes against other leases is symmetric.
LEMMA MayRunBesideSymmetric ==
  ASSUME NEW t, NEW u, MayRunBeside(t, u)
  PROVE  MayRunBeside(u, t)
BY SafeParallelSymmetric DEF MayRunBeside

\* A worktree is never taken away from a task.
LEMMA IsolatedStays ==
  ASSUME TypeOK, [Next]_vars, NEW t \in Tasks, isolated[t]
  PROVE  isolated'[t]
<1>1. CASE OwnerStep
  BY <1>1 DEF OwnerStep, Status, Ready, ResolveBlocker, Transition, CreateWorkspace,
              Invalidate, TypeOK
<1>2. CASE AgentStep
  BY <1>2 DEF AgentStep, Claim, Heartbeat, Release, Checkpoint, Complete, taskVars
<1>3. CASE VerifyStep
  BY <1>3 DEF VerifyStep, Preflight, Begin, Refused, Record, Finish, Crash, taskVars
<1>4. QED
  BY <1>1, <1>2, <1>3 DEF Next, Tick, AgentStops, vars, taskVars

\* No step lets two conflicting tasks be owned at a time.
LEMMA ParallelIsolationStep ==
  ASSUME TypeOK, ParallelIsolation, [Next]_vars
  PROVE  ParallelIsolation'
<1> DEFINE Beside(x, y) == /\ isolated'[x] /\ isolated'[y]
                           /\ SafeParallel(Contract[x], Contract[y])
<1>1. ASSUME NEW t \in Tasks, NEW u \in Tasks, MayRunBeside(t, u)
      PROVE  Beside(t, u)
  BY <1>1, IsolatedStays DEF MayRunBeside
<1>2. ASSUME NEW l \in LeaseIds, lease[l] # None
      PROVE  lease[l].task \in Tasks
  BY <1>2 DEF TypeOK, ActiveLease
<1>3. CASE \E t \in Tasks, a \in Agents, seconds \in 1..MaxLease : Claim(t, a, seconds)
  <2>1. PICK t \in Tasks, a \in Agents, seconds \in 1..MaxLease : Claim(t, a, seconds)
    BY <1>3
  <2>2. PICK new \in LeaseIds :
          /\ lease'[new] = [task |-> t, agent |-> a, ttl |-> seconds]
          /\ \A l \in LeaseIds \ {new} : lease'[l] # None =>
               /\ lease[l] # None /\ lease'[l] = lease[l]
               /\ MayRunBeside(t, lease[l].task)
    BY <2>1, ClaimLease
  <2>3. ASSUME NEW l \in LeaseIds \ {new}, lease'[l] # None
        PROVE  Beside(t, lease'[l].task) /\ Beside(lease'[l].task, t)
    BY <1>1, <1>2, <2>2, <2>3, MayRunBesideSymmetric
  <2>4. ASSUME NEW l \in LeaseIds \ {new}, NEW m \in LeaseIds \ {new},
               lease'[l] # None, lease'[m] # None, lease'[l].task # lease'[m].task
        PROVE  Beside(lease'[l].task, lease'[m].task)
    BY <1>1, <1>2, <2>2, <2>4 DEF ParallelIsolation
  <2>5. QED
    BY <2>2, <2>3, <2>4 DEF ParallelIsolation, MayRunBeside
<1>4. CASE ~(\E t \in Tasks, a \in Agents, seconds \in 1..MaxLease : Claim(t, a, seconds))
  BY <1>1, <1>2, <1>4, LeaseSteps DEF ParallelIsolation, Continues, MayRunBeside
<1>5. QED
  BY <1>3, <1>4

\* Two tasks are owned at a time only when both have a worktree of their own and
\* their contracts are SAFE_PARALLEL.
THEOREM ParallelIsolationAlways == Spec => []ParallelIsolation
<1>1. Init => ParallelIsolation
  BY DEF Init, ParallelIsolation
<1>2. QED
  BY <1>1, ParallelIsolationStep, TypeCorrect, PTL DEF Spec

\* Two scope paths above one file: the shorter one is above the longer one, so the
\* prefix test of parallel_safety finds them.
LEMMA CommonFileOverlaps ==
  ASSUME NEW left \in Contracts, NEW right \in Contracts, NEW file \in Seq(PathNames),
         NEW p \in left.scope, NEW q \in right.scope, Under(file, p), Under(file, q)
  PROVE  ~SafeParallel(left, right)
<1>1. p \in Seq(PathNames) /\ q \in Seq(PathNames)
  BY DEF Contracts
<1>2. Len(p) \in Nat /\ Len(q) \in Nat /\ Len(file) \in Nat
  BY <1>1
<1>3. \A i \in 1..Len(p) : p[i] = file[i]
  <2>1. SubSeq(file, 1, Len(p)) = p /\ Len(p) <= Len(file)
    BY DEF Under
  <2>2. \A i \in 1..Len(p) : SubSeq(file, 1, Len(p))[i] = file[i]
    BY <2>1, <1>2
  <2>3. QED
    BY <2>1, <2>2
<1>4. \A i \in 1..Len(q) : q[i] = file[i]
  <2>1. SubSeq(file, 1, Len(q)) = q /\ Len(q) <= Len(file)
    BY DEF Under
  <2>2. \A i \in 1..Len(q) : SubSeq(file, 1, Len(q))[i] = file[i]
    BY <2>1, <1>2
  <2>3. QED
    BY <2>1, <2>2
<1>5. Covers(p, q) \/ Covers(q, p)
  BY <1>2, <1>3, <1>4 DEF Covers
<1>6. <<p, q>> \in PathOverlap(left, right)
  BY <1>5 DEF PathOverlap
<1>7. QED
  BY <1>6 DEF SafeParallel, SafetyStatus

\* No file is in the scope of two tasks that are owned at the same time, whatever
\* the files, the scopes and the order of claims.
THEOREM NoSharedFileAlways == Spec => []NoSharedFile
<1>1. TypeOK /\ ParallelIsolation => NoSharedFile
  <2>1. SUFFICES ASSUME TypeOK, ParallelIsolation,
                        NEW l \in LeaseIds, NEW m \in LeaseIds, NEW file \in Files,
                        lease[l] # None, lease[m] # None, lease[l].task # lease[m].task,
                        InScope(file, lease[l].task), InScope(file, lease[m].task)
                 PROVE  FALSE
    BY DEF NoSharedFile
  <2>2. lease[l].task \in Tasks /\ lease[m].task \in Tasks
    BY <2>1 DEF TypeOK, ActiveLease
  <2>3. Contract[lease[l].task] \in Contracts /\ Contract[lease[m].task] \in Contracts
    BY <2>2, ConstantsAssumption
  <2>4. SafeParallel(Contract[lease[l].task], Contract[lease[m].task])
    BY <2>1 DEF ParallelIsolation, MayRunBeside
  <2>5. file \in Seq(PathNames)
    BY <2>1, FilesAssumption
  <2>6. QED
    BY <2>1, <2>3, <2>4, <2>5, CommonFileOverlaps DEF InScope
<1>2. QED
  BY <1>1, TypeCorrect, ParallelIsolationAlways, PTL

-----------------------------------------------------------------------------
\* Run markers

\* The clock changes the time left of a run and nothing else.
LEMMA TickRun ==
  ASSUME TypeOK, Tick, NEW t \in Tasks
  PROVE  /\ run'[t] # None <=> run[t] # None
         /\ run[t] # None => run'[t].id = run[t].id
<1>1. CASE run[t] = None
  BY <1>1 DEF Tick
<1>2. CASE run[t] # None
  <2>1. run[t] \in ActiveRun
    BY <1>2 DEF TypeOK
  <2>2. run'[t] = [run[t] EXCEPT !.ttl = Less(@)]
    BY <1>2 DEF Tick
  <2>3. run'[t] = [id |-> run[t].id, ttl |-> Less(run[t].ttl)]
    BY <2>1, <2>2 DEF ActiveRun
  <2>4. run[t].id \in Nat /\ Less(run[t].ttl) \in Nat
    BY <2>1, ConstantsAssumption DEF ActiveRun, Less, MaxWindow
  <2>5. QED
    BY <1>2, <2>3, <2>4, ConstantsAssumption
<1>3. QED
  BY <1>1, <1>2

\* Every step that sets or clears a run marker moves its task in step.
LEMMA RunMatchesStateStep ==
  ASSUME TypeOK, RunMatchesState, [Next]_vars
  PROVE  RunMatchesState'
<1> USE DEF RunMatchesState
<1>1. CASE UNCHANGED <<state, run, attempts>>
  BY <1>1
<1>2. CASE Status
  BY <1>2 DEF Status, SweptState, SweptRun, TypeOK, ActiveRun
<1>3. ASSUME NEW t \in Tasks, Ready(t)
      PROVE  RunMatchesState'
  BY <1>3 DEF Ready, TypeOK
<1>4. ASSUME NEW t \in Tasks, NEW s \in {"CANCELLED", "SUPERSEDED"}, Transition(t, s)
      PROVE  RunMatchesState'
  BY <1>4 DEF Transition, TypeOK
<1>5. ASSUME NEW t \in Tasks, Invalidate(t)
      PROVE  RunMatchesState'
  BY <1>5 DEF Invalidate, TypeOK
<1>6. ASSUME NEW t \in Tasks, NEW a \in Agents, NEW seconds \in 1..MaxLease,
             Claim(t, a, seconds)
      PROVE  RunMatchesState'
  <2>1. /\ state' = [SweptState EXCEPT ![t] = "CLAIMED"]
        /\ run' = SweptRun /\ attempts' = attempts
        /\ SweptState[t] = "READY"
    BY <1>6 DEF Claim
  <2>2. run'[t] = None
    BY <2>1 DEF SweptState, SweptRun, TypeOK
  <2>3. QED
    BY <2>1, <2>2 DEF SweptState, SweptRun, TypeOK
<1>7. ASSUME NEW t \in Tasks, NEW a \in Agents, NEW blocked \in BOOLEAN,
             Release(t, a, blocked)
      PROVE  RunMatchesState'
  BY <1>7 DEF Release, TypeOK
<1>8. ASSUME NEW t \in Tasks, NEW a \in Agents, Complete(t, a)
      PROVE  RunMatchesState'
  BY <1>8 DEF Complete, TypeOK
<1>9. ASSUME NEW p \in Procs, Begin(p)
      PROVE  RunMatchesState'
  <2> DEFINE t == proc[p].task
  <2>1. /\ proc[p] # None
        /\ state' = [state EXCEPT ![t] = "RUNNING"]
        /\ run' = [run EXCEPT ![t] = [id |-> attempts[t] + 1, ttl |-> Window(p)]]
        /\ attempts' = [attempts EXCEPT ![t] = attempts[t] + 1]
    BY <1>9 DEF Begin, CanBegin
  <2>2. t \in Tasks
    BY <2>1 DEF TypeOK, VerifyCall
  <2>3. Window(p) \in Nat /\ attempts[t] + 1 \in Nat
    BY <2>1, ConstantsAssumption DEF TypeOK, VerifyCall, Window, MaxWindow, MaxCharge
  <2>4. [id |-> attempts[t] + 1, ttl |-> Window(p)] # None
    BY <2>3, ConstantsAssumption
  <2>5. QED
    BY <2>1, <2>2, <2>4 DEF TypeOK
<1>10. ASSUME NEW p \in Procs, NEW passed \in BOOLEAN, Finish(p, passed)
       PROVE  RunMatchesState'
  <2>1. proc[p].task \in Tasks
    BY <1>10 DEF Finish, StillActive, TypeOK, VerifyCall
  <2>2. QED
    BY <1>10, <2>1 DEF Finish, StillActive, TypeOK
<1>11. CASE Tick
  BY <1>11, TickRun DEF Tick, taskVars
<1>12. QED
  <2>1. CASE OwnerStep
    BY <2>1, <1>1, <1>2, <1>3, <1>4, <1>5
       DEF OwnerStep, ResolveBlocker, CreateWorkspace
  <2>2. CASE AgentStep
    BY <2>2, <1>1, <1>6, <1>7, <1>8 DEF AgentStep, Heartbeat, Checkpoint, taskVars
  <2>3. CASE VerifyStep
    BY <2>3, <1>1, <1>9, <1>10
       DEF VerifyStep, Preflight, Refused, Record, Crash, taskVars
  <2>4. QED
    BY <1>1, <1>11, <2>1, <2>2, <2>3 DEF Next, AgentStops, vars, taskVars

\* A run marker is there exactly while its task is RUNNING.
THEOREM RunMatchesStateAlways == Spec => []RunMatchesState
<1>1. Init => RunMatchesState
  BY DEF Init, RunMatchesState
<1>2. QED
  BY <1>1, RunMatchesStateStep, TypeCorrect, PTL DEF Spec

-----------------------------------------------------------------------------
\* Ownership and state

\* A lease whose time changed is still a lease.
LEMMA LeaseStillHeld ==
  ASSUME NEW l \in LeaseIds, lease[l] \in ActiveLease, NEW n \in Nat
  PROVE  /\ [lease[l] EXCEPT !.ttl = n] # None
         /\ [lease[l] EXCEPT !.ttl = n].task = lease[l].task
         /\ [lease[l] EXCEPT !.ttl = n].agent = lease[l].agent
<1>1. [lease[l] EXCEPT !.ttl = n]
        = [task |-> lease[l].task, agent |-> lease[l].agent, ttl |-> n]
  BY DEF ActiveLease
<1>2. lease[l].task \in Tasks /\ lease[l].agent \in Agents
  BY DEF ActiveLease
<1>3. QED
  BY <1>1, <1>2, ConstantsAssumption

\* Heartbeats, the start of a run and the clock change the time left of a lease only.
LEMMA HeldKept ==
  ASSUME TypeOK, NEW l \in LeaseIds, NEW u,
         \/ \E t \in Tasks, a \in Agents, seconds \in 1..MaxLease : Heartbeat(t, a, seconds)
         \/ \E p \in Procs : Begin(p)
         \/ Tick
  PROVE  Held(l, u)' <=> Held(l, u)
<1>1. ASSUME NEW m \in LeaseIds, lease[m] \in ActiveLease, lease[m] # None, NEW n \in Nat,
             lease' = [lease EXCEPT ![m].ttl = n]
      PROVE  Held(l, u)' <=> Held(l, u)
  <2>1. CASE l = m
    <3>1. lease'[l] = [lease[l] EXCEPT !.ttl = n]
      BY <1>1, <2>1 DEF TypeOK
    <3>2. QED
      BY <1>1, <2>1, <3>1, LeaseStillHeld DEF Held
  <2>2. CASE l # m
    BY <1>1, <2>2 DEF TypeOK, Held
  <2>3. QED
    BY <2>1, <2>2
<1>2. ASSUME NEW t \in Tasks, NEW a \in Agents, NEW seconds \in 1..MaxLease,
             Heartbeat(t, a, seconds)
      PROVE  Held(l, u)' <=> Held(l, u)
  <2>1. PICK m \in LeaseIds : Owned(m, t, a) /\ lease' = [lease EXCEPT ![m].ttl = seconds]
    BY <1>2 DEF Heartbeat
  <2>2. lease[m] # None /\ lease[m] \in ActiveLease
    BY <2>1 DEF Owned, Live, Held, TypeOK
  <2>3. seconds \in Nat
    BY ConstantsAssumption
  <2>4. QED
    BY <1>1, <2>1, <2>2, <2>3
<1>3. ASSUME NEW p \in Procs, Begin(p)
      PROVE  Held(l, u)' <=> Held(l, u)
  <2>1. PICK m \in LeaseIds :
          /\ CanBegin(p, m)
          /\ lease' = [lease EXCEPT ![m].ttl = IF @ < Window(p) THEN Window(p) ELSE @]
    BY <1>3 DEF Begin
  <2>2. lease[m] # None /\ lease[m] \in ActiveLease
    BY <2>1 DEF CanBegin, Owned, Live, Held, TypeOK
  <2>3. Window(p) \in Nat /\ lease[m].ttl \in Nat
    BY <2>1, <2>2, ConstantsAssumption
       DEF CanBegin, TypeOK, VerifyCall, Window, ActiveLease, LongestLease, MaxWindow, MaxCharge
  <2> DEFINE n == IF lease[m].ttl < Window(p) THEN Window(p) ELSE lease[m].ttl
  <2>4. n \in Nat
    BY <2>3
  <2>5. lease' = [lease EXCEPT ![m].ttl = n]
    BY <2>1
  <2> HIDE DEF n
  <2>6. QED
    BY <1>1, <2>2, <2>4, <2>5
<1>4. CASE Tick
  <2>1. CASE lease[l] = None
    BY <1>4, <2>1 DEF Tick, Held
  <2>2. CASE lease[l] # None
    <3>1. lease[l] \in ActiveLease /\ lease'[l] = [lease[l] EXCEPT !.ttl = Less(@)]
      BY <1>4, <2>2 DEF Tick, TypeOK
    <3>2. Less(lease[l].ttl) \in Nat
      BY <3>1, ConstantsAssumption DEF ActiveLease, Less, LongestLease, MaxWindow
    <3>3. QED
      BY <2>2, <3>1, <3>2, LeaseStillHeld DEF Held
  <2>3. QED
    BY <2>1, <2>2
<1>5. QED
  BY <1>2, <1>3, <1>4

\* Every step that ends a lease moves its task in step.
LEMMA LeaseMatchesStateStep ==
  ASSUME TypeOK, OneOwner, RunMatchesState, LeaseMatchesState, [Next]_vars
  PROVE  LeaseMatchesState'
<1> DEFINE Worked == {"READY", "CLAIMED", "RUNNING", "VERIFYING", "FAILED"}
           Busy == {"CLAIMED", "RUNNING", "VERIFYING", "FAILED"}
<1> SUFFICES ASSUME NEW u \in Tasks
             PROVE  /\ \A l \in LeaseIds : Held(l, u)' => state'[u] \in Worked
                    /\ state'[u] \in Busy => \E l \in LeaseIds : Held(l, u)'
  BY DEF LeaseMatchesState
<1> DEFINE Goal == /\ \A l \in LeaseIds : Held(l, u)' => state'[u] \in Worked
                   /\ state'[u] \in Busy => \E l \in LeaseIds : Held(l, u)'
<1>1. /\ \A l \in LeaseIds : Held(l, u) => state[u] \in Worked
      /\ state[u] \in Busy => \E l \in LeaseIds : Held(l, u)
  BY DEF LeaseMatchesState
<1>2. ASSUME \A l \in LeaseIds : Held(l, u)' <=> Held(l, u),
             \/ state'[u] = state[u]
             \/ /\ state'[u] \in Worked
                /\ \E l \in LeaseIds : Held(l, u)
             \/ /\ state'[u] = "READY"
      PROVE  Goal
  BY <1>1, <1>2
<1>3. CASE UNCHANGED <<lease, state>>
  BY <1>1, <1>3 DEF Held
<1>4. CASE Status
  <2>1. ASSUME NEW l \in LeaseIds, Held(l, u)'
        PROVE  Held(l, u) /\ ~RanOut(l)
    BY <1>4, <2>1 DEF Status, SweptLease, Held
  <2>2. ASSUME NEW l \in LeaseIds, Held(l, u), ~RanOut(l)
        PROVE  Held(l, u)'
    BY <1>4, <2>2 DEF Status, SweptLease, Held
  <2>3. state'[u] = IF u \in Freed THEN "READY" ELSE state[u]
    BY <1>4 DEF Status, SweptState
  <2>4. ASSUME state'[u] \in Busy
        PROVE  \E l \in LeaseIds : Held(l, u)'
    BY <1>1, <2>2, <2>3, <2>4 DEF Freed, Held
  <2>5. QED
    BY <1>1, <2>1, <2>3, <2>4
<1>5. ASSUME NEW t \in Tasks, Ready(t)
      PROVE  Goal
  BY <1>1, <1>5 DEF Ready, Held, TypeOK
<1>6. ASSUME NEW t \in Tasks, NEW s \in {"CANCELLED", "SUPERSEDED"}, Transition(t, s)
      PROVE  Goal
  BY <1>1, <1>6 DEF Transition, Held, TypeOK
<1>7. ASSUME NEW t \in Tasks, Invalidate(t)
      PROVE  Goal
  BY <1>1, <1>7 DEF Invalidate, Held, TypeOK
<1>8. ASSUME NEW t \in Tasks, NEW a \in Agents, NEW seconds \in 1..MaxLease,
             Claim(t, a, seconds)
      PROVE  Goal
  <2>1. PICK new \in LeaseIds :
          /\ FreshLease(new)
          /\ lease'[new] = [task |-> t, agent |-> a, ttl |-> seconds]
          /\ \A l \in LeaseIds \ {new} :
               /\ lease'[l] = SweptLease[l]
               /\ lease'[l] # None =>
                    /\ lease[l] # None /\ lease'[l] = lease[l] /\ ~RanOut(l)
                    /\ lease[l].task # t
    BY <1>8, ClaimLease
  <2>2. state' = [SweptState EXCEPT ![t] = "CLAIMED"]
    BY <1>8 DEF Claim
  <2>3. CASE u = t
    <3>1. lease'[new] # None
      BY <2>1, ConstantsAssumption
    <3>2. QED
      BY <2>1, <2>2, <2>3, <3>1 DEF Held, SweptState
  <2>4. CASE u # t
    <3>1. state'[u] = IF u \in Freed THEN "READY" ELSE state[u]
      BY <2>2, <2>4 DEF SweptState
    <3>2. ASSUME NEW l \in LeaseIds, Held(l, u)'
          PROVE  Held(l, u)
      BY <2>1, <2>4, <3>2 DEF Held
    <3>3. ASSUME state'[u] \in Busy
          PROVE  \E l \in LeaseIds : Held(l, u)'
      <4>1. PICK l \in LeaseIds : Held(l, u)
        BY <1>1, <3>1, <3>3
      <4>2. ~RanOut(l)
        BY <1>1, <3>1, <3>3, <4>1 DEF Freed, Held
      <4>3. l # new /\ lease'[l] = lease[l]
        BY <2>1, <4>1, <4>2 DEF FreshLease, Held, SweptLease
      <4>4. QED
        BY <4>1, <4>3 DEF Held
    <3>4. QED
      BY <1>1, <3>1, <3>2, <3>3
  <2>5. QED
    BY <2>3, <2>4
<1>9. ASSUME NEW t \in Tasks, NEW a \in Agents, NEW seconds \in 1..MaxLease,
             Heartbeat(t, a, seconds)
      PROVE  Goal
  BY <1>2, <1>9, HeldKept DEF Heartbeat, taskVars
<1>10. ASSUME NEW t \in Tasks, NEW a \in Agents, NEW m \in LeaseIds,
              Owned(m, t, a), lease' = [lease EXCEPT ![m] = None],
              NEW s \in {"READY", "BLOCKED", "COMPLETED"},
              state' = [state EXCEPT ![t] = s]
       PROVE  Goal
  <2>1. Held(m, t)
    BY <1>10 DEF Owned, Live
  <2>2. ASSUME NEW l \in LeaseIds
        PROVE  Held(l, u)' <=> Held(l, u) /\ u # t
    BY <1>10, <2>1 DEF Held, OneOwner, TypeOK
  <2>3. QED
    BY <1>1, <1>10, <2>2 DEF TypeOK
<1>11. ASSUME NEW t \in Tasks, NEW a \in Agents, NEW blocked \in BOOLEAN,
              Release(t, a, blocked)
       PROVE  Goal
  BY <1>10, <1>11 DEF Release
<1>12. ASSUME NEW t \in Tasks, NEW a \in Agents, Complete(t, a)
       PROVE  Goal
  BY <1>10, <1>12 DEF Complete
<1>13. ASSUME NEW p \in Procs, Begin(p)
       PROVE  Goal
  <2>1. /\ \E l \in LeaseIds : Held(l, proc[p].task)
        /\ state' = [state EXCEPT ![proc[p].task] = "RUNNING"]
    BY <1>13 DEF Begin, CanBegin, Owned, Live
  <2>2. QED
    BY <1>2, <1>13, <2>1, HeldKept DEF TypeOK
<1>14. ASSUME NEW p \in Procs, NEW passed \in BOOLEAN, Finish(p, passed)
       PROVE  Goal
  <2>1. proc[p].task \in Tasks
    BY <1>14 DEF Finish, StillActive, TypeOK, VerifyCall
  <2>2. \/ state' = state
        \/ /\ state[proc[p].task] = "RUNNING"
           /\ \E s \in {"VERIFYING", "FAILED"} : state' = [state EXCEPT ![proc[p].task] = s]
    BY <1>14, <2>1 DEF Finish, StillActive, RunMatchesState
  <2>3. UNCHANGED lease
    BY <1>14 DEF Finish, StillActive
  <2>4. QED
    BY <1>1, <2>1, <2>2, <2>3 DEF Held, TypeOK
<1>15. CASE Tick
  BY <1>2, <1>15, HeldKept DEF Tick, taskVars
<1>16. QED
  <2>1. CASE OwnerStep
    BY <2>1, <1>3, <1>4, <1>5, <1>6, <1>7 DEF OwnerStep, ResolveBlocker, CreateWorkspace
  <2>2. CASE AgentStep
    BY <2>2, <1>3, <1>8, <1>9, <1>11, <1>12 DEF AgentStep, Checkpoint
  <2>3. CASE VerifyStep
    BY <2>3, <1>3, <1>13, <1>14
       DEF VerifyStep, Preflight, Refused, Record, Crash, taskVars
  <2>4. QED
    BY <1>3, <1>15, <2>1, <2>2, <2>3 DEF Next, AgentStops, vars, taskVars

\* A lease and the state of its task never drift apart.
THEOREM LeaseMatchesStateAlways == Spec => []LeaseMatchesState
<1>1. Init => LeaseMatchesState
  BY DEF Init, LeaseMatchesState, Held
<1>2. QED
  BY <1>1, LeaseMatchesStateStep, TypeCorrect, OneOwnerAlways, RunMatchesStateAlways, PTL
     DEF Spec

-----------------------------------------------------------------------------
\* Blockers

\* No step takes up a task that waits for a human decision.
LEMMA BlockedUntilDecidedStep ==
  ASSUME TypeOK, RunMatchesState, LeaseMatchesState, BlockedUntilDecided, [Next]_vars
  PROVE  BlockedUntilDecided'
<1> USE DEF BlockedUntilDecided
<1>1. CASE UNCHANGED <<state, blocker>>
  BY <1>1
<1>2. CASE OwnerStep
  BY <1>1, <1>2 DEF OwnerStep, Status, SweptState, Freed, Ready, ResolveBlocker, Transition,
                    CreateWorkspace, Invalidate, TypeOK
<1>3. CASE AgentStep
  <2>1. PICK t \in Tasks, a \in Agents :
          \/ \E seconds \in 1..MaxLease : Claim(t, a, seconds) \/ Heartbeat(t, a, seconds)
          \/ \E blocked \in BOOLEAN : Release(t, a, blocked)
          \/ Checkpoint(t, a)
          \/ Complete(t, a)
    BY <1>3 DEF AgentStep
  <2>2. CASE \E seconds \in 1..MaxLease : Claim(t, a, seconds)
    BY <2>2 DEF Claim, SweptState, Freed, TypeOK
  <2>3. CASE \E blocked \in BOOLEAN : Release(t, a, blocked)
    BY <2>3 DEF Release, TypeOK
  <2>4. QED
    BY <1>1, <2>1, <2>2, <2>3 DEF Heartbeat, Checkpoint, Complete, TypeOK, taskVars
<1>4. CASE VerifyStep
  <2>1. ASSUME NEW p \in Procs, Begin(p)
        PROVE  BlockedUntilDecided'
    <3>1. /\ \E l \in LeaseIds : Held(l, proc[p].task)
          /\ state' = [state EXCEPT ![proc[p].task] = "RUNNING"]
          /\ UNCHANGED blocker
          /\ proc[p] # None
      BY <2>1 DEF Begin, CanBegin, Owned, Live
    <3>2. proc[p].task \in Tasks
      BY <3>1 DEF TypeOK, VerifyCall
    <3>3. QED
      BY <3>1, <3>2 DEF LeaseMatchesState, TypeOK
  <2>2. ASSUME NEW p \in Procs, NEW passed \in BOOLEAN, Finish(p, passed)
        PROVE  BlockedUntilDecided'
    <3>1. proc[p].task \in Tasks
      BY <2>2 DEF Finish, StillActive, TypeOK, VerifyCall
    <3>2. QED
      BY <2>2, <3>1 DEF Finish, StillActive, RunMatchesState, TypeOK
  <2>3. QED
    BY <1>1, <1>4, <2>1, <2>2
       DEF VerifyStep, Preflight, Refused, Record, Crash, taskVars
<1>5. QED
  BY <1>1, <1>2, <1>3, <1>4 DEF Next, Tick, AgentStops, vars, taskVars

\* A task that waits for a human decision is not worked on before it is decided.
THEOREM BlockedUntilDecidedAlways == Spec => []BlockedUntilDecided
<1>1. Init => BlockedUntilDecided
  BY DEF Init, BlockedUntilDecided
<1>2. QED
  BY <1>1, BlockedUntilDecidedStep, TypeCorrect, RunMatchesStateAlways,
     LeaseMatchesStateAlways, PTL DEF Spec

-----------------------------------------------------------------------------
\* Action properties

\* A run inside its deadline is ended by its own process and by nothing else.
LEMMA BudgetedRunStep ==
  ASSUME TypeOK, RunMatchesState, [Next]_vars,
         NEW t \in Tasks, run[t] # None, run[t].ttl > 0
  PROVE  \/ run'[t] # None /\ run'[t].id = run[t].id /\ state'[t] = "RUNNING"
         \/ \E p \in Procs : /\ proc[p] # None /\ proc'[p] = None
                             /\ proc[p].pc = "running"
                             /\ proc[p].task = t /\ proc[p].run = run[t].id
<1> DEFINE Goes == run'[t] # None /\ run'[t].id = run[t].id /\ state'[t] = "RUNNING"
<1>1. state[t] = "RUNNING"
  BY DEF RunMatchesState
<1>2. CASE run'[t] = run[t] /\ state'[t] = state[t]
  BY <1>1, <1>2
<1>3. CASE OwnerStep
  <2>1. SweptRun[t] = run[t] /\ SweptState[t] = state[t]
    BY DEF SweptRun, SweptState, Freed, RanOut, KeptByRun
  <2>2. QED
    BY <1>1, <1>2, <1>3, <2>1
       DEF OwnerStep, Status, Ready, ResolveBlocker, Transition, CreateWorkspace,
           Invalidate, TypeOK
<1>4. CASE AgentStep
  <2>1. PICK u \in Tasks, a \in Agents :
          \/ \E seconds \in 1..MaxLease : Claim(u, a, seconds) \/ Heartbeat(u, a, seconds)
          \/ \E blocked \in BOOLEAN : Release(u, a, blocked)
          \/ Checkpoint(u, a)
          \/ Complete(u, a)
    BY <1>4 DEF AgentStep
  <2>2. CASE \E seconds \in 1..MaxLease : Claim(u, a, seconds)
    <3>1. SweptRun[t] = run[t] /\ SweptState[t] = state[t]
      BY DEF SweptRun, SweptState, Freed, RanOut, KeptByRun
    <3>2. u # t /\ run' = SweptRun /\ state' = [SweptState EXCEPT ![u] = "CLAIMED"]
      BY <1>1, <2>2, <3>1 DEF Claim
    <3>3. QED
      BY <1>2, <3>1, <3>2 DEF SweptState
  <2>3. CASE \E blocked \in BOOLEAN : Release(u, a, blocked)
    BY <1>2, <2>3 DEF Release, TypeOK
  <2>4. QED
    BY <1>1, <1>2, <2>1, <2>2, <2>3 DEF Heartbeat, Checkpoint, Complete, TypeOK, taskVars
<1>5. CASE VerifyStep
  <2>1. ASSUME NEW p \in Procs, Begin(p)
        PROVE  Goes
    BY <1>1, <2>1 DEF Begin, CanBegin, TypeOK
  <2>2. ASSUME NEW p \in Procs, NEW passed \in BOOLEAN, Finish(p, passed)
        PROVE  \/ Goes
               \/ /\ proc[p] # None /\ proc'[p] = None
                  /\ proc[p].pc = "running"
                  /\ proc[p].task = t /\ proc[p].run = run[t].id
    BY <1>1, <2>2 DEF Finish, StillActive, TypeOK
  <2>3. QED
    BY <1>2, <1>5, <2>1, <2>2
       DEF VerifyStep, Preflight, Refused, Record, Crash, taskVars
<1>6. CASE Tick
  BY <1>1, <1>6, TickRun DEF Tick, taskVars
<1>7. QED
  BY <1>2, <1>3, <1>4, <1>5, <1>6 DEF Next, AgentStops, vars, taskVars

\* "Expiry never frees a still-budgeted run", and nothing else does either.
THEOREM BudgetedRunKeptAlways == Spec => BudgetedRunKept
<1>1. TypeOK /\ RunMatchesState /\ [Next]_vars =>
        [\A t \in Tasks :
           run[t] # None /\ run[t].ttl > 0 =>
             \/ run'[t] # None /\ run'[t].id = run[t].id /\ state'[t] = "RUNNING"
             \/ \E p \in Procs : /\ proc[p] # None /\ proc'[p] = None
                                 /\ proc[p].pc = "running"
                                 /\ proc[p].task = t /\ proc[p].run = run[t].id]_vars
  BY BudgetedRunStep
<1>2. QED
  BY <1>1, TypeCorrect, RunMatchesStateAlways, PTL DEF Spec, BudgetedRunKept

\* No step moves a cancelled or superseded task.
LEMMA TerminalStep ==
  ASSUME TypeOK, RunMatchesState, LeaseMatchesState, [Next]_vars,
         NEW t \in Tasks, state[t] \in {"CANCELLED", "SUPERSEDED"}
  PROVE  state'[t] = state[t]
<1>1. CASE UNCHANGED state
  BY <1>1
<1>2. SweptState[t] = state[t]
  BY DEF SweptState, Freed
<1>3. CASE OwnerStep
  <2>1. Transitions[state[t]] = {}
    BY DEF Transitions, TaskStates
  <2>2. ASSUME NEW u \in Tasks, NEW s \in {"CANCELLED", "SUPERSEDED"}, Transition(u, s)
        PROVE  state'[t] = state[t]
    BY <2>1, <2>2 DEF Transition, TypeOK
  <2>3. QED
    BY <1>1, <1>2, <1>3, <2>2 DEF OwnerStep, Status, Ready, ResolveBlocker,
                                  CreateWorkspace, Invalidate, TypeOK
<1>4. \A l \in LeaseIds : ~Held(l, t)
  BY DEF LeaseMatchesState
<1>5. CASE AgentStep
  <2>1. PICK u \in Tasks, a \in Agents :
          \/ \E seconds \in 1..MaxLease : Claim(u, a, seconds) \/ Heartbeat(u, a, seconds)
          \/ \E blocked \in BOOLEAN : Release(u, a, blocked)
          \/ Checkpoint(u, a)
          \/ Complete(u, a)
    BY <1>5 DEF AgentStep
  <2>2. CASE \E seconds \in 1..MaxLease : Claim(u, a, seconds)
    <3>1. u # t /\ state' = [SweptState EXCEPT ![u] = "CLAIMED"]
      BY <1>2, <2>2 DEF Claim
    <3>2. QED
      BY <1>2, <3>1 DEF SweptState
  <2>3. CASE \E blocked \in BOOLEAN : Release(u, a, blocked)
    <3>1. u # t
      BY <1>4, <2>3 DEF Release, Owned, Live
    <3>2. QED
      BY <2>3, <3>1 DEF Release, TypeOK
  <2>4. QED
    BY <1>1, <2>1, <2>2, <2>3 DEF Heartbeat, Checkpoint, Complete, TypeOK, taskVars
<1>6. CASE VerifyStep
  <2>1. ASSUME NEW p \in Procs, Begin(p)
        PROVE  state'[t] = state[t]
    BY <1>4, <2>1 DEF Begin, CanBegin, Owned, Live, TypeOK
  <2>2. ASSUME NEW p \in Procs, NEW passed \in BOOLEAN, Finish(p, passed)
        PROVE  state'[t] = state[t]
    BY <2>2 DEF Finish, StillActive, RunMatchesState, TypeOK
  <2>3. QED
    BY <1>1, <1>6, <2>1, <2>2
       DEF VerifyStep, Preflight, Refused, Record, Crash, taskVars
<1>7. QED
  BY <1>1, <1>3, <1>5, <1>6 DEF Next, Tick, AgentStops, vars, taskVars

\* A cancelled or superseded task stays so, and never has an owner again.
THEOREM TerminalForeverAlways == Spec => TerminalForever
<1>1. TypeOK /\ RunMatchesState /\ LeaseMatchesState /\ LeaseMatchesState' /\ [Next]_vars =>
        [\A t \in Tasks :
           state[t] \in {"CANCELLED", "SUPERSEDED"} =>
             state'[t] = state[t] /\ (\A l \in LeaseIds : ~Held(l, t)')]_vars
  <2> SUFFICES ASSUME TypeOK, RunMatchesState, LeaseMatchesState, LeaseMatchesState',
                      [Next]_vars,
                      NEW t \in Tasks, state[t] \in {"CANCELLED", "SUPERSEDED"}
               PROVE  state'[t] = state[t] /\ (\A l \in LeaseIds : ~Held(l, t)')
    OBVIOUS
  <2>1. state'[t] = state[t]
    BY TerminalStep
  <2>2. (\A l \in LeaseIds : ~Held(l, t)')
    BY <2>1 DEF LeaseMatchesState
  <2>3. QED
    BY <2>1, <2>2
<1>2. QED
  BY <1>1, TypeCorrect, RunMatchesStateAlways, LeaseMatchesStateAlways, PTL
     DEF Spec, TerminalForever

-----------------------------------------------------------------------------
\* Verify processes

\* Attempts are never forgotten.
LEMMA AttemptsGrow ==
  ASSUME TypeOK, [Next]_vars, NEW t \in Tasks
  PROVE  attempts'[t] \in Nat /\ attempts[t] \in Nat /\ attempts'[t] >= attempts[t]
<1>1. CASE UNCHANGED attempts
  BY <1>1 DEF TypeOK
<1>2. CASE OwnerStep
  BY <1>1, <1>2 DEF OwnerStep, Status, Ready, ResolveBlocker, Transition, CreateWorkspace,
                    Invalidate
<1>3. CASE AgentStep
  BY <1>1, <1>3 DEF AgentStep, Claim, Heartbeat, Release, Checkpoint, Complete, taskVars
<1>4. CASE VerifyStep
  <2>1. ASSUME NEW p \in Procs, Begin(p)
        PROVE  attempts'[t] \in Nat /\ attempts[t] \in Nat /\ attempts'[t] >= attempts[t]
    BY <2>1 DEF Begin, TypeOK
  <2>2. QED
    BY <1>1, <1>4, <2>1 DEF VerifyStep, Preflight, Refused, Record, Finish, Crash, taskVars
<1>5. QED
  BY <1>1, <1>2, <1>3, <1>4 DEF Next, Tick, AgentStops, vars, taskVars

\* A run marker after a step was there before, or is the next run, just begun.
LEMMA RunSteps ==
  ASSUME TypeOK, [Next]_vars, NEW t \in Tasks, run'[t] # None
  PROVE  \/ run[t] # None /\ run'[t].id = run[t].id
         \/ run'[t].id = attempts[t] + 1
<1>1. CASE UNCHANGED run
  BY <1>1
<1>2. CASE OwnerStep
  BY <1>1, <1>2 DEF OwnerStep, Status, SweptRun, Ready, ResolveBlocker, Transition,
                    CreateWorkspace, Invalidate, TypeOK
<1>3. CASE AgentStep
  BY <1>1, <1>3 DEF AgentStep, Claim, SweptRun, Heartbeat, Release, Checkpoint, Complete
<1>4. CASE VerifyStep
  <2>1. ASSUME NEW p \in Procs, Begin(p)
        PROVE  \/ run[t] # None /\ run'[t].id = run[t].id
               \/ run'[t].id = attempts[t] + 1
    BY <2>1 DEF Begin, TypeOK
  <2>2. ASSUME NEW p \in Procs, NEW passed \in BOOLEAN, Finish(p, passed)
        PROVE  run[t] # None /\ run'[t].id = run[t].id
    BY <2>2 DEF Finish, StillActive, TypeOK
  <2>3. QED
    BY <1>1, <1>4, <2>1, <2>2 DEF VerifyStep, Preflight, Refused, Record, Crash
<1>5. CASE Tick
  BY <1>5, TickRun
<1>6. QED
  BY <1>1, <1>2, <1>3, <1>4, <1>5 DEF Next, AgentStops, vars

\* While a run goes on, the leases of its task do too.
LEMMA LeaseOfRunKept ==
  ASSUME TypeOK, RunMatchesState, [Next]_vars,
         NEW l \in LeaseIds, NEW t \in Tasks,
         lease[l] # None, lease[l].task = t, run[t] # None, run'[t] # None
  PROVE  lease'[l] # None
<1>1. state[t] = "RUNNING"
  BY DEF RunMatchesState
<1>2. RanOut(l) => SweptRun[t] = None
  BY <1>1 DEF SweptRun, Freed
<1>3. CASE UNCHANGED lease
  BY <1>3
<1>4. CASE OwnerStep
  BY <1>2, <1>3, <1>4 DEF OwnerStep, Status, SweptLease, Ready, ResolveBlocker, Transition,
                          CreateWorkspace, Invalidate, Held
<1>5. CASE AgentStep
  <2>1. PICK u \in Tasks, a \in Agents :
          \/ \E seconds \in 1..MaxLease : Claim(u, a, seconds) \/ Heartbeat(u, a, seconds)
          \/ \E blocked \in BOOLEAN : Release(u, a, blocked)
          \/ Checkpoint(u, a)
          \/ Complete(u, a)
    BY <1>5 DEF AgentStep
  <2>2. ASSUME NEW seconds \in 1..MaxLease, Claim(u, a, seconds)
        PROVE  lease'[l] # None
    <3>1. PICK new \in LeaseIds :
            FreshLease(new) /\ \A m \in LeaseIds \ {new} : lease'[m] = SweptLease[m]
      BY <2>2, ClaimLease
    <3>2. l # new
      BY <3>1 DEF FreshLease
    <3>3. QED
      BY <1>2, <2>2, <3>1, <3>2 DEF Claim, SweptLease
  <2>3. ASSUME NEW seconds \in 1..MaxLease, Heartbeat(u, a, seconds)
        PROVE  lease'[l] # None
    BY <2>3, HeldKept DEF Held
  <2>4. ASSUME u # t, NEW m \in LeaseIds, Owned(m, u, a), lease' = [lease EXCEPT ![m] = None]
        PROVE  lease'[l] # None
    BY <2>4 DEF Owned, Live, Held, TypeOK
  <2>5. CASE \E blocked \in BOOLEAN : Release(u, a, blocked)
    BY <2>4, <2>5 DEF Release
  <2>6. CASE Complete(u, a)
    BY <1>1, <2>4, <2>6 DEF Complete
  <2>7. QED
    BY <1>3, <2>1, <2>2, <2>3, <2>5, <2>6 DEF Checkpoint
<1>6. CASE VerifyStep
  <2>1. CASE \E p \in Procs : Begin(p)
    BY <2>1, HeldKept DEF Held
  <2>2. QED
    BY <1>3, <1>6, <2>1 DEF VerifyStep, Preflight, Refused, Record, Finish, Crash
<1>7. CASE Tick
  BY <1>7, HeldKept DEF Held
<1>8. QED
  BY <1>3, <1>4, <1>5, <1>6, <1>7 DEF Next, AgentStops, vars

\* What CleanRunOwned says of one process.
CleanCall(p) ==
  LET t == proc[p].task
      l == proc[p].lease
  IN /\ lease[l] # None => lease[l].task = t /\ lease[l].agent = proc[p].agent
     /\ proc[p].pc = "armed" => proc[p].results = "none"
     /\ proc[p].pc = "running" => proc[p].run <= attempts[t]
     /\ /\ proc[p].pc = "running" /\ proc[p].results = "clean"
        /\ run[t] # None /\ run[t].id = proc[p].run
        => lease[l] # None

\* The lease a verify call remembers is never given to another task or agent.
LEMMA CallLease ==
  ASSUME TypeOK, [Next]_vars,
         NEW p \in Procs, proc[p] # None, lease'[proc[p].lease] # None
  PROVE  Continues(proc[p].lease)
<1> DEFINE l == proc[p].lease
<1>1. l \in LeaseIds
  BY DEF TypeOK, VerifyCall
<1>2. CASE \E u \in Tasks, a \in Agents, seconds \in 1..MaxLease : Claim(u, a, seconds)
  <2>1. PICK new \in LeaseIds :
          /\ FreshLease(new)
          /\ \A m \in LeaseIds \ {new} : lease'[m] # None =>
               lease[m] # None /\ lease'[m] = lease[m]
    BY <1>2, ClaimLease
  <2>2. l # new
    BY <2>1 DEF FreshLease
  <2>3. QED
    BY <1>1, <2>1, <2>2 DEF Continues
<1>3. CASE ~(\E u \in Tasks, a \in Agents, seconds \in 1..MaxLease : Claim(u, a, seconds))
  BY <1>1, <1>3, LeaseSteps
<1>4. QED
  BY <1>2, <1>3

\* Steps of others leave a call as CleanRunOwned wants it.
LEMMA OtherProcessClean ==
  ASSUME TypeOK, RunMatchesState, [Next]_vars,
         NEW p \in Procs, proc[p] # None, CleanCall(p), proc'[p] = proc[p]
  PROVE  CleanCall(p)'
<1> DEFINE t == proc[p].task
           l == proc[p].lease
<1>1. proc[p] \in VerifyCall /\ t \in Tasks /\ l \in LeaseIds /\ proc[p].run \in Nat
  BY DEF TypeOK, VerifyCall
<1>2. lease'[l] # None => lease'[l].task = t /\ lease'[l].agent = proc[p].agent
  BY <1>1, CallLease DEF CleanCall, Continues
<1>3. proc[p].pc = "running" => proc[p].run <= attempts'[t]
  BY <1>1, AttemptsGrow DEF CleanCall
<1>4. ASSUME proc[p].pc = "running", proc[p].results = "clean",
             run'[t] # None, run'[t].id = proc[p].run
      PROVE  lease'[l] # None
  <2>1. proc[p].run <= attempts[t] /\ attempts[t] \in Nat
    BY <1>1, <1>4 DEF CleanCall, TypeOK
  <2>2. run[t] # None /\ run[t].id = proc[p].run
    BY <1>1, <1>4, <2>1, RunSteps
  <2>3. lease[l] # None /\ lease[l].task = t
    BY <1>4, <2>2 DEF CleanCall
  <2>4. QED
    BY <1>1, <1>4, <2>2, <2>3, LeaseOfRunKept
<1>5. QED
  BY <1>2, <1>3, <1>4 DEF CleanCall

\* A call's own steps keep what CleanRunOwned says of it: a result is clean only
\* under the lease of the first reads.
LEMMA OwnProcessClean ==
  ASSUME TypeOK, CleanRunOwned, [Next]_vars,
         NEW p \in Procs, proc'[p] # None, proc'[p] # proc[p]
  PROVE  CleanCall(p)'
<1>1. PICK q \in Procs :
        \/ \E t \in Tasks, a \in Agents, selected \in 1..MaxVerifiers :
             Preflight(q, t, a, selected)
        \/ Begin(q)
        \/ \E cost \in 0..MaxCharge, clean \in BOOLEAN : Record(q, cost, clean)
        \/ Refused(q)
        \/ \E passed \in BOOLEAN : Finish(q, passed)
        \/ Crash(q)
  <2>1. CASE VerifyStep
    BY <2>1 DEF VerifyStep
  <2>2. CASE ~VerifyStep
    <3>1. UNCHANGED proc
      BY <2>2 DEF Next, OwnerStep, Status, Ready, ResolveBlocker, Transition,
                  CreateWorkspace, Invalidate, AgentStep, Claim, Heartbeat, Release,
                  Checkpoint, Complete, Tick, AgentStops, vars
    <3>2. QED
      BY <3>1
  <2>3. QED
    BY <2>1, <2>2
<1>2. proc[p] # None => CleanCall(p)
  BY DEF CleanRunOwned, CleanCall
<1>3. ASSUME NEW t \in Tasks, NEW a \in Agents, NEW selected \in 1..MaxVerifiers,
             Preflight(q, t, a, selected)
      PROVE  CleanCall(p)'
  <2>1. PICK l \in LeaseIds :
          /\ Owned(l, t, a)
          /\ proc' = [proc EXCEPT ![q] =
               [pc |-> "armed", task |-> t, agent |-> a, lease |-> l, run |-> 0,
                used |-> runtimeUsed[t], todo |-> selected, results |-> "none"]]
    BY <1>3 DEF Preflight
  <2>2. p = q /\ UNCHANGED lease
    BY <1>3, <2>1 DEF Preflight, TypeOK
  <2>3. lease[l].task = t /\ lease[l].agent = a
    BY <2>1 DEF Owned, Live, Held
  <2>4. QED
    BY <2>1, <2>2, <2>3 DEF CleanCall, TypeOK
<1>4. CASE Begin(q)
  <2> DEFINE t == proc[q].task
             l == proc[q].lease
  <2>1. /\ proc[q] # None /\ proc[q].pc = "armed"
        /\ proc' = [proc EXCEPT ![q].pc = "running", ![q].run = attempts[t] + 1]
        /\ attempts' = [attempts EXCEPT ![t] = attempts[t] + 1]
    BY <1>4 DEF Begin, CanBegin
  <2>2. p = q /\ proc[q] \in VerifyCall /\ t \in Tasks /\ l \in LeaseIds
    BY <2>1 DEF TypeOK, VerifyCall
  <2>3. /\ proc'[p].pc = "running" /\ proc'[p].task = t /\ proc'[p].lease = l
        /\ proc'[p].agent = proc[p].agent /\ proc'[p].results = "none"
        /\ proc'[p].run = attempts'[t] /\ attempts'[t] \in Nat
    BY <1>2, <2>1, <2>2 DEF TypeOK, VerifyCall, CleanCall
  <2>4. lease'[l] # None => lease'[l].task = t /\ lease'[l].agent = proc[p].agent
    BY <1>2, <2>1, <2>2, CallLease DEF CleanCall, Continues
  <2>5. QED
    BY <2>3, <2>4 DEF CleanCall
<1>5. ASSUME NEW cost \in 0..MaxCharge, NEW clean \in BOOLEAN, Record(q, cost, clean)
      PROVE  CleanCall(p)'
  <2> DEFINE l == proc[q].lease
             r == proc'[q].results
  <2>1. PICK s \in {"spoilt", "clean"} :
          /\ s = "clean" => lease[l] # None
          /\ proc' = [proc EXCEPT ![q].todo = @ - 1, ![q].used = @ + cost, ![q].results = s]
    BY <1>5 DEF Record, LeaseValid
  <2>2. /\ proc[q] # None /\ proc[q].pc = "running"
        /\ UNCHANGED <<lease, run, attempts>>
    BY <1>5 DEF Record, taskVars
  <2>3. p = q /\ proc[q] \in VerifyCall
    BY <2>1, <2>2 DEF TypeOK
  <2>4. /\ proc'[p].pc = "running" /\ proc'[p].task = proc[p].task /\ proc'[p].lease = l
        /\ proc'[p].agent = proc[p].agent /\ proc'[p].results = s
        /\ proc'[p].run = proc[p].run
    BY <2>1, <2>2, <2>3 DEF TypeOK, VerifyCall
  <2>5. QED
    BY <1>2, <2>1, <2>2, <2>3, <2>4 DEF CleanCall
<1>6. CASE \/ Refused(q) \/ Crash(q) \/ \E passed \in BOOLEAN : Finish(q, passed)
  BY <1>6 DEF Refused, Crash, Finish, TypeOK
<1>7. QED
  BY <1>1, <1>3, <1>4, <1>5, <1>6

\* CleanRunOwned goes from each state to the next.
LEMMA CleanRunOwnedStep ==
  ASSUME TypeOK, RunMatchesState, CleanRunOwned, [Next]_vars
  PROVE  CleanRunOwned'
<1>1. ASSUME NEW p \in Procs, proc'[p] # None
      PROVE  CleanCall(p)'
  <2>1. CASE proc'[p] = proc[p]
    <3>1. CleanCall(p)
      BY <1>1, <2>1 DEF CleanRunOwned, CleanCall
    <3>2. QED
      BY <1>1, <2>1, <3>1, OtherProcessClean
  <2>2. CASE proc'[p] # proc[p]
    BY <1>1, <2>2, OwnProcessClean
  <2>3. QED
    BY <2>1, <2>2
<1>2. QED
  BY <1>1 DEF CleanRunOwned, CleanCall

\* A process whose run is the active one, and whose results are all clean, still
\* works under the lease it started from.
THEOREM CleanRunOwnedAlways == Spec => []CleanRunOwned
<1>1. Init => CleanRunOwned
  BY DEF Init, CleanRunOwned
<1>2. QED
  BY <1>1, CleanRunOwnedStep, TypeCorrect, RunMatchesStateAlways, PTL DEF Spec

\* Only the end of a run makes a task VERIFYING, and only one with clean results.
LEMMA VerdictStep ==
  ASSUME TypeOK, CleanRunOwned, [Next]_vars,
         NEW t \in Tasks, state[t] # "VERIFYING", state'[t] = "VERIFYING"
  PROVE  \E p \in Procs, l \in LeaseIds :
           /\ proc[p] # None /\ proc[p].task = t /\ proc[p].lease = l
           /\ Held(l, t) /\ lease[l].agent = proc[p].agent
<1>1. PICK p \in Procs : \E passed \in BOOLEAN : Finish(p, passed) /\ state' # state
  <2>1. CASE OwnerStep
    BY <2>1 DEF OwnerStep, Status, SweptState, Ready, ResolveBlocker, Transition,
                CreateWorkspace, Invalidate, TypeOK
  <2>2. CASE AgentStep
    BY <2>2 DEF AgentStep, Claim, SweptState, Heartbeat, Release, Checkpoint, Complete,
                TypeOK, taskVars
  <2>3. CASE VerifyStep
    <3>1. ASSUME NEW p \in Procs, Begin(p)
          PROVE  FALSE
      BY <3>1 DEF Begin, TypeOK
    <3>2. QED
      BY <2>3, <3>1 DEF VerifyStep, Preflight, Refused, Record, Crash, taskVars
  <2>4. QED
    BY <2>1, <2>2, <2>3 DEF Next, Tick, AgentStops, vars, taskVars
<1>2. PICK passed \in BOOLEAN : Finish(p, passed)
  BY <1>1
<1> DEFINE u == proc[p].task
<1>3. /\ proc[p] # None /\ proc[p].pc = "running"
      /\ passed => proc[p].results = "clean"
      /\ run[u] # None /\ run[u].id = proc[p].run
      /\ state' = [state EXCEPT ![u] = IF passed THEN "VERIFYING" ELSE "FAILED"]
  BY <1>1, <1>2 DEF Finish, StillActive
<1>4. u = t /\ passed
  BY <1>3 DEF TypeOK
<1>5. proc[p].lease \in LeaseIds
  BY <1>3 DEF TypeOK, VerifyCall
<1>6. lease[proc[p].lease] # None
  BY <1>3, <1>4 DEF CleanRunOwned
<1>7. Held(proc[p].lease, t) /\ lease[proc[p].lease].agent = proc[p].agent
  BY <1>3, <1>4, <1>6 DEF CleanRunOwned, Held
<1>8. QED
  BY <1>3, <1>4, <1>5, <1>7

\* A task becomes VERIFYING only on the word of a run under its owner's lease.
THEOREM VerdictUnderLeaseAlways == Spec => VerdictUnderLease
<1>1. TypeOK /\ CleanRunOwned /\ [Next]_vars =>
        [\A t \in Tasks :
           state[t] # "VERIFYING" /\ state'[t] = "VERIFYING" =>
             \E p \in Procs, l \in LeaseIds :
               /\ proc[p] # None /\ proc[p].task = t /\ proc[p].lease = l
               /\ Held(l, t) /\ lease[l].agent = proc[p].agent]_vars
  BY VerdictStep
<1>2. QED
  BY <1>1, TypeCorrect, CleanRunOwnedAlways, PTL DEF Spec, VerdictUnderLease

-----------------------------------------------------------------------------
\* The retry budget

\* The calls armed for a task are among the processes.
LEMMA ArmedFinite ==
  ASSUME NEW t \in Tasks
  PROVE  /\ IsFiniteSet(Armed(t)) /\ Cardinality(Armed(t)) \in Nat
         /\ Cardinality(Procs) \in Nat /\ Cardinality(Armed(t)) <= Cardinality(Procs)
<1>1. Armed(t) \subseteq Procs /\ IsFiniteSet(Procs)
  BY ConstantsAssumption DEF Armed
<1>2. QED
  BY <1>1, FS_Subset, FS_CardinalityType

\* A step that arms no call and begins no run leaves at most the calls armed before.
LEMMA ArmedSteps ==
  ASSUME TypeOK, [Next]_vars, NEW t \in Tasks,
         ~(\E p \in Procs : Begin(p)),
         ~(\E p \in Procs, u \in Tasks, a \in Agents, selected \in 1..MaxVerifiers :
             Preflight(p, u, a, selected))
  PROVE  Armed(t)' \subseteq Armed(t) /\ attempts' = attempts
<1>1. CASE UNCHANGED <<proc, attempts>>
  BY <1>1 DEF Armed
<1>2. CASE OwnerStep
  BY <1>1, <1>2 DEF OwnerStep, Status, Ready, ResolveBlocker, Transition, CreateWorkspace,
                    Invalidate
<1>3. CASE AgentStep
  BY <1>1, <1>3 DEF AgentStep, Claim, Heartbeat, Release, Checkpoint, Complete, taskVars
<1>4. CASE VerifyStep
  <2>1. ASSUME NEW p \in Procs, NEW cost \in 0..MaxCharge, NEW clean \in BOOLEAN,
               Record(p, cost, clean)
        PROVE  Armed(t)' \subseteq Armed(t) /\ attempts' = attempts
    <3>1. PICK s \in {"spoilt", "clean"} :
            proc' = [proc EXCEPT ![p].todo = @ - 1, ![p].used = @ + cost, ![p].results = s]
      BY <2>1 DEF Record
    <3>2. proc[p].pc = "running" /\ proc[p] \in VerifyCall /\ attempts' = attempts
      BY <2>1 DEF Record, TypeOK, taskVars
    <3>3. proc'[p].pc = "running"
      BY <3>1, <3>2 DEF TypeOK, VerifyCall
    <3>4. \A q \in Procs : q # p => proc'[q] = proc[q]
      BY <3>1 DEF TypeOK
    <3>5. QED
      BY <3>2, <3>3, <3>4 DEF Armed
  <2>2. ASSUME NEW p \in Procs, proc' = [proc EXCEPT ![p] = None], attempts' = attempts
        PROVE  Armed(t)' \subseteq Armed(t) /\ attempts' = attempts
    BY <2>2 DEF Armed, TypeOK
  <2>3. QED
    BY <1>4, <2>1, <2>2 DEF VerifyStep, Refused, Finish, Crash, taskVars
<1>5. QED
  BY <1>1, <1>2, <1>3, <1>4 DEF Next, Tick, AgentStops, vars, taskVars

\* A run spends one armed call for one attempt; a call is armed within the budget.
LEMMA AttemptsBoundedStep ==
  ASSUME TypeOK, AttemptsBounded, [Next]_vars
  PROVE  AttemptsBounded'
<1> SUFFICES ASSUME NEW t \in Tasks
             PROVE  attempts'[t] + Cardinality(Armed(t)') <= MaxRetries + Cardinality(Procs)
  BY DEF AttemptsBounded
<1> DEFINE Before == Cardinality(Armed(t))
           After == Cardinality(Armed(t)')
<1>1. /\ attempts[t] \in Nat /\ MaxRetries \in Nat /\ Cardinality(Procs) \in Nat
      /\ IsFiniteSet(Armed(t)) /\ Before \in Nat /\ Before <= Cardinality(Procs)
      /\ attempts[t] + Before <= MaxRetries + Cardinality(Procs)
  BY ArmedFinite, ConstantsAssumption DEF TypeOK, AttemptsBounded
<1>2. After \in Nat /\ After <= Cardinality(Procs)
  <2>1. Armed(t)' \subseteq Procs /\ IsFiniteSet(Procs)
    BY ConstantsAssumption DEF Armed
  <2>2. QED
    BY <2>1, FS_Subset, FS_CardinalityType
<1>3. ASSUME Armed(t)' \subseteq Armed(t)
      PROVE  After <= Before
  BY <1>1, <1>3, FS_Subset
<1>4. ASSUME NEW p \in Procs, Begin(p)
      PROVE  attempts'[t] + After <= MaxRetries + Cardinality(Procs)
  <2> DEFINE u == proc[p].task
  <2>1. /\ proc[p] # None /\ proc[p].pc = "armed"
        /\ proc' = [proc EXCEPT ![p].pc = "running", ![p].run = attempts[u] + 1]
        /\ attempts' = [attempts EXCEPT ![u] = attempts[u] + 1]
    BY <1>4 DEF Begin, CanBegin
  <2>2. proc[p] \in VerifyCall /\ proc'[p].pc = "running"
    BY <2>1 DEF TypeOK, VerifyCall
  <2>3. \A q \in Procs : q # p => proc'[q] = proc[q]
    BY <2>1 DEF TypeOK
  <2>4. Armed(t)' \subseteq Armed(t) \ {p}
    BY <2>2, <2>3 DEF Armed
  <2>5. CASE u = t
    <3>1. p \in Armed(t)
      BY <2>1, <2>5 DEF Armed
    <3>2. /\ IsFiniteSet(Armed(t) \ {p})
          /\ Cardinality(Armed(t) \ {p}) = Before - 1
      BY <1>1, <3>1, FS_RemoveElement
    <3>3. After <= Before - 1
      BY <2>4, <3>2, FS_Subset
    <3>4. attempts'[t] = attempts[t] + 1
      BY <2>1, <2>5 DEF TypeOK
    <3>5. QED
      BY <1>1, <1>2, <3>3, <3>4
  <2>6. CASE u # t
    <3>1. attempts'[t] = attempts[t] /\ After <= Before
      BY <1>3, <2>1, <2>4, <2>6 DEF TypeOK
    <3>2. QED
      BY <1>1, <1>2, <3>1
  <2>7. QED
    BY <2>5, <2>6
<1>5. ASSUME NEW p \in Procs, NEW u \in Tasks, NEW a \in Agents,
             NEW selected \in 1..MaxVerifiers, Preflight(p, u, a, selected)
      PROVE  attempts'[t] + After <= MaxRetries + Cardinality(Procs)
  <2>1. attempts' = attempts /\ attempts[u] <= MaxRetries
    BY <1>5 DEF Preflight, WithinRetries, taskVars
  <2>2. CASE u = t
    BY <1>1, <1>2, <2>1, <2>2
  <2>3. CASE u # t
    <3>1. Armed(t)' \subseteq Armed(t)
      BY <1>5, <2>3 DEF Preflight, Armed, TypeOK
    <3>2. QED
      BY <1>1, <1>2, <1>3, <2>1, <3>1
  <2>4. QED
    BY <2>2, <2>3
<1>6. QED
  BY <1>1, <1>2, <1>3, <1>4, <1>5, ArmedSteps

\* However verify processes race past the check made before their transaction, runs
\* exceed the retry budget by less than the number of processes.
THEOREM AttemptsBoundedAlways == Spec => []AttemptsBounded
<1>1. Init => AttemptsBounded
  <2> SUFFICES ASSUME Init, NEW t \in Tasks
               PROVE  attempts[t] + Cardinality(Armed(t)) <= MaxRetries + Cardinality(Procs)
    BY DEF AttemptsBounded
  <2>1. attempts[t] = 0
    BY DEF Init
  <2>2. QED
    BY <2>1, ArmedFinite, ConstantsAssumption
<1>2. QED
  BY <1>1, AttemptsBoundedStep, TypeCorrect, PTL DEF Spec
=============================================================================
