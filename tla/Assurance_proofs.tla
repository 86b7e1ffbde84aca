-------------------------- MODULE Assurance_proofs --------------------------
(***************************************************************************)
(* Theorems about Assurance, for any claims, files, verifiers and bounds;  *)
(* and those of Integration, stated of what a completion rests on.         *)
(***************************************************************************)
EXTENDS Completion, TLAPS

-----------------------------------------------------------------------------
\* Types

\* What kind of call a process executes is told by its op.
LEMMA CallKinds ==
  ASSUME TypeOK, NEW p \in Procs, ~Idle(p)
  PROVE  /\ call[p].op = "run" => call[p] \in Run
         /\ call[p].op = "escalate" => call[p] \in Escalation
         /\ call[p].op = "waive" => call[p] \in Waiver
         /\ call[p].op = "complete" => call[p] \in Completion
<1>1. call[p] \in Calls
  BY DEF TypeOK, Idle
<1>2. CASE call[p] \in Run
  BY <1>2 DEF Run
<1>3. CASE call[p] \in Escalation
  BY <1>3 DEF Escalation
<1>4. CASE call[p] \in Waiver
  BY <1>4 DEF Waiver
<1>5. CASE call[p] \in Completion
  BY <1>5 DEF Completion
<1>6. QED
  BY <1>1, <1>2, <1>3, <1>4, <1>5 DEF Calls

\* The binding of a recorded claim is a binding.
LEMMA BindingType ==
  ASSUME TypeOK, NEW c \in Claims, obligation[c] # None
  PROVE  Binding(c) \in Bindings
<1>1. obligation[c] \in Obligation
  BY DEF TypeOK
<1>2. obligation[c].paths \in SUBSET Files /\ obligation[c].required \in SUBSET Verifiers
  BY <1>1 DEF Obligation
<1>3. [f \in obligation[c].paths |-> content[f]] \in [obligation[c].paths -> Contents]
  BY <1>2 DEF TypeOK
<1>4. [f \in obligation[c].paths |-> content[f]]
        \in UNION {[fs -> Contents] : fs \in SUBSET Files}
  BY <1>2, <1>3
<1>5. policy \in 0..MaxPolicy
  BY DEF TypeOK
<1>6. QED
  BY <1>2, <1>4, <1>5 DEF Binding, Bindings

\* The binding of the task is one.
LEMMA TaskBindingType ==
  ASSUME TypeOK
  PROVE  TaskBinding \in TaskBindings
  BY DEF TypeOK, TaskBinding, TaskBindings

\* The depth the planner gives a claim is a level.
LEMMA DepthType ==
  ASSUME TypeOK, NEW c \in Claims
  PROVE  Depth(c) \in 1..Deepest /\ Floor(c) \in 1..Deepest
<1>1. Floor(c) \in 1..Deepest
  BY AssuranceAssumption DEF TypeOK, Obligation, Floor
<1>2. CASE c \in HumanOnly
  BY <1>1, <1>2, AssuranceAssumption DEF Depth
<1>3. CASE c \notin HumanOnly /\ (c \in Contractual \/ Route(c) = {})
  BY <1>1, <1>3 DEF Depth
<1>4. CASE c \notin HumanOnly /\ ~(c \in Contractual \/ Route(c) = {})
  <2>1. Route(c) \subseteq Specs /\ Route(c) # {}
    BY <1>4, AssuranceAssumption DEF Route, Cheapest, Candidates
  <2>2. \E n \in 1..Deepest : \E s \in Route(c) : Level[s] = n
    BY <2>1, AssuranceAssumption
  <2>3. Depth(c) = CHOOSE n \in 1..Deepest : \E s \in Route(c) : Level[s] = n
    BY <1>4 DEF Depth
  <2>4. QED
    BY <1>1, <2>2, <2>3
<1>5. QED
  BY <1>2, <1>3, <1>4

\* What a compilation proposes for a claim is a record.
LEMMA CandidateType ==
  ASSUME TypeOK, NEW c \in Claims, NEW phase
  PROVE  Candidate(c, phase) \in Obligation
<1>1. AffectedPaths(c, phase) \in SUBSET Files
  BY AssuranceAssumption DEF AffectedPaths, Changed
<1>2. Route(c) \in SUBSET Verifiers
  BY AssuranceAssumption DEF Route, Cheapest, Candidates, Verifiers
<1>3. QED
  BY <1>1, <1>2, DepthType DEF Candidate, Obligation

\* A compilation leaves records of claims.
LEMMA CompiledType ==
  ASSUME TypeOK, NEW phase
  PROVE  Compiled(phase) \in [Claims -> Obligation \cup {None}]
<1>1. SUFFICES ASSUME NEW c \in Claims
               PROVE  Compiled(phase)[c] \in Obligation \cup {None}
  BY DEF Compiled
<1>2. Candidate(c, phase) \in Obligation
  BY CandidateType
<1>3. obligation[c] \in Obligation \cup {None}
  BY DEF TypeOK
<1>4. obligation[c] # None => Monotonic(obligation[c], Candidate(c, phase)) \in Obligation
  BY <1>2, <1>3 DEF Monotonic, Obligation
<1>5. QED
  BY <1>2, <1>3, <1>4 DEF Compiled

\* The claims an escalation will raise are recorded.
RaisesRecorded ==
  \A p \in Procs : ~Idle(p) /\ call[p].op = "escalate" => call[p].claims \subseteq Recorded

\* A call that ends leaves the other calls as they were.
LEMMA EndsType ==
  ASSUME TypeOK, RaisesRecorded, NEW p \in Procs, Ends(p),
         \A c \in Claims : obligation[c] # None => obligation'[c] # None
  PROVE  call' \in [Procs -> Calls \cup {None}] /\ RaisesRecorded'
<1>1. call' \in [Procs -> Calls \cup {None}]
  BY DEF TypeOK, Ends
<1>2. \A q \in Procs : call'[q] # None => call'[q] = call[q]
  BY DEF TypeOK, Ends
<1>3. QED
  BY <1>1, <1>2 DEF RaisesRecorded, Idle, Recorded

\* Starting a call, or changing one that raises no claims.
LEMMA CallsType ==
  ASSUME TypeOK, RaisesRecorded, NEW p \in Procs, NEW new \in Calls,
         new.op # "escalate", call' = [call EXCEPT ![p] = new],
         \A c \in Claims : obligation[c] # None => obligation'[c] # None
  PROVE  call' \in [Procs -> Calls \cup {None}] /\ RaisesRecorded'
<1>1. call' \in [Procs -> Calls \cup {None}]
  BY DEF TypeOK
<1>2. \A q \in Procs : call'[q] = IF q = p THEN new ELSE call[q]
  BY DEF TypeOK
<1>3. QED
  BY <1>1, <1>2 DEF RaisesRecorded, Idle, Recorded

\* Until its verifiers end, a call to verify is a run.
LEMMA RunStep ==
  ASSUME TypeOK, NEW p \in Procs,
         \/ BindRun(p)
         \/ StampRun(p)
         \/ \E specs \in (SUBSET Specs) \ {{}} : StartRun(p, specs)
         \/ MeasureRun(p)
  PROVE  \E new \in Run : call' = [call EXCEPT ![p] = new]
<1>1. TaskBinding \in TaskBindings
  BY TaskBindingType
<1>2. CASE BindRun(p)
  <2> DEFINE new == [op |-> "run", pc |-> "bound", todo |-> {}, clean |-> TRUE,
                     stamp |-> [c \in Claims |-> None], before |-> TaskBinding,
                     after |-> TaskBinding]
  <2>1. new \in Run
    BY <1>1 DEF Run
  <2>2. call' = [call EXCEPT ![p] = new]
    BY <1>2 DEF BindRun
  <2>3. QED
    BY <2>1, <2>2
<1>3. CASE StampRun(p)
  <2> DEFINE stamp == [c \in Claims |-> IF obligation[c] = None THEN None ELSE Binding(c)]
             new == [call[p] EXCEPT !.pc = "stamped", !.stamp = stamp]
  <2>1. stamp \in [Claims -> Bindings \cup {None}]
    BY BindingType
  <2>2. call[p] \in Run
    BY <1>3, CallKinds DEF StampRun, InRun
  <2>3. call' = [call EXCEPT ![p] = new]
    BY <1>3 DEF StampRun, TypeOK
  <2> HIDE DEF stamp
  <2>4. new \in Run
    BY <2>1, <2>2 DEF Run
  <2>5. QED
    BY <2>3, <2>4
<1>4. ASSUME NEW specs \in SUBSET Specs, StartRun(p, specs)
      PROVE  \E new \in Run : call' = [call EXCEPT ![p] = new]
  <2> DEFINE new == [call[p] EXCEPT !.pc = "running", !.todo = specs]
  <2>1. call[p] \in Run
    BY <1>4, CallKinds DEF StartRun, InRun
  <2>2. new \in Run
    BY <2>1 DEF Run
  <2>3. call' = [call EXCEPT ![p] = new]
    BY <1>4 DEF StartRun, TypeOK
  <2>4. QED
    BY <2>2, <2>3
<1>5. CASE MeasureRun(p)
  <2> DEFINE new == [call[p] EXCEPT !.pc = "measured", !.after = TaskBinding]
  <2>1. call[p] \in Run
    BY <1>5, CallKinds DEF MeasureRun, InRun
  <2>2. new \in Run
    BY <1>1, <2>1 DEF Run
  <2>3. call' = [call EXCEPT ![p] = new]
    BY <1>5 DEF MeasureRun, TypeOK
  <2>4. QED
    BY <2>2, <2>3
<1>6. QED
  BY <1>2, <1>3, <1>4, <1>5

\* No step loses a type, and the claims an escalation will raise stay recorded.
LEMMA TypeStep ==
  ASSUME TypeOK, RaisesRecorded, [Next]_vars
  PROVE  TypeOK' /\ RaisesRecorded'
<1>1. ASSUME NEW phase, CompilePlan(phase)
      PROVE  TypeOK' /\ RaisesRecorded'
  <2>1. \A c \in Claims : obligation[c] # None => obligation'[c] # None
    BY <1>1, CandidateType, AbsentAssumption
       DEF CompilePlan, Compiled, Monotonic, TypeOK, Obligation
  <2>2. QED
    BY <1>1, <2>1, CompiledType DEF CompilePlan, TypeOK, RaisesRecorded, Recorded, Idle
<1>2. ASSUME NEW c \in Claims, NEW accepted \in BOOLEAN, ResolveHuman(c, accepted)
      PROVE  TypeOK' /\ RaisesRecorded'
  <2> DEFINE stamp == [d \in Claims |-> IF d = c THEN Binding(c) ELSE None]
             e == [verifier |-> Human, result |-> IF accepted THEN "PASS" ELSE "FAIL",
                   stamp |-> stamp, before |-> TaskBinding, after |-> TaskBinding]
  <2>1. Binding(c) \in Bindings
    BY <1>2, BindingType DEF ResolveHuman, Recorded
  <2>2. stamp \in [Claims -> Bindings \cup {None}]
    BY <2>1
  <2> HIDE DEF stamp
  <2>3. e \in Evidence
    BY <2>2, TaskBindingType DEF Evidence, Verifiers
  <2>4. evidence' = evidence \cup {e}
    BY <1>2 DEF ResolveHuman, stamp
  <2>5. evidence' \subseteq Evidence
    BY <2>3, <2>4 DEF TypeOK
  <2>6. QED
    BY <1>2, <2>5 DEF ResolveHuman, TypeOK, RaisesRecorded, Recorded, Idle
<1>3. ASSUME Invalidate
      PROVE  TypeOK' /\ RaisesRecorded'
  <2>1. latest' \in [Specs -> Latest \cup {None}]
    BY <1>3 DEF Invalidate, Marked, TypeOK, Latest, Stale
  <2>2. QED
    BY <1>3, <2>1 DEF Invalidate, TypeOK, RaisesRecorded, Recorded, Idle
<1>4. CASE Reclaim
  BY <1>4 DEF Reclaim, TypeOK, RaisesRecorded, Recorded, Idle
<1>5. ASSUME NEW f \in Files, NEW data \in Contents, Edit(f, data)
      PROVE  TypeOK' /\ RaisesRecorded'
  BY <1>5 DEF Edit, TypeOK, RaisesRecorded, Recorded, Idle
<1>6. CASE ChangePolicy
  BY <1>6, AssuranceAssumption DEF ChangePolicy, TypeOK, RaisesRecorded, Recorded, Idle
<1>7. ASSUME NEW p \in Procs,
             \/ BindRun(p)
             \/ StampRun(p)
             \/ \E specs \in (SUBSET Specs) \ {{}} : StartRun(p, specs)
             \/ MeasureRun(p)
      PROVE  TypeOK' /\ RaisesRecorded'
  <2>1. PICK new \in Run : call' = [call EXCEPT ![p] = new]
    BY <1>7, RunStep
  <2>2. new \in Calls /\ new.op # "escalate"
    BY DEF Run, Calls
  <2>3. /\ UNCHANGED <<content, policy, obligation, evidence, latest>>
        /\ state' \in {state, "RUNNING"}
    BY <1>7 DEF BindRun, StampRun, StartRun, MeasureRun
  <2>4. call' \in [Procs -> Calls \cup {None}] /\ RaisesRecorded'
    BY <2>1, <2>2, <2>3, CallsType
  <2>5. QED
    BY <2>3, <2>4 DEF TypeOK
<1>8. ASSUME NEW p \in Procs, NEW s \in Specs, NEW result \in {"PASS", "FAIL", "BLOCKED"},
             RecordEvidence(p, s, result)
      PROVE  TypeOK' /\ RaisesRecorded'
  <2> DEFINE stamp == [c \in Claims |->
                IF call[p].stamp[c] # None /\ s \in call[p].stamp[c].required
                THEN call[p].stamp[c] ELSE None]
             e == [verifier |-> s, result |-> result, stamp |-> stamp,
                   before |-> call[p].before, after |-> call[p].after]
             new == [call[p] EXCEPT !.pc = "running", !.todo = @ \ {s},
                       !.clean = @ /\ result = "PASS" /\ Consistent(e)]
  <2>1. call[p] \in Run
    BY <1>8, CallKinds DEF RecordEvidence, InRun
  <2>2. stamp \in [Claims -> Bindings \cup {None}]
    BY <2>1 DEF Run
  <2>3. e \in Evidence
    BY <2>1, <2>2 DEF Run, Evidence, Verifiers
  <2>4. evidence' \subseteq Evidence
    BY <1>8, <2>3 DEF RecordEvidence, TypeOK
  <2>5. latest' \in [Specs -> Latest \cup {None}]
    <3>1. latest' = [latest EXCEPT ![s] =
             [result |-> result, before |-> e.before, stale |-> ~Consistent(e)]]
      BY <1>8 DEF RecordEvidence
    <3>2. [result |-> result, before |-> e.before, stale |-> ~Consistent(e)] \in Latest
      BY <2>1 DEF Run, Latest, Consistent
    <3>3. QED
      BY <3>1, <3>2 DEF TypeOK
  <2>6. new \in Run
    <3>1. Consistent(e) \in BOOLEAN
      BY DEF Consistent
    <3>2. QED
      BY <2>1, <3>1 DEF Run
  <2>7. new \in Calls /\ new.op # "escalate"
    BY <2>6 DEF Run, Calls
  <2>8. call' = [call EXCEPT ![p] = new]
    BY <1>8 DEF RecordEvidence, TypeOK
  <2>9. obligation' = obligation
    BY <1>8 DEF RecordEvidence
  <2> HIDE DEF new
  <2>10. call' \in [Procs -> Calls \cup {None}] /\ RaisesRecorded'
    BY <2>7, <2>8, <2>9, CallsType
  <2>11. QED
    BY <1>8, <2>4, <2>5, <2>10 DEF RecordEvidence, TypeOK
<1>9. ASSUME NEW p \in Procs, NEW passed \in BOOLEAN, FinishRun(p, passed)
      PROVE  TypeOK' /\ RaisesRecorded'
  <2>1. call' \in [Procs -> Calls \cup {None}] /\ RaisesRecorded'
    BY <1>9, EndsType DEF FinishRun
  <2>2. QED
    BY <1>9, <2>1 DEF FinishRun, TypeOK
<1>10. ASSUME NEW p \in Procs, StartEscalate(p)
       PROVE  TypeOK' /\ RaisesRecorded'
  <2>1. PICK silent \in SUBSET Recorded :
          call' = [call EXCEPT ![p] = [op |-> "escalate", claims |-> silent]]
    BY <1>10 DEF StartEscalate, Debt
  <2>2. [op |-> "escalate", claims |-> silent] \in Calls
    BY DEF Calls, Escalation, Recorded
  <2>3. call' \in [Procs -> Calls \cup {None}]
    BY <2>1, <2>2 DEF TypeOK
  <2>4. RaisesRecorded'
    BY <1>10, <2>1 DEF StartEscalate, RaisesRecorded, Recorded, Idle, TypeOK
  <2>5. QED
    BY <1>10, <2>3, <2>4 DEF StartEscalate, TypeOK
<1>11. ASSUME NEW p \in Procs, Escalate(p)
       PROVE  TypeOK' /\ RaisesRecorded'
  <2>1. call[p].claims \subseteq Recorded
    BY <1>11 DEF Escalate, RaisesRecorded
  <2>2. \A c \in Claims : /\ obligation'[c] \in Obligation \cup {None}
                          /\ obligation[c] # None => obligation'[c] # None
    <3>1. SUFFICES ASSUME NEW c \in Claims
                   PROVE  /\ obligation'[c] \in Obligation \cup {None}
                          /\ obligation[c] # None => obligation'[c] # None
      OBVIOUS
    <3>2. CASE c \in call[p].claims /\ CanDeepen(c)
      <4>1. obligation[c] \in Obligation
        BY <2>1, <3>2 DEF TypeOK, Recorded
      <4>2. obligation'[c] = [obligation[c] EXCEPT !.floor = @ + 1]
        BY <1>11, <3>2 DEF Escalate
      <4>3. obligation'[c] \in Obligation
        BY <3>2, <4>1, <4>2, AssuranceAssumption DEF Obligation, CanDeepen
      <4>4. QED
        BY <4>3, AbsentAssumption
    <3>3. CASE ~(c \in call[p].claims /\ CanDeepen(c))
      BY <1>11, <3>3 DEF Escalate, TypeOK
    <3>4. QED
      BY <3>2, <3>3
  <2>3. obligation' \in [Claims -> Obligation \cup {None}]
    BY <1>11, <2>2 DEF Escalate
  <2>4. call' \in [Procs -> Calls \cup {None}] /\ RaisesRecorded'
    BY <1>11, <2>2, EndsType DEF Escalate
  <2>5. QED
    BY <1>11, <2>3, <2>4 DEF Escalate, TypeOK
<1>12. ASSUME NEW p \in Procs, NEW c \in Claims, StartWaive(p, c)
       PROVE  TypeOK' /\ RaisesRecorded'
  <2> DEFINE new == [op |-> "waive", claim |-> c, read |-> obligation[c]]
  <2>1. obligation[c] \in Obligation
    BY <1>12 DEF StartWaive, Recorded, TypeOK
  <2>2. new \in Calls /\ new.op # "escalate"
    BY <2>1 DEF Calls, Waiver
  <2>3. call' = [call EXCEPT ![p] = new] /\ obligation' = obligation
    BY <1>12 DEF StartWaive
  <2> HIDE DEF new
  <2>4. call' \in [Procs -> Calls \cup {None}] /\ RaisesRecorded'
    BY <2>2, <2>3, CallsType
  <2>5. QED
    BY <1>12, <2>4 DEF StartWaive, TypeOK
<1>13. ASSUME NEW p \in Procs, Waive(p)
       PROVE  TypeOK' /\ RaisesRecorded'
  <2>1. call[p] \in Waiver
    BY <1>13, CallKinds DEF Waive
  <2>2. [call[p].read EXCEPT !.waived = TRUE] \in Obligation
    BY <2>1 DEF Waiver, Obligation
  <2>3. /\ obligation' \in [Claims -> Obligation \cup {None}]
        /\ \A c \in Claims : obligation[c] # None => obligation'[c] # None
    BY <1>13, <2>2, AbsentAssumption DEF Waive, TypeOK
  <2>4. call' \in [Procs -> Calls \cup {None}] /\ RaisesRecorded'
    BY <1>13, <2>3, EndsType DEF Waive
  <2>5. QED
    BY <1>13, <2>3, <2>4 DEF Waive, TypeOK
<1>14. ASSUME NEW p \in Procs, StartComplete(p)
       PROVE  TypeOK' /\ RaisesRecorded'
  <2> DEFINE new == [op |-> "complete", pc |-> "compiled"]
  <2>1. new \in Calls /\ new.op # "escalate"
    BY DEF Calls, Completion
  <2>2. \A c \in Claims : obligation[c] # None => obligation'[c] # None
    BY <1>14, CandidateType, AbsentAssumption
       DEF StartComplete, Compiled, Monotonic, TypeOK, Obligation
  <2>3. call' = [call EXCEPT ![p] = new]
    BY <1>14 DEF StartComplete
  <2> HIDE DEF new
  <2>4. call' \in [Procs -> Calls \cup {None}] /\ RaisesRecorded'
    BY <2>1, <2>2, <2>3, CallsType
  <2>5. QED
    BY <1>14, <2>4, CompiledType DEF StartComplete, TypeOK
<1>15. ASSUME NEW p \in Procs, PassGate(p)
       PROVE  TypeOK' /\ RaisesRecorded'
  <2> DEFINE new == [call[p] EXCEPT !.pc = "gated"]
  <2>1. call[p] \in Completion
    BY <1>15, CallKinds DEF PassGate
  <2>2. new \in Completion
    BY <2>1 DEF Completion
  <2>3. new \in Calls /\ new.op # "escalate"
    BY <2>2 DEF Completion, Calls
  <2>4. call' = [call EXCEPT ![p] = new] /\ obligation' = obligation
    BY <1>15 DEF PassGate
  <2> HIDE DEF new
  <2>5. call' \in [Procs -> Calls \cup {None}] /\ RaisesRecorded'
    BY <2>3, <2>4, CallsType
  <2>6. QED
    BY <1>15, <2>5 DEF PassGate, TypeOK
<1>16. ASSUME NEW p \in Procs, Complete(p)
       PROVE  TypeOK' /\ RaisesRecorded'
  <2>1. call' \in [Procs -> Calls \cup {None}] /\ RaisesRecorded'
    BY <1>16, EndsType DEF Complete
  <2>2. QED
    BY <1>16, <2>1 DEF Complete, TypeOK
<1>17. ASSUME NEW p \in Procs, GiveUp(p)
       PROVE  TypeOK' /\ RaisesRecorded'
  <2>1. call' \in [Procs -> Calls \cup {None}] /\ RaisesRecorded'
    BY <1>17, EndsType DEF GiveUp
  <2>2. QED
    BY <1>17, <2>1 DEF GiveUp, TypeOK
<1>18. CASE UNCHANGED vars
  BY <1>18 DEF vars, TypeOK, RaisesRecorded, Recorded, Idle
<1>19. QED
  BY <1>1, <1>2, <1>3, <1>4, <1>5, <1>6, <1>7, <1>8, <1>9, <1>10, <1>11, <1>12,
     <1>13, <1>14, <1>15, <1>16, <1>17, <1>18 DEF Next

\* The first states have their types.
LEMMA InitialTypes ==
  ASSUME Init
  PROVE  TypeOK /\ RaisesRecorded
  BY AssuranceAssumption DEF Init, TypeOK, RaisesRecorded, Idle

\* Every variable keeps its type: no escalation goes past the deepest level, whatever
\* a call found before its transaction.
THEOREM AssuranceTypes == Spec => []TypeOK
<1>1. Init => TypeOK /\ RaisesRecorded
  BY InitialTypes
<1>2. QED
  BY <1>1, TypeStep, PTL DEF Spec

-----------------------------------------------------------------------------
\* Obligations only widen

\* What one record may become.
Widens(old, new) ==
  /\ new # None
  /\ old.enforced => new.enforced
  /\ old.waived => new.waived
  /\ old.paths \subseteq new.paths
  /\ old.floor <= new.floor

\* A recompilation widens the records it finds.
LEMMA CompiledWidens ==
  ASSUME TypeOK, NEW c \in Recorded, NEW phase, obligation' = Compiled(phase)
  PROVE  Widens(obligation[c], obligation'[c])
<1>1. c \in Claims /\ obligation[c] \in Obligation
  BY DEF Recorded, TypeOK
<1>2. Candidate(c, phase) \in Obligation
  BY <1>1, CandidateType
<1>3. CASE c \notin Raised(phase)
  <2>1. obligation'[c] = obligation[c]
    BY <1>1, <1>3 DEF Compiled
  <2>2. QED
    BY <1>1, <2>1, AbsentAssumption DEF Widens, Obligation
<1>4. CASE c \in Raised(phase)
  <2>1. obligation'[c] = Monotonic(obligation[c], Candidate(c, phase))
    BY <1>1, <1>4 DEF Compiled, Recorded
  <2>2. obligation'[c] \in Obligation
    BY <1>1, <1>2, <2>1 DEF Monotonic, Obligation
  <2>3. obligation'[c] # None
    BY <2>2, AbsentAssumption
  <2>4. QED
    BY <1>1, <1>2, <2>1, <2>3 DEF Widens, Monotonic, Obligation
<1>5. QED
  BY <1>3, <1>4

\* A record of a claim is written by a compilation, an escalation or a waiver only.
LEMMA WritesOfRecords ==
  ASSUME [Next]_vars
  PROVE  \/ obligation' = obligation
         \/ \E phase : obligation' = Compiled(phase)
         \/ \E p \in Procs : Escalate(p) \/ Waive(p)
<1>1. ASSUME NEW p \in Procs,
             \/ BindRun(p)
             \/ StampRun(p)
             \/ \E specs \in (SUBSET Specs) \ {{}} : StartRun(p, specs)
             \/ MeasureRun(p)
             \/ \E s \in Specs, result \in {"PASS", "FAIL", "BLOCKED"} :
                  RecordEvidence(p, s, result)
             \/ \E passed \in BOOLEAN : FinishRun(p, passed)
             \/ StartEscalate(p)
             \/ \E d \in Claims : StartWaive(p, d)
             \/ PassGate(p)
             \/ Complete(p)
             \/ GiveUp(p)
      PROVE  obligation' = obligation
  BY <1>1 DEF BindRun, StampRun, StartRun, MeasureRun, RecordEvidence, FinishRun, StartEscalate, StartWaive, PassGate,
         Complete, GiveUp
<1>2. ASSUME \/ \E d \in Claims, accepted \in BOOLEAN : ResolveHuman(d, accepted)
             \/ Invalidate
             \/ Reclaim
             \/ \E f \in Files, data \in Contents : Edit(f, data)
             \/ ChangePolicy
             \/ UNCHANGED vars
      PROVE  obligation' = obligation
  BY <1>2 DEF ResolveHuman, Invalidate, Reclaim, Edit, ChangePolicy, vars
<1>3. CASE \E phase \in {"INITIAL", "RECONCILED"} : CompilePlan(phase)
  BY <1>3 DEF CompilePlan
<1>4. CASE \E p \in Procs : StartComplete(p)
  BY <1>4 DEF StartComplete
<1>5. QED
  BY <1>1, <1>2, <1>3, <1>4 DEF Next

\* Every step widens every record: an escalation deepens by one, a waiver writes the
\* record it read only if it is still there, and nothing else writes.
LEMMA StepWidens ==
  ASSUME TypeOK, [Next]_vars, NEW c \in Recorded
  PROVE  Widens(obligation[c], obligation'[c])
<1>1. c \in Claims /\ obligation[c] \in Obligation /\ obligation[c] # None
  BY DEF Recorded, TypeOK
<1>2. CASE obligation' = obligation
  BY <1>1, <1>2 DEF Widens, Obligation
<1>3. CASE \E phase : obligation' = Compiled(phase)
  BY <1>3, CompiledWidens
<1>4. ASSUME NEW p \in Procs, Escalate(p)
      PROVE  Widens(obligation[c], obligation'[c])
  <2>1. CASE c \in call[p].claims /\ CanDeepen(c)
    <3>1. obligation'[c] = [obligation[c] EXCEPT !.floor = @ + 1]
      BY <1>1, <1>4, <2>1 DEF Escalate
    <3>2. obligation'[c] \in Obligation
      BY <1>1, <2>1, <3>1, AssuranceAssumption DEF CanDeepen, Obligation
    <3>3. obligation'[c] # None
      BY <3>2, AbsentAssumption
    <3>4. QED
      BY <1>1, <3>1, <3>3, AssuranceAssumption DEF Widens, Obligation
  <2>2. CASE ~(c \in call[p].claims /\ CanDeepen(c))
    <3>1. obligation'[c] = obligation[c]
      BY <1>1, <1>4, <2>2 DEF Escalate
    <3>2. QED
      BY <1>1, <3>1 DEF Widens, Obligation
  <2>3. QED
    BY <2>1, <2>2
<1>5. ASSUME NEW p \in Procs, Waive(p)
      PROVE  Widens(obligation[c], obligation'[c])
  <2>1. CASE call[p].claim = c
    <3>1. obligation'[c] = [obligation[c] EXCEPT !.waived = TRUE]
      BY <1>1, <1>5, <2>1 DEF Waive, TypeOK
    <3>2. obligation'[c] \in Obligation
      BY <1>1, <3>1 DEF Obligation
    <3>3. obligation'[c] # None
      BY <3>2, AbsentAssumption
    <3>4. QED
      BY <1>1, <3>1, <3>3, AssuranceAssumption DEF Widens, Obligation
  <2>2. CASE call[p].claim # c
    <3>1. obligation'[c] = obligation[c]
      BY <1>1, <1>5, <2>2 DEF Waive, TypeOK
    <3>2. QED
      BY <1>1, <3>1 DEF Widens, Obligation
  <2>3. QED
    BY <2>1, <2>2
<1>6. QED
  BY <1>2, <1>3, <1>4, <1>5, WritesOfRecords

\* No step drops a claim, its enforcement, a path, its depth or its waiver.
THEOREM ObligationsOnlyWidenAlways == Spec => ObligationsOnlyWiden
<1>1. TypeOK /\ [Next]_vars =>
        [\A c \in Recorded :
           /\ obligation'[c] # None
           /\ obligation[c].enforced => obligation'[c].enforced
           /\ obligation[c].waived => obligation'[c].waived
           /\ obligation[c].paths \subseteq obligation'[c].paths
           /\ obligation[c].floor <= obligation'[c].floor]_vars
  BY StepWidens DEF Widens
<1>2. QED
  BY <1>1, AssuranceTypes, PTL DEF Spec, ObligationsOnlyWiden

-----------------------------------------------------------------------------
\* Routes only deepen

\* The route of a claim is the cheapest at some depth that its floor has reached.
Routed(c, o) ==
  IF c \in Contractual THEN o.required = Supplies[c]
  ELSE IF c \in HumanOnly THEN o.required = {Human}
  ELSE \E n \in 1..o.floor : o.required = Cheapest(c, n)

RoutesPlanned == \A c \in Recorded : Routed(c, obligation[c])

Deepens(old, new) == \A s \in old, t \in new : s \in Specs /\ t \in Specs /\ Level[s] < Level[t]

\* Planning again from a deeper floor gives the same route or deeper verifiers only.
LEMMA CheapestDeepens ==
  ASSUME NEW c \in Claims, NEW n \in 1..Deepest, NEW m \in 1..n,
         Cheapest(c, n) # Cheapest(c, m)
  PROVE  Deepens(Cheapest(c, m), Cheapest(c, n))
<1>1. /\ Supplies[c] \subseteq Specs
      /\ \A s \in Specs : Level[s] \in 1..Deepest /\ Rank[s] \in Nat
      /\ \A s, t \in Specs : Rank[s] <= Rank[t] => Level[s] <= Level[t]
  BY AssuranceAssumption
<1>2. Candidates(c, n) \subseteq Candidates(c, m)
  BY <1>1, AssuranceAssumption DEF Candidates
<1>3. \A s \in Cheapest(c, m) : Level[s] < n
  <2>1. SUFFICES ASSUME NEW s \in Cheapest(c, m), ~(Level[s] < n)
                 PROVE  FALSE
    OBVIOUS
  <2>2. s \in Specs /\ s \in Candidates(c, n)
    BY <1>1, <2>1, AssuranceAssumption DEF Cheapest, Candidates
  <2>3. s \in Cheapest(c, n)
    BY <1>2, <2>1, <2>2 DEF Cheapest
  <2>4. \A t \in Cheapest(c, m) : Rank[t] = Rank[s] /\ Level[t] = Level[s]
    BY <1>1, <2>1, <2>2 DEF Cheapest, Candidates
  <2>5. Cheapest(c, m) \subseteq Cheapest(c, n)
    BY <1>1, <1>2, <2>1, <2>2, <2>4, AssuranceAssumption DEF Cheapest, Candidates
  <2>6. Cheapest(c, n) \subseteq Cheapest(c, m)
    <3>1. SUFFICES ASSUME NEW t \in Cheapest(c, n)
                   PROVE  t \in Cheapest(c, m)
      OBVIOUS
    <3>2. t \in Specs /\ t \in Candidates(c, m) /\ Rank[t] <= Rank[s]
      BY <1>1, <1>2, <2>2 DEF Cheapest, Candidates
    <3>3. \A u \in Candidates(c, m) : u \in Specs /\ Rank[s] <= Rank[u]
      BY <1>1, <2>1 DEF Cheapest, Candidates
    <3>4. QED
      BY <1>1, <2>2, <3>2, <3>3 DEF Cheapest
  <2>7. QED
    BY <2>5, <2>6
<1>4. \A t \in Cheapest(c, n) : t \in Specs /\ n <= Level[t]
  BY <1>1, AssuranceAssumption DEF Cheapest, Candidates
<1>5. \A s \in Cheapest(c, m) : s \in Specs
  BY <1>1 DEF Cheapest, Candidates
<1>6. QED
  BY <1>1, <1>3, <1>4, <1>5, AssuranceAssumption DEF Deepens

\* A compilation plans every route it changes, and deeper.
LEMMA CompiledRoutes ==
  ASSUME TypeOK, RoutesPlanned, NEW c \in Claims, NEW phase, obligation' = Compiled(phase),
         obligation'[c] # None
  PROVE  /\ Routed(c, obligation'[c])
         /\ obligation[c] # None /\ obligation'[c].required # obligation[c].required =>
              Deepens(obligation[c].required, obligation'[c].required)
<1>1. Candidate(c, phase) \in Obligation /\ Candidate(c, phase).required = Route(c)
  BY CandidateType DEF Candidate
<1>2. Floor(c) \in 1..Deepest /\ Depth(c) \in 1..Deepest /\ Deepest \in Nat
  BY DepthType, AssuranceAssumption
<1>3. CASE obligation'[c] = obligation[c]
  BY <1>3 DEF RoutesPlanned, Recorded
<1>4. CASE obligation[c] = None /\ obligation'[c] = Candidate(c, phase)
  <2>1. Floor(c) = 1 /\ Candidate(c, phase).floor = Depth(c)
    BY <1>4 DEF Floor, Candidate
  <2>2. QED
    BY <1>1, <1>2, <1>4, <2>1 DEF Routed, Route
<1>5. CASE /\ obligation[c] # None
           /\ obligation'[c] = Monotonic(obligation[c], Candidate(c, phase))
  <2>1. obligation[c] \in Obligation /\ Floor(c) = obligation[c].floor
    BY <1>5 DEF TypeOK, Floor
  <2>2. obligation'[c].required = Route(c)
    BY <1>1, <1>5 DEF Monotonic
  <2>3. obligation'[c].floor \in 1..Deepest /\ obligation[c].floor <= obligation'[c].floor
    BY <1>1, <1>2, <1>5, <2>1 DEF Monotonic, Obligation
  <2>4. Routed(c, obligation'[c])
    BY <1>2, <2>1, <2>2, <2>3 DEF Routed, Route
  <2>5. Routed(c, obligation[c])
    BY <1>5 DEF RoutesPlanned, Recorded
  <2>6. CASE c \in Contractual \/ c \in HumanOnly
    BY <2>2, <2>5, <2>6 DEF Routed, Route
  <2>7. CASE c \notin Contractual /\ c \notin HumanOnly
    <3>1. PICK m \in 1..obligation[c].floor : obligation[c].required = Cheapest(c, m)
      BY <2>5, <2>7 DEF Routed
    <3>2. obligation'[c].required = Cheapest(c, obligation[c].floor)
      BY <2>1, <2>2, <2>7 DEF Route
    <3>3. obligation[c].floor \in 1..Deepest
      BY <2>1 DEF Obligation
    <3>4. obligation'[c].required # obligation[c].required =>
            Deepens(obligation[c].required, obligation'[c].required)
      BY <3>1, <3>2, <3>3, CheapestDeepens
    <3>5. QED
      BY <2>4, <3>4
  <2>8. QED
    BY <2>4, <2>6, <2>7
<1>6. QED
  BY <1>3, <1>4, <1>5 DEF Compiled

\* A step leaves an obligation the route planned for it, or deepens it.
LEMMA RouteStep ==
  ASSUME TypeOK, RaisesRecorded, RoutesPlanned, [Next]_vars, NEW c \in Claims,
         obligation'[c] # None
  PROVE  /\ Routed(c, obligation'[c])
         /\ obligation[c] # None /\ obligation'[c].required # obligation[c].required =>
              Deepens(obligation[c].required, obligation'[c].required)
<1>1. CASE obligation'[c] = obligation[c]
  BY <1>1 DEF RoutesPlanned, Recorded
<1>2. ASSUME obligation[c] \in Obligation, obligation[c] # None, obligation'[c] \in Obligation,
             obligation'[c].required = obligation[c].required,
             obligation[c].floor <= obligation'[c].floor
      PROVE  Routed(c, obligation'[c])
  <2>1. Routed(c, obligation[c])
    BY <1>2 DEF RoutesPlanned, Recorded
  <2>2. obligation[c].floor \in Nat /\ obligation'[c].floor \in Nat
    BY <1>2, AssuranceAssumption DEF Obligation
  <2>3. QED
    BY <1>2, <2>1, <2>2 DEF Routed
<1>3. ASSUME NEW p \in Procs, Escalate(p), obligation'[c] # obligation[c]
      PROVE  /\ Routed(c, obligation'[c])
             /\ obligation'[c].required = obligation[c].required
  <2>1. obligation'[c] = [obligation[c] EXCEPT !.floor = @ + 1] /\ CanDeepen(c)
    BY <1>3 DEF Escalate
  <2>2. obligation[c] \in Obligation /\ obligation[c] # None
    BY <1>3 DEF Escalate, RaisesRecorded, Recorded, TypeOK
  <2>3. obligation'[c] \in Obligation /\ obligation[c].floor <= obligation'[c].floor
        /\ obligation'[c].required = obligation[c].required
    BY <2>1, <2>2, AssuranceAssumption DEF CanDeepen, Obligation
  <2>4. QED
    BY <1>2, <2>2, <2>3
<1>4. ASSUME NEW p \in Procs, Waive(p), obligation'[c] # obligation[c]
      PROVE  /\ Routed(c, obligation'[c])
             /\ obligation'[c].required = obligation[c].required
  <2>1. call[p] \in Waiver /\ call[p].claim = c
    BY <1>4, CallKinds DEF Waive, TypeOK
  <2>2. obligation[c] \in Obligation /\ obligation[c] # None
        /\ obligation'[c] = [obligation[c] EXCEPT !.waived = TRUE]
    BY <1>4, <2>1, AbsentAssumption DEF Waive, Waiver, TypeOK
  <2>3. obligation'[c] \in Obligation /\ obligation'[c].floor = obligation[c].floor
        /\ obligation'[c].required = obligation[c].required
    BY <2>2 DEF Obligation
  <2>4. obligation[c].floor \in Nat
    BY <2>2, AssuranceAssumption DEF Obligation
  <2>5. QED
    BY <1>2, <2>2, <2>3, <2>4
<1>5. QED
  BY <1>1, <1>3, <1>4, WritesOfRecords, CompiledRoutes

\* A route is only replaced by deeper verifiers.
THEOREM RouteOnlyDeepensAlways == Spec => RouteOnlyDeepens
<1> DEFINE Inv == TypeOK /\ RaisesRecorded /\ RoutesPlanned
<1>1. Init => Inv
  BY InitialTypes DEF Init, RoutesPlanned, Recorded
<1>2. Inv /\ [Next]_vars => Inv'
  <2>1. TypeOK /\ RaisesRecorded /\ RoutesPlanned /\ [Next]_vars => RoutesPlanned'
    BY RouteStep DEF RoutesPlanned, Recorded
  <2>2. QED
    BY <2>1, TypeStep
<1>3. Inv /\ [Next]_vars =>
        [\A c \in Recorded :
           obligation'[c].required # obligation[c].required =>
             \A s \in obligation[c].required, t \in obligation'[c].required :
               s \in Specs /\ t \in Specs /\ Level[s] < Level[t]]_vars
  <2>1. SUFFICES ASSUME TypeOK, RaisesRecorded, RoutesPlanned, [Next]_vars, NEW c \in Recorded,
                        obligation'[c].required # obligation[c].required
                 PROVE  Deepens(obligation[c].required, obligation'[c].required)
    BY DEF Deepens
  <2>2. c \in Claims /\ obligation[c] # None /\ obligation'[c] # None
    BY <2>1, StepWidens DEF Recorded, Widens
  <2>3. QED
    BY <2>1, <2>2, RouteStep
<1> HIDE DEF Inv
<1>4. QED
  BY <1>1, <1>2, <1>3, PTL DEF Spec, RouteOnlyDeepens

-----------------------------------------------------------------------------
\* The inductive invariant

\* A criterion depends on the whole scope and on the verifiers its contract names.
ContractRecords ==
  \A c \in Recorded \cap Contractual :
    obligation[c].paths = Files /\ obligation[c].required = Supplies[c]

\* What completion reads of a verifier's last record is in the evidence.
LatestRecorded ==
  \A s \in Specs : latest[s] # None /\ ~latest[s].stale =>
    \E e \in evidence : /\ e.verifier = s /\ e.result = latest[s].result
                        /\ e.before = latest[s].before /\ Consistent(e)

VerdictInv ==
  /\ TypeOK /\ RaisesRecorded
  /\ ContractRecords
  /\ LatestRecorded

-----------------------------------------------------------------------------
\* The records of criteria

\* Compiling again leaves the obligations of a contract with its criteria.
LEMMA CompiledContracts ==
  ASSUME TypeOK, ContractRecords, NEW phase, obligation' = Compiled(phase)
  PROVE  ContractRecords'
<1>1. SUFFICES ASSUME NEW c \in Contractual, obligation'[c] # None
               PROVE  obligation'[c].paths = Files /\ obligation'[c].required = Supplies[c]
  BY DEF ContractRecords, Recorded
<1>2. c \in Claims /\ c \in Raised(phase) /\ c \notin HumanOnly
  BY AssuranceAssumption DEF Raised
<1>3. Candidate(c, phase).paths = Files /\ Candidate(c, phase).required = Supplies[c]
  BY DEF Candidate, AffectedPaths, Route
<1>4. CASE obligation[c] = None
  BY <1>2, <1>3, <1>4 DEF Compiled
<1>5. CASE obligation[c] # None
  <2>1. obligation'[c] = Monotonic(obligation[c], Candidate(c, phase))
    BY <1>2, <1>5 DEF Compiled
  <2>2. obligation[c].paths \subseteq Files
    BY <1>2, <1>5 DEF TypeOK, Obligation
  <2>3. QED
    BY <1>3, <2>1, <2>2 DEF Monotonic
<1>6. QED
  BY <1>4, <1>5

\* So does every other step.
LEMMA ContractStep ==
  ASSUME TypeOK, RaisesRecorded, ContractRecords, [Next]_vars
  PROVE  ContractRecords'
<1>1. CASE obligation' = obligation
  BY <1>1 DEF ContractRecords, Recorded
<1>2. ASSUME NEW p \in Procs, Escalate(p)
      PROVE  ContractRecords'
  <2>1. SUFFICES ASSUME NEW c \in Contractual, obligation'[c] # None
                 PROVE  obligation'[c].paths = Files /\ obligation'[c].required = Supplies[c]
    BY DEF ContractRecords, Recorded
  <2>2. c \in Claims
    BY AssuranceAssumption
  <2>3. CASE obligation'[c] = obligation[c]
    BY <2>1, <2>2, <2>3 DEF ContractRecords, Recorded
  <2>4. CASE obligation'[c] # obligation[c]
    <3>1. obligation'[c] = [obligation[c] EXCEPT !.floor = @ + 1]
      BY <1>2, <2>2, <2>4 DEF Escalate
    <3>2. obligation[c] # None
      BY <1>2, <2>2, <2>4 DEF Escalate, RaisesRecorded, Recorded
    <3>3. obligation[c] \in Obligation
      BY <2>2, <3>2 DEF TypeOK
    <3>4. obligation[c].paths = Files /\ obligation[c].required = Supplies[c]
      BY <2>2, <3>2 DEF ContractRecords, Recorded
    <3>5. QED
      BY <3>1, <3>3, <3>4 DEF Obligation
  <2>5. QED
    BY <2>3, <2>4
<1>3. ASSUME NEW p \in Procs, Waive(p)
      PROVE  ContractRecords'
  <2>1. SUFFICES ASSUME NEW c \in Contractual, obligation'[c] # None
                 PROVE  obligation'[c].paths = Files /\ obligation'[c].required = Supplies[c]
    BY DEF ContractRecords, Recorded
  <2>2. c \in Claims
    BY AssuranceAssumption
  <2>3. CASE call[p].claim = c
    <3>1. call[p] \in Waiver
      BY <1>3, CallKinds DEF Waive
    <3>2. obligation[c] = call[p].read /\ obligation[c] \in Obligation /\ obligation[c] # None
      BY <1>3, <2>3, <3>1, AbsentAssumption DEF Waive, Waiver
    <3>3. obligation'[c] = [obligation[c] EXCEPT !.waived = TRUE]
      BY <1>3, <2>2, <2>3, <3>2 DEF Waive, TypeOK
    <3>4. obligation[c].paths = Files /\ obligation[c].required = Supplies[c]
      BY <2>2, <3>2 DEF ContractRecords, Recorded
    <3>5. QED
      BY <3>2, <3>3, <3>4 DEF Obligation
  <2>4. CASE call[p].claim # c
    <3>1. obligation'[c] = obligation[c]
      BY <1>3, <2>2, <2>4 DEF Waive, TypeOK
    <3>2. QED
      BY <2>1, <2>2, <3>1 DEF ContractRecords, Recorded
  <2>5. QED
    BY <2>3, <2>4
<1>4. \/ obligation' = obligation
      \/ \E phase : obligation' = Compiled(phase)
      \/ \E p \in Procs : Escalate(p) \/ Waive(p)
  BY WritesOfRecords
<1>5. QED
  BY <1>1, <1>2, <1>3, <1>4, CompiledContracts

-----------------------------------------------------------------------------
\* The evidence

\* Evidence is written at the end of a verifier, or for a human, only.
LEMMA WritesOfEvidence ==
  ASSUME [Next]_vars
  PROVE  \/ evidence' = evidence
         \/ \E c \in Claims, accepted \in BOOLEAN : ResolveHuman(c, accepted)
         \/ \E p \in Procs, s \in Specs, result \in {"PASS", "FAIL", "BLOCKED"} :
              RecordEvidence(p, s, result)
<1>1. ASSUME NEW p \in Procs,
             \/ BindRun(p)
             \/ StampRun(p)
             \/ \E specs \in (SUBSET Specs) \ {{}} : StartRun(p, specs)
             \/ MeasureRun(p)
             \/ \E passed \in BOOLEAN : FinishRun(p, passed)
             \/ StartEscalate(p)
             \/ Escalate(p)
             \/ \E d \in Claims : StartWaive(p, d)
             \/ Waive(p)
             \/ StartComplete(p)
             \/ PassGate(p)
             \/ Complete(p)
             \/ GiveUp(p)
      PROVE  evidence' = evidence
  BY <1>1 DEF BindRun, StampRun, StartRun, MeasureRun, FinishRun, StartEscalate, Escalate, StartWaive, Waive, StartComplete,
         PassGate, Complete, GiveUp
<1>2. ASSUME \/ Invalidate
             \/ Reclaim
             \/ \E f \in Files, data \in Contents : Edit(f, data)
             \/ ChangePolicy
             \/ UNCHANGED vars
      PROVE  evidence' = evidence
  BY <1>2 DEF Invalidate, Reclaim, Edit, ChangePolicy, vars
<1>3. CASE \E phase \in {"INITIAL", "RECONCILED"} : CompilePlan(phase)
  BY <1>3 DEF CompilePlan
<1>4. QED
  BY <1>1, <1>2, <1>3 DEF Next

\* Evidence is only added, by a verifier or by a human.
LEMMA EvidenceStep ==
  ASSUME [Next]_vars
  PROVE  evidence \subseteq evidence'
  BY WritesOfEvidence DEF RecordEvidence, ResolveHuman

\* A verifier's last record is that of the evidence written with it; a sweep only marks it.
LEMMA LatestStep ==
  ASSUME VerdictInv, [Next]_vars
  PROVE  LatestRecorded'
<1>1. evidence \subseteq evidence'
  BY EvidenceStep
<1>2. ASSUME NEW p \in Procs, NEW s \in Specs, NEW result \in {"PASS", "FAIL", "BLOCKED"},
             RecordEvidence(p, s, result)
      PROVE  LatestRecorded'
  <2>1. PICK e : /\ evidence' = evidence \cup {e}
                 /\ e.verifier = s /\ e.result = result /\ e.before = call[p].before
                 /\ latest' = [latest EXCEPT ![s] =
                      [result |-> result, before |-> e.before, stale |-> ~Consistent(e)]]
    BY <1>2 DEF RecordEvidence
  <2>2. /\ \A t \in Specs : t # s => latest'[t] = latest[t]
        /\ latest'[s] = [result |-> result, before |-> e.before, stale |-> ~Consistent(e)]
    BY <2>1 DEF VerdictInv, TypeOK
  <2>3. SUFFICES ASSUME NEW t \in Specs, latest'[t] # None, ~latest'[t].stale
                 PROVE  \E d \in evidence' : /\ d.verifier = t /\ d.result = latest'[t].result
                                            /\ d.before = latest'[t].before /\ Consistent(d)
    BY DEF LatestRecorded, Consistent
  <2>4. CASE t = s
    <3>1. latest'[s].result = e.result /\ latest'[s].before = e.before
      BY <2>1, <2>2
    <3>2. latest'[s].stale = ~Consistent(e)
      BY <2>2
    <3>3. Consistent(e)
      BY <2>3, <2>4, <3>2 DEF Consistent
    <3>4. QED
      BY <2>1, <2>4, <3>1, <3>3
  <2>5. CASE t # s
    BY <2>1, <2>2, <2>3, <2>5 DEF VerdictInv, LatestRecorded
  <2>6. QED
    BY <2>4, <2>5
<1>3. CASE Invalidate
  <2>1. \A s \in Specs : latest'[s] = latest[s] \/ latest'[s].stale
    BY <1>3 DEF Invalidate, Marked, Stale, VerdictInv, TypeOK, Latest
  <2>2. QED
    BY <1>1, <2>1 DEF VerdictInv, LatestRecorded, Consistent
<1>4. CASE latest' = latest
  BY <1>1, <1>4 DEF VerdictInv, LatestRecorded, Consistent
<1>5. ASSUME NEW p \in Procs,
             \/ BindRun(p)
             \/ StampRun(p)
             \/ \E specs \in (SUBSET Specs) \ {{}} : StartRun(p, specs)
             \/ MeasureRun(p)
             \/ \E passed \in BOOLEAN : FinishRun(p, passed)
             \/ StartEscalate(p)
             \/ Escalate(p)
             \/ \E d \in Claims : StartWaive(p, d)
             \/ Waive(p)
             \/ StartComplete(p)
             \/ PassGate(p)
             \/ Complete(p)
             \/ GiveUp(p)
      PROVE  latest' = latest
  BY <1>5 DEF BindRun, StampRun, StartRun, MeasureRun, FinishRun, StartEscalate, Escalate, StartWaive, Waive, StartComplete,
         PassGate, Complete, GiveUp
<1>6. ASSUME \/ \E phase \in {"INITIAL", "RECONCILED"} : CompilePlan(phase)
             \/ \E c \in Claims, accepted \in BOOLEAN : ResolveHuman(c, accepted)
             \/ Reclaim
             \/ \E f \in Files, data \in Contents : Edit(f, data)
             \/ ChangePolicy
             \/ UNCHANGED vars
      PROVE  latest' = latest
  BY <1>6 DEF CompilePlan, ResolveHuman, Reclaim, Edit, ChangePolicy, vars
<1>7. QED
  BY <1>2, <1>3, <1>4, <1>5, <1>6 DEF Next

-----------------------------------------------------------------------------
\* The theorems

\* Records and last verdicts stay consistent with the evidence.
LEMMA VerdictInvariant == Spec => []VerdictInv
<1>1. Init => VerdictInv
  <2>1. Init => TypeOK /\ RaisesRecorded
    BY InitialTypes
  <2>2. Init => ContractRecords /\ LatestRecorded
    BY DEF Init, ContractRecords, Recorded, LatestRecorded
  <2>3. QED
    BY <2>1, <2>2 DEF VerdictInv
<1>2. VerdictInv /\ [Next]_vars => VerdictInv'
  BY TypeStep, ContractStep, LatestStep DEF VerdictInv
<1>3. QED
  BY <1>1, <1>2, PTL DEF Spec

\* While what a criterion depends on stays the same, so does the binding of the task.
LEMMA CriterionBindsTask ==
  ASSUME TypeOK, TypeOK', ContractRecords, ContractRecords',
         NEW c \in Recorded \cap Contractual, c \in Recorded', Binding(c)' = Binding(c)
  PROVE  TaskBinding' = TaskBinding
<1>1. obligation[c].paths = Files /\ obligation'[c].paths = Files
  BY DEF ContractRecords, Recorded
<1>2. [f \in obligation'[c].paths |-> content'[f]] = [f \in obligation[c].paths |-> content[f]]
      /\ policy' = policy
  BY DEF Binding
<1>3. [f \in Files |-> content'[f]] = [f \in Files |-> content[f]]
  BY <1>1, <1>2
<1>4. content' = content
  BY <1>3 DEF TypeOK
<1>5. QED
  BY <1>2, <1>4 DEF TaskBinding

\* Evidence stays current while what its claim depends on stays the same.
LEMMA CurrentStays ==
  ASSUME VerdictInv, VerdictInv', evidence \subseteq evidence',
         NEW c \in Recorded, c \in Recorded', Binding(c)' = Binding(c)
  PROVE  Current(c) \subseteq Current(c)'
<1>1. SUFFICES ASSUME NEW e \in Current(c)
               PROVE  e \in Current(c)'
  OBVIOUS
<1>2. /\ e \in evidence /\ Matches(e, c) /\ CurrentFor(e, c)
      /\ obligation[c].required = {} \/ e.verifier \in obligation[c].required
  BY DEF Current, Matched
<1>3. obligation'[c].required = obligation[c].required
  BY DEF Binding
<1>4. e \in Matched(c)'
  BY <1>2, <1>3 DEF Matched, Matches
<1>5. CASE e.stamp[c] # None
  BY <1>2, <1>4, <1>5 DEF Current, CurrentFor
<1>6. CASE e.stamp[c] = None
  <2>1. c \in Recorded \cap Contractual
    BY <1>2, <1>6 DEF Matches
  <2>2. TaskBinding' = TaskBinding
    BY <2>1, CriterionBindsTask DEF VerdictInv
  <2>3. QED
    BY <1>2, <1>4, <1>6, <2>2 DEF Current, CurrentFor
<1>7. QED
  BY <1>5, <1>6

\* No step drops a record.
LEMMA RecordedStays ==
  ASSUME TypeOK, [Next]_vars, NEW c \in Recorded
  PROVE  c \in Recorded'
  BY StepWidens DEF Widens, Recorded

\* A refuted claim stays refuted until its inputs move or it is waived.
THEOREM RefutedStandsAlways == Spec => RefutedStands
<1>1. VerdictInv /\ VerdictInv' /\ [Next]_vars =>
        [\A c \in Recorded :
           Refuted(c) /\ Binding(c)' = Binding(c) => Refuted(c)' \/ obligation'[c].waived]_vars
  <2>1. SUFFICES ASSUME VerdictInv, VerdictInv', [Next]_vars, NEW c \in Recorded,
                        Refuted(c), Binding(c)' = Binding(c), ~obligation'[c].waived
                 PROVE  Refuted(c)'
    OBVIOUS
  <2>2. "FAIL" \in Results(c)
    BY <2>1 DEF Refuted, Resolution, Undecided
  <2>3. evidence \subseteq evidence'
    BY <2>1, EvidenceStep
  <2>4. c \in Recorded'
    BY <2>1, RecordedStays DEF VerdictInv
  <2>5. Current(c) \subseteq Current(c)'
    BY <2>1, <2>3, <2>4, CurrentStays
  <2>6. "FAIL" \in Results(c)'
    BY <2>2, <2>5 DEF Results
  <2>7. QED
    BY <2>1, <2>6 DEF Refuted, Resolution
<1>2. QED
  BY <1>1, VerdictInvariant, PTL DEF Spec, RefutedStands

\* Only the transaction of a completion completes the task.
LEMMA OnlyCompleteCompletes ==
  ASSUME [Next]_vars, state # "COMPLETED", state' = "COMPLETED"
  PROVE  \E p \in Procs : Complete(p)
<1>1. ASSUME NEW p \in Procs,
             \/ BindRun(p)
             \/ StampRun(p)
             \/ \E specs \in (SUBSET Specs) \ {{}} : StartRun(p, specs)
             \/ MeasureRun(p)
             \/ \E s \in Specs, result \in {"PASS", "FAIL", "BLOCKED"} :
                  RecordEvidence(p, s, result)
             \/ \E passed \in BOOLEAN : FinishRun(p, passed)
             \/ StartEscalate(p)
             \/ Escalate(p)
             \/ \E d \in Claims : StartWaive(p, d)
             \/ Waive(p)
             \/ StartComplete(p)
             \/ PassGate(p)
             \/ GiveUp(p)
      PROVE  FALSE
  BY <1>1 DEF BindRun, StampRun, StartRun, MeasureRun, RecordEvidence, FinishRun, StartEscalate, Escalate, StartWaive, Waive,
         StartComplete, PassGate, GiveUp
<1>2. ASSUME \/ \E phase \in {"INITIAL", "RECONCILED"} : CompilePlan(phase)
             \/ \E c \in Claims, accepted \in BOOLEAN : ResolveHuman(c, accepted)
             \/ Invalidate
             \/ Reclaim
             \/ \E f \in Files, data \in Contents : Edit(f, data)
             \/ ChangePolicy
             \/ UNCHANGED vars
      PROVE  FALSE
  BY <1>2 DEF CompilePlan, ResolveHuman, Invalidate, Reclaim, Edit, ChangePolicy, vars
<1>3. QED
  BY <1>1, <1>2 DEF Next

\* A task is completed only on passes of every declared verifier from runs that read,
\* first and last, what the files and the policy are at that step.
THEOREM CompletedOnProvenInputsAlways == Spec => CompletedOnProvenInputs
<1>1. VerdictInv /\ [Next]_vars =>
        [state # "COMPLETED" /\ state' = "COMPLETED" =>
           \A s \in Specs :
             \E e \in evidence : /\ e.verifier = s /\ e.result = "PASS"
                                /\ e.before = TaskBinding /\ e.after = TaskBinding]_vars
  <2>1. SUFFICES ASSUME VerdictInv, [Next]_vars, state # "COMPLETED", state' = "COMPLETED",
                        NEW s \in Specs
                 PROVE  \E e \in evidence : /\ e.verifier = s /\ e.result = "PASS"
                                           /\ e.before = TaskBinding /\ e.after = TaskBinding
    OBVIOUS
  <2>2. ProofHolds
    BY <2>1, OnlyCompleteCompletes DEF Complete
  <2>3. PICK e \in evidence : /\ e.verifier = s /\ e.result = latest[s].result
                              /\ e.before = latest[s].before /\ Consistent(e)
    BY <2>1, <2>2 DEF ProofHolds, VerdictInv, LatestRecorded
  <2>4. QED
    BY <2>1, <2>2, <2>3 DEF ProofHolds, Consistent
<1>2. QED
  BY <1>1, VerdictInvariant, PTL DEF Spec, CompletedOnProvenInputs

-----------------------------------------------------------------------------
\* What a completion rests on besides

\* Claims, evidence and calls, commits, trees and records keep their types
\* (control/assurance/service.py, control/verification.py, control/workspaces.py).
THEOREM CompletionKeepsTypes == CompletionSpec => []TypesOK
<1>1. Merging!Spec => []Merging!TypeOK
  BY CompletionAssumption, Merging!IntegrationTypes
<1>2. QED
  BY <1>1, AssuranceTypes, PTL DEF CompletionSpec, TypesOK

\* What is recorded as merged is what the gate was passed on (control/workspaces.py,
\* merge_workspace; Integration_proofs).
THEOREM MergesRecordedAsGated == Merging!Spec => MergedAsGated
<1>1. Merging!Spec => Merging!MergedAsGated
  BY CompletionAssumption, Merging!MergedAsGatedAlways
<1>2. QED
  BY <1>1 DEF MergedAsGated

\* A task completes only on what the primary repository holds (control/verification.py,
\* complete; Integration_proofs).
THEOREM CompletesOnPrimary == Merging!Spec => CompletedInPrimary
<1>1. Merging!Spec => Merging!CompletedInPrimary
  BY CompletionAssumption, Merging!CompletedInPrimaryAlways
<1>2. QED
  BY <1>1 DEF CompletedInPrimary
=============================================================================
