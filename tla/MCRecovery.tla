----------------------------- MODULE MCRecovery -----------------------------
(***************************************************************************)
(* Small instances of what must come to an end although calls are killed:  *)
(* the work session, the evidence ledger, the installation, the lifecycle  *)
(* of a task and its proof.  They are explored side by side: `part` says   *)
(* which one moves, and the others stay where they start, so that the      *)
(* behaviours of the run are those of the five instances.                  *)
(***************************************************************************)
EXTENDS WorkSession

VARIABLES
  part, \* the component that moves
  ledger, lock, writer, acked,                                       \* EvidenceLedger
  file, agents, config, control, tool, events,                       \* Installation
  state, blocker, attempts, runtimeUsed, checkpointed, isolated,     \* TaskLifecycle
  run, leases, proc, gone,
  content, policy, obligation, evidence, latest, proven, verdict     \* Assurance

session == <<tasks, lease, call, done, faults>>
ledgerVars == <<ledger, lock, writer, acked>>
kit == <<file, agents, config, control, tool, events>>
lifecycle == <<state, blocker, attempts, runtimeUsed, checkpointed, isolated, run, leases,
               proc, gone>>
assurance == <<content, policy, obligation, evidence, latest, proven, verdict>>

MCScope == [c \in Callers |-> IF c = "p" THEN {"f"} ELSE Files]

Ledger == INSTANCE EvidenceLedger WITH
            Writers <- {"p", "q"}, Artifacts <- {"x"}, MaxRecords <- 3, file <- ledger

Kit == INSTANCE Installation WITH
         Tools <- {"p"}, Plain <- {"schemas"}, Directories <- {"schemas"}, MaxEvents <- 3

\* One task of two agents, verified by one process at a time.
Life == INSTANCE TaskLifecycle WITH
          PathNames <- {"src"}, BoundaryNames <- {}, Tasks <- {"t"}, Agents <- {"a", "b"},
          LeaseIds <- {"l", "m"}, Procs <- {"p"},
          Contract <- [t \in {"t"} |-> [scope |-> {<<"src">>}, boundaries |-> {},
                                         risk |-> "STANDARD"]],
          Capable <- [t \in {"t"} |-> {"a", "b"}], Files <- {<<"src">>},
          MaxLease <- 2, MaxRetries <- 1, MaxRuntime <- 1, Overrun <- 1, Margin <- 1,
          MaxVerifiers <- 1,
          lease <- leases

\* A claim only a human settles, of a task with one verifier.
Proof == INSTANCE Assurance WITH
           Claims <- {"human acceptance"}, Contractual <- {}, ByRisk <- {"human acceptance"},
           HumanOnly <- {"human acceptance"}, Forecast <- {},
           RaisedBy <- [c \in {"human acceptance"} |-> {}], Specs <- {"unit"},
           Supplies <- [c \in {"human acceptance"} |-> {}],
           Level <- [s \in {"unit"} |-> 1], Rank <- [s \in {"unit"} |-> 1],
           Judgment <- {}, Dominated <- {}, Human <- "human", Files <- {"api"},
           Contents <- {0, 1}, Baseline <- 0, Deepest <- 1, MaxPolicy <- 1, MaxEvidence <- 1,
           Procs <- {"p"}, state <- proven, call <- verdict

ASSUME InstancesAssumption == Kit!InstallationAssumption /\ Ledger!LedgerAssumption

-----------------------------------------------------------------------------
MCInit ==
  /\ part \in {"session", "ledger", "kit", "lifecycle", "proof"}
  /\ Init /\ Ledger!Init /\ Kit!Init /\ Life!Init /\ Proof!Init

SessionMoves ==
  part = "session" /\ Next /\ UNCHANGED <<part, ledgerVars, kit, lifecycle, assurance>>
LedgerMoves ==
  part = "ledger" /\ Ledger!Next /\ UNCHANGED <<part, session, kit, lifecycle, assurance>>
KitMoves ==
  part = "kit" /\ Kit!Next /\ UNCHANGED <<part, session, ledgerVars, lifecycle, assurance>>
LifecycleMoves ==
  part = "lifecycle" /\ Life!Next /\ UNCHANGED <<part, session, ledgerVars, kit, assurance>>
ProofMoves ==
  part = "proof" /\ Proof!Next /\ UNCHANGED <<part, session, ledgerVars, kit, lifecycle>>

MCNext == SessionMoves \/ LedgerMoves \/ KitMoves \/ LifecycleMoves \/ ProofMoves

\* The fairness of each component, asked of it when it is the one that moves.
MCFairness ==
  /\ \A c \in Callers : /\ WF_session(part = "session" /\ Step(c))
                        /\ SF_session(part = "session" /\ VerifyPasses(c))
  /\ \A t \in 1..MaxTasks : WF_session(part = "session" /\ t \in DOMAIN tasks /\ Lapse(t))
  /\ WF_session(part = "session" /\ Status)
  /\ \A p \in {"p", "q"} : WF_ledgerVars(part = "ledger" /\ Ledger!Step(p))
  /\ WF_kit(part = "kit" /\ Kit!Write("p"))
  /\ WF_kit(part = "kit" /\ Kit!StartPreflight("p"))
  /\ WF_lifecycle(part = "lifecycle" /\ Life!Tick)
  /\ WF_lifecycle(part = "lifecycle" /\ Life!Status)
  /\ WF_assurance(part = "proof" /\ Proof!Invalidate)

MCSpec ==
  /\ MCInit
  /\ [][MCNext]_<<part, session, ledgerVars, kit, lifecycle, assurance>>
  /\ MCFairness

-----------------------------------------------------------------------------
\* A request is served, or there is a reason it cannot be (control/work.py).
EveryRequestServed == part = "session" => RequestsServed

\* An append comes to an end, also beside a dead lock (evidence.append_evidence).
AppendEnds == Ledger!AppendEnds

\* Repeated preflights close every gap a repair can close (control/preflight.py).
GapsClose == part = "kit" => Kit!GapsClose

\* The task of a stopped agent is freed (plane._expire, plane.status).
StoppedAgentFreed == Life!StoppedAgentFreed

\* A completed task whose proof no longer holds is reopened (verification.invalidate).
StaleCompletionReopened == Proof!StaleCompletionReopened
=============================================================================
