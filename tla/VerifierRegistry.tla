-------------------------- MODULE VerifierRegistry --------------------------
(***************************************************************************)
(* Verifier packages (verifier/): a package is copied beside the registry, *)
(* entered in it, protected and executed by command line calls that share  *)
(* no lock.  Each call reads the registry and writes it back whole, later; *)
(* a write empties the file and then fills it; a call may be killed        *)
(* between any two of its steps.                                           *)
(*                                                                         *)
(* Of a package only its contract, verifier.json, is kept.                 *)
(***************************************************************************)
EXTENDS Naturals

CONSTANTS Ids,        \* verifiers
          Callers,    \* calls in progress at a time (bound)
          MaxEvents,  \* calls begun, kills and changes by hand (bound)
          None        \* absent record

VARIABLES
  package,   \* id -> what generated/<id> holds
  registry,  \* id -> its entry, or None
  torn,      \* registry.json is not readable
  artifact,  \* id -> the status in artifacts/<id>.json, or None
  ledger,    \* what the evidence ledger says of the runs
  call,      \* caller -> what it executes, or None
  removed,   \* verifiers whose package was removed by hand
  events

vars == <<package, registry, torn, artifact, ledger, call, removed, events>>

Proven == {"proven", "revised"}  \* contracts whose sensitivity is PROVEN

Contracts == Proven \cup {"draft"}

Entry == [trust: {"DRAFT", "VALIDATED", "PROTECTED"}, hash: Contracts]

RegistryAssumption == None \notin Entry /\ MaxEvents \in Nat

Registries == [Ids -> Entry \cup {None}]

Statuses == {"PASS", "FAIL", "BLOCKED"}

TypeOK ==
  /\ package \in [Ids -> Contracts \cup {"none", "partial"}]
  /\ registry \in Registries
  /\ torn \in BOOLEAN
  /\ artifact \in [Ids -> Statuses \cup {None}]
  /\ ledger \subseteq [id: Ids, exit: Statuses, held: Statuses]
  /\ removed \subseteq Ids
  /\ events \in 0..MaxEvents

Init ==
  /\ package = [id \in Ids |-> "none"]
  /\ registry = [id \in Ids |-> None]
  /\ torn = FALSE
  /\ artifact = [id \in Ids |-> None]
  /\ ledger = {}
  /\ call = [p \in Callers |-> None]
  /\ removed = {}
  /\ events = 0

-----------------------------------------------------------------------------
Idle(p) == call[p] = None

At(p, pc) == ~Idle(p) /\ call[p].pc = pc

Event == events < MaxEvents /\ events' = events + 1

Begins(p, record) == Event /\ Idle(p) /\ call' = [call EXCEPT ![p] = record]

Goes(p, pc) == call' = [call EXCEPT ![p].pc = pc]

Ends(p) == call' = [call EXCEPT ![p] = None]

Readable(id) == ~torn /\ registry[id] # None

-----------------------------------------------------------------------------
\* Registering (registry.register_verifier)

\* The directory of the verifier must not exist.
StartRegister(p, id, contract) ==
  /\ package[id] = "none"
  /\ Begins(p, [op |-> "register", id |-> id, pc |-> "make", contract |-> contract])
  /\ UNCHANGED <<package, registry, torn, artifact, ledger, removed>>

\* Faulty variant: copies into a directory that is already there.
MakeDirectoryAgain(p) ==
  /\ At(p, "make")
  /\ package' = [package EXCEPT ![call[p].id] = "partial"]
  /\ Goes(p, "copy")
  /\ UNCHANGED <<registry, torn, artifact, ledger, removed, events>>

\* copytree makes the directory, and raises if another call just made it.
MakeDirectory(p) ==
  /\ At(p, "make")
  /\ IF package[call[p].id] = "none"
     THEN package' = [package EXCEPT ![call[p].id] = "partial"] /\ Goes(p, "copy")
     ELSE UNCHANGED package /\ Ends(p)
  /\ UNCHANGED <<registry, torn, artifact, ledger, removed, events>>

Copy(p) ==
  /\ At(p, "copy")
  /\ package' = [package EXCEPT ![call[p].id] = call[p].contract]
  /\ Goes(p, "read")
  /\ UNCHANGED <<registry, torn, artifact, ledger, removed, events>>

\* An unreadable registry raises and leaves the copy; an entry that is already there
\* removes it.
ReadRegistry(p) ==
  /\ At(p, "read")
  /\ IF torn THEN UNCHANGED package /\ Ends(p)
     ELSE IF registry[call[p].id] # None
          THEN package' = [package EXCEPT ![call[p].id] = "none"] /\ Ends(p)
          ELSE /\ UNCHANGED package
               /\ call' = [call EXCEPT ![p] =
                    [op |-> "register", id |-> call[p].id, pc |-> "write", read |-> registry,
                     trust |-> IF call[p].contract \in Proven THEN "VALIDATED" ELSE "DRAFT"]]
  /\ UNCHANGED <<registry, torn, artifact, ledger, removed, events>>

\* Protecting (protection.protect_verifier): only a verifier with proven sensitivity.
StartProtect(p, id) ==
  /\ Readable(id) /\ package[id] \in Proven
  /\ Begins(p, [op |-> "protect", id |-> id, pc |-> "write", read |-> registry,
                trust |-> "PROTECTED"])
  /\ UNCHANGED <<package, registry, torn, artifact, ledger, removed>>

\* Faulty variant: hashes what is there, a half copied package or none.
TruncateUnchecked(p) ==
  /\ At(p, "write")
  /\ torn' = TRUE
  /\ call' = [call EXCEPT ![p].pc = "fill",
       ![p].read[call[p].id] = [trust |-> call[p].trust, hash |-> package[call[p].id]]]
  /\ UNCHANGED <<package, registry, artifact, ledger, removed, events>>

\* The contract is hashed, and the file is opened for writing.
Truncate(p) ==
  /\ At(p, "write")
  /\ LET contract == package[call[p].id] IN
     IF contract \in Contracts
     THEN /\ torn' = TRUE
          /\ call' = [call EXCEPT ![p].pc = "fill",
               ![p].read[call[p].id] = [trust |-> call[p].trust, hash |-> contract]]
     ELSE UNCHANGED torn /\ Ends(p)
  /\ UNCHANGED <<package, registry, artifact, ledger, removed, events>>

\* What another call wrote into the file meanwhile may show behind a shorter text.
Fill(p) ==
  /\ At(p, "fill")
  /\ registry' = call[p].read
  /\ torn' \in (IF torn THEN {FALSE} ELSE BOOLEAN)
  /\ Ends(p)
  /\ UNCHANGED <<package, artifact, ledger, removed, events>>

-----------------------------------------------------------------------------
\* Execution (registry.load_verifier, executor.execute_verifier)

\* A protected verifier must hold the contract it was protected with.
Load(p, id) ==
  /\ Readable(id) /\ package[id] \in Contracts
  /\ registry[id].trust = "PROTECTED" => registry[id].hash = package[id]
  /\ Begins(p, [op |-> "execute", id |-> id, pc |-> "run"])
  /\ UNCHANGED <<package, registry, torn, artifact, ledger, removed>>

\* BLOCKED: something it needs is missing, or it ran out of time.
Execute(p, status) ==
  /\ At(p, "run")
  /\ call' = [call EXCEPT ![p] =
       [op |-> "execute", id |-> call[p].id, pc |-> "result", status |-> status]]
  /\ UNCHANGED <<package, registry, torn, artifact, ledger, removed, events>>

\* The result goes to the one file of the verifier.
WriteResult(p) ==
  /\ At(p, "result")
  /\ artifact' = [artifact EXCEPT ![call[p].id] = call[p].status]
  /\ IF call[p].status = "BLOCKED" THEN Ends(p) ELSE Goes(p, "append")
  /\ UNCHANGED <<package, registry, torn, ledger, removed, events>>

\* The ledger keeps the outcome of this run and the hash of what the file holds now.
Append(p) ==
  /\ At(p, "append")
  /\ ledger' = ledger \cup
       {[id |-> call[p].id, exit |-> call[p].status, held |-> artifact[call[p].id]]}
  /\ Ends(p)
  /\ UNCHANGED <<package, registry, torn, artifact, removed, events>>

-----------------------------------------------------------------------------
\* The environment

Kill(p) ==
  /\ Event /\ ~Idle(p) /\ Ends(p)
  /\ UNCHANGED <<package, registry, torn, artifact, ledger, removed>>

Revise(id) ==
  /\ Event /\ package[id] \in Contracts
  /\ \E contract \in Contracts \ {package[id]} :
       package' = [package EXCEPT ![id] = contract]
  /\ UNCHANGED <<registry, torn, artifact, ledger, call, removed>>

Remove(id) ==
  /\ Event /\ package[id] # "none"
  /\ package' = [package EXCEPT ![id] = "none"]
  /\ removed' = removed \cup {id}
  /\ UNCHANGED <<registry, torn, artifact, ledger, call>>

-----------------------------------------------------------------------------
Next ==
  \/ \E p \in Callers :
       \/ \E id \in Ids, contract \in {"draft", "proven"} : StartRegister(p, id, contract)
       \/ MakeDirectory(p) \/ Copy(p) \/ ReadRegistry(p)
       \/ \E id \in Ids : StartProtect(p, id) \/ Load(p, id)
       \/ Truncate(p) \/ Fill(p)
       \/ \E status \in Statuses : Execute(p, status)
       \/ WriteResult(p) \/ Append(p)
       \/ Kill(p)
  \/ \E id \in Ids : Revise(id) \/ Remove(id)

Spec == Init /\ [][Next]_vars

-----------------------------------------------------------------------------
\* Invariants

\* A verifier in the registry has its whole package, whatever calls overlap or are
\* killed, unless somebody took the package away: what is listed can be executed.
EntriesHavePackages ==
  ~torn => \A id \in Ids : registry[id] # None => package[id] \in Contracts \/ id \in removed

-----------------------------------------------------------------------------
\* What does not hold (README, "Observed")

\* A call that ended leaves what it entered for the others.
EntriesStay == [][\A id \in Ids : registry[id] # None => registry'[id] # None]_registry

\* A protected verifier stays protected.
ProtectionStays ==
  [][\A id \in Ids : registry[id] # None /\ registry[id].trust = "PROTECTED" =>
       registry'[id] # None /\ registry'[id].trust = "PROTECTED"]_registry

\* The ledger's outcome of a run is the one in the file it hashes.
LedgerHoldsResult == \A entry \in ledger : entry.exit = entry.held
=============================================================================
