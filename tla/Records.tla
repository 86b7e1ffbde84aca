------------------------------ MODULE Records -------------------------------
(***************************************************************************)
(* What is kept and who changes it: the store, the knowledge graph, the    *)
(* canonical claims, the evidence ledger, the assurance migration, the     *)
(* installation, the verifier registry, and the two users of mutation      *)
(* testing.  Each is a component of its own; here they stand side by side, *)
(* with what each promises.  Those whose theorems are in a module of their *)
(* own are instantiated with them.                                         *)
(***************************************************************************)
EXTENDS Naturals, FiniteSets

CONSTANTS
  Clients,       \* of the database; processes that run a tool; callers of the registry
  Ids,           \* records of the store, verifiers
  Values,        \* payloads of records, what may be claimed
  MaxWrites, MaxBumps,                                         \* Store
  Entities, Code, Writers, MaxKnowledge, MaxChanges,           \* KnowledgeGraph
  Subjects, Authorities, Rank, Deciding, Owner, MaxClaims,     \* CanonicalClaims
  Artifacts, MaxRecords,                                       \* EvidenceLedger
  Upgraded, Old, MaxMigrations,                                \* SchemaMigration
  Plain, Directories, MaxInstalls,                             \* Installation
  MaxCalls,                                                    \* VerifierRegistry
  Mutants, Position, Versions, Slots, MaxCampaigns,            \* MutationCampaign
  Sources, Shard, Changed, FileOf, ChangeOf, Equivalent, Tests, Imports, MaxCommits,
                                                               \* MutationGate
  Missing         \* absent record

VARIABLES
  history, dependsOn, changesets, knowledge, seen, imported,             \* KnowledgeGraph
  claims, retired, proof, claiming,                                       \* CanonicalClaims
  lines, lock, writer, acked,                                             \* EvidenceLedger
  schema, tasks, obligation, legacy, records, migrating,                  \* SchemaMigration
  file, agents, config, control, tool, events,                            \* Installation
  package, registry, torn, artifact, ledger, verifying, removed, happened, \* VerifierRegistry
  sources, reviewed, campaign, copy, running, report, measured, steps,    \* MutationCampaign
  tip, main, diff, verdict, commits,                             \* MutationGate
  db, tx, client, view                                                    \* Store

graph == <<history, dependsOn, changesets, knowledge, seen, imported>>
claim == <<claims, retired, proof, claiming>>
evidence == <<lines, lock, writer, acked>>
migration == <<schema, tasks, obligation, legacy, records, migrating>>
kit == <<file, agents, config, control, tool, events>>
verifiers == <<package, registry, torn, artifact, ledger, verifying, removed, happened>>
mutation == <<sources, reviewed, campaign, copy, running, report, measured, steps>>
gate == <<tip, main, diff, verdict, commits>>
store == <<db, tx, client, view>>

-----------------------------------------------------------------------------
Storing == INSTANCE Store_proofs WITH None <- Missing

Graph == INSTANCE KnowledgeGraph_proofs WITH None <- Missing

Claiming == INSTANCE CanonicalClaims WITH
              Callers <- Writers, call <- claiming, None <- Missing

Ledger == INSTANCE EvidenceLedger WITH
            Writers <- Clients, file <- lines, None <- Missing

Migration == INSTANCE SchemaMigration WITH Tasks <- Upgraded, None <- Missing

Kit == INSTANCE Installation WITH
         Tools <- Clients, MaxEvents <- MaxInstalls, None <- Missing

Verifiers == INSTANCE VerifierRegistry WITH
               Callers <- Clients, MaxEvents <- MaxCalls, call <- verifying,
               events <- happened, None <- Missing

Campaign == INSTANCE MutationCampaign WITH
              Copies <- Slots,
              MaxEvents <- MaxCampaigns, events <- steps, None <- Missing

Gate == INSTANCE MutationGate_proofs WITH
          Files <- Sources, Mutants <- Changed, head <- tip

ASSUME RecordsAssumption ==
  /\ Storing!StoreAssumption /\ Graph!KnowledgeAssumption
  /\ Claiming!ClaimsAssumption /\ Ledger!LedgerAssumption
  /\ Migration!MigrationAssumption
  /\ Kit!InstallationAssumption /\ Verifiers!RegistryAssumption
  /\ Campaign!CampaignAssumption /\ Gate!GateAssumption

-----------------------------------------------------------------------------
\* The components, each at its own pace and side by side.
RecordsSpec ==
  /\ Storing!Spec /\ Graph!Spec /\ Claiming!Spec /\ Ledger!Spec /\ Migration!Spec
  /\ Kit!Spec /\ Verifiers!Spec /\ Campaign!Spec /\ Gate!Spec

\* The types of the nine.
TypesOK ==
  /\ Storing!TypeOK /\ Graph!TypeOK /\ Claiming!TypeOK /\ Ledger!TypeOK
  /\ Migration!TypeOK /\ Kit!TypeOK
  /\ Verifiers!TypeOK /\ Campaign!TypeOK /\ Gate!TypeOK

\* Events, revisions and records tell one history, and the store implements its abstract
\* specification (control/store.py).
AuditTrail == Storing!AuditTrail
ImplementsRecords == Storing!ImplementsRecords

\* What was true at a knowledge version stays what it was, and a rollback brings it back
\* (knowledge.rollback, store.entities_at).
PastKept == Graph!PastKept

\* Current entities depend, without cycles, on current entities (knowledge.apply).
DependenciesSound == Graph!DependenciesSound

\* One value of a subject is canonical at a time, and only an authority as high or the owner
\* displaces it (knowledge.claim, resolve_claim).
OneTruthByAuthority == Claiming!OneTruthByAuthority

\* The ledger is one chain that holds every acknowledged record, up to a damaged last line
\* (evidence.append_evidence).
LedgerSound == Ledger!LedgerSound

\* Migrating again repairs an interrupted migration or rollback (assurance/migration.py).
RunAgainRepairs == Migration!RunAgainRepairs

\* No unforced operation replaces what the owner wrote or an adopted control plane
\* (bootstrap.py, adapters.py, plane.adopt).
OwnWorkKept == Kit!OwnWorkKept

\* A registered verifier has its whole package (verifier/registry.py).
EntriesHavePackages == Verifiers!EntriesHavePackages

\* A campaign reports as killed only what was measured (scripts/assurance_mutation.py).
ReportsMeasured == Campaign!ReportsMeasured

\* The mutants of what a pull request names are answered for when it is merged
\* (scripts/mutation_scope.py, scripts/mutation_gate.py).
MergedAnswered == Gate!MergedAnswered
=============================================================================
