--------------------------- MODULE SchemaMigration --------------------------
(***************************************************************************)
(* The upgrade of a project to the assurance engine and its rollback       *)
(* (control/assurance/migration.py).  migrate writes in two transactions,  *)
(* with a compilation per task between them, and may be killed anywhere;   *)
(* tasks, and plans of theirs, are made meanwhile by other processes.      *)
(***************************************************************************)
EXTENDS Integers, Sequences

CONSTANTS Tasks,         \* tasks of the project, each with one obligation
          Old,           \* those there before the engine
          MaxMigrations, \* migration records (bound)
          None           \* no migration under way

MigrationAssumption == Old \subseteq Tasks /\ MaxMigrations \in Nat

VARIABLES
  schema,     \* the schema version: 1 without the engine, 2 with it
  tasks,      \* the tasks created so far
  obligation, \* task -> "none", "live" or "reverted"
  legacy,     \* tasks whose evidence carries legacy provenance
  records,    \* the migration records, in order
  migrating   \* the migration under way, or None

vars == <<schema, tasks, obligation, legacy, records, migrating>>

TypeOK ==
  /\ schema \in {1, 2}
  /\ tasks \subseteq Tasks /\ legacy \subseteq tasks
  /\ obligation \in [Tasks -> {"none", "live", "reverted"}]
  /\ \A n \in DOMAIN records :
       records[n] \in [from: {1, 2}, applied: BOOLEAN, covers: SUBSET Tasks]
  /\ migrating = None \/
     migrating \in [from: {1, 2}, todo: SUBSET Tasks, done: SUBSET Tasks,
                    listed: BOOLEAN, alone: BOOLEAN]

Init ==
  /\ schema = 1
  /\ tasks = Old
  /\ obligation = [t \in Tasks |-> "none"]
  /\ legacy = {}
  /\ records = << >>
  /\ migrating = None

\* Faulty variant: leaves what a rollback reverted as it is.
StillReverted == obligation

\* What was reverted by a rollback governs again.
Reactivated == [t \in Tasks |-> IF obligation[t] = "reverted" THEN "live" ELSE obligation[t]]

\* First transaction: reactivate, give evidence its provenance, switch the engine on.
MigrateSwitch ==
  /\ migrating = None /\ Len(records) < MaxMigrations
  /\ obligation' = Reactivated
  /\ legacy' = tasks
  /\ schema' = 2
  /\ migrating' = [from |-> schema, todo |-> {}, done |-> {}, listed |-> FALSE,
                   alone |-> TRUE]
  /\ UNCHANGED <<tasks, records>>

MigrateList ==
  /\ migrating # None /\ ~migrating.listed
  /\ migrating' = [migrating EXCEPT !.todo = tasks, !.listed = TRUE]
  /\ UNCHANGED <<schema, tasks, obligation, legacy, records>>

\* compile_plan adds an obligation that is not there; one that is reverted is not among
\* those it knows, and adding it again is a version conflict.
Compiled(t) == [obligation EXCEPT ![t] = "live"]

MigrateCompile(t) ==
  /\ migrating # None /\ t \in migrating.todo
  /\ obligation[t] # "reverted"
  /\ obligation' = Compiled(t)
  /\ migrating' = [migrating EXCEPT !.todo = @ \ {t}, !.done = @ \cup {t}]
  /\ UNCHANGED <<schema, tasks, legacy, records>>

\* Second transaction: the record a rollback needs.
MigrateRecord ==
  /\ migrating # None /\ migrating.listed /\ migrating.todo = {}
  /\ records' = Append(records, [from |-> migrating.from, applied |-> TRUE,
                                 covers |-> {t \in Tasks : obligation[t] # "none"}])
  /\ migrating' = None
  /\ UNCHANGED <<schema, tasks, obligation, legacy>>

\* The process is killed, or a compilation raises.
MigrateCut ==
  /\ migrating # None
  /\ migrating' = None
  /\ UNCHANGED <<schema, tasks, obligation, legacy, records>>

\* rollback of a record: its obligations are reverted, the schema is what it was.  An
\* upgrade under way is no longer alone.
Rollback(n) ==
  /\ records[n].applied
  /\ schema' = records[n].from
  /\ obligation' = [t \in Tasks |->
       IF t \in records[n].covers THEN "reverted" ELSE obligation[t]]
  /\ records' = [records EXCEPT ![n].applied = FALSE]
  /\ migrating' = IF migrating = None THEN None ELSE [migrating EXCEPT !.alone = FALSE]
  /\ UNCHANGED <<tasks, legacy>>

CreateTask(t) ==
  /\ t \notin tasks
  /\ tasks' = tasks \cup {t}
  /\ UNCHANGED <<schema, obligation, legacy, records, migrating>>

\* A task is compiled in the course of its work; without the engine nothing is.
Plan(t) ==
  /\ schema = 2 /\ t \in tasks /\ obligation[t] = "none"
  /\ obligation' = Compiled(t)
  /\ UNCHANGED <<schema, tasks, legacy, records, migrating>>

Next ==
  \/ MigrateSwitch \/ MigrateList \/ MigrateRecord \/ MigrateCut
  \/ \E t \in Tasks : MigrateCompile(t) \/ CreateTask(t) \/ Plan(t)
  \/ \E n \in DOMAIN records : Rollback(n)

Spec == Init /\ [][Next]_vars

-----------------------------------------------------------------------------
\* Properties

\* Whatever was cut short or rolled back before, an upgrade can be run again: unless a
\* rollback comes in between, it meets no reverted obligation, on which compiling a task
\* would conflict, and leaves every task it went through governed.
RunAgainRepairs ==
  migrating # None /\ migrating.alone =>
    \A t \in Tasks : /\ obligation[t] # "reverted"
                     /\ t \in migrating.done => obligation[t] = "live"

\* "The rollback returns the project to schema 1, which turns the engine off again"
\* (docs/v2.1/MIGRATION.md:79).
RollbackTurnsOff ==
  [][(\E n \in DOMAIN records : records[n].applied /\ ~records'[n].applied)
     => schema' = 1]_vars
=============================================================================
