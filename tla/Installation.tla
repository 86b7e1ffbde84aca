---------------------------- MODULE Installation ----------------------------
(***************************************************************************)
(* The kit inside a repository: what init, adopt, repair and preflight     *)
(* write, and what readiness says of it (bootstrap.py, adapters.py,        *)
(* repair.py, readiness.py, control/preflight.py, adopt of                 *)
(* control/plane.py).  Nothing here is a transaction: an operation is a    *)
(* sequence of file writes, it is killed in the middle of any of them, two *)
(* of them run side by side, and the owner edits and deletes the files.    *)
(*                                                                         *)
(* A file is "absent", as this release writes it ("kit"), the owner's own  *)
(* ("own"), of a newer release ("newer"), or half written ("torn").  A     *)
(* write looks at the file in one step and writes in another.              *)
(***************************************************************************)
EXTENDS Integers, Sequences, FiniteSets, SequencesExt

CONSTANTS Tools,     \* processes that run init or preflight
          Plain,     \* what the payload copies as it is, and readiness looks for
          Directories, \* those of them that are directories
          MaxEvents, \* calls of init, kills and edits by the owner (bound)
          None       \* no control directory, no recorded mode

InstallationAssumption ==
  /\ MaxEvents \in Nat /\ Plain # {} /\ Directories \subseteq Plain
  /\ Plain \cap {"gates", "skills", "config", "AGENTS.md", "asked", "mode", "control", "adopt",
                 "rename", "reconcile"} = {}

VARIABLES
  file,    \* payload file, quality gates, canonical skills -> its contents
  agents,  \* AGENTS.md: the owner's text before and after, and the managed block
  config,  \* .agentic/config.json
  control, \* .agentic/control: None, "bare", or the database inside
  tool,    \* tool -> the writes left to do, what it was asked, what the next write saw
  events   \* calls of init, kills and edits so far

vars == <<file, agents, config, control, tool, events>>

Contents == {"absent", "kit", "own", "newer", "torn"}
Blocks == {"absent", "kit", "newer", "open", "doubled"}
Modes == {None, "managed", "rules-only"}
Requests == {"none", "init", "adopt", "rules-only", "repair"}

Texts == [own: {"none", "text", "lost"}, after: BOOLEAN, block: Blocks]
Configurations == [is: {"absent", "torn", "ours", "newer"}, mode: Modes]

Idle == [todo |-> << >>, ask |-> "none", force |-> FALSE, mode |-> None, saw |-> None]

At(p, write) == tool[p].todo # << >> /\ tool[p].todo[1] = write

TypeOK ==
  /\ file \in [Plain \cup {"gates", "skills"} -> Contents]
  /\ agents \in Texts /\ config \in Configurations
  /\ control \in [is: {"absent", "bare", "adopted"}, by: Tools \cup {None}, stale: BOOLEAN]
  /\ \A p \in Tools :
       /\ tool[p].ask \in Requests /\ tool[p].mode \in Modes
       /\ tool[p].saw # None =>
            /\ At(p, "AGENTS.md") => tool[p].saw \in Texts
            /\ At(p, "mode") => tool[p].saw \in Configurations
  /\ events \in 0..MaxEvents

Nothing == [is |-> "absent", by |-> None, stale |-> FALSE]

\* A repository with text of its own in AGENTS.md, and no kit.
Init ==
  /\ file = [f \in Plain \cup {"gates", "skills"} |-> "absent"]
  /\ agents = [own |-> "text", after |-> FALSE, block |-> "absent"]
  /\ config = [is |-> "absent", mode |-> None]
  /\ control = Nothing
  /\ tool = [p \in Tools |-> Idle]
  /\ events = 0

-----------------------------------------------------------------------------
\* readiness.inspect: the status of each check that may call for a repair or a person

Adopted == control.is = "adopted"

Legible(configuration) == configuration.is \in {"ours", "newer"}

Readable == Legible(config)

\* control_mode
Mode == IF Readable /\ config.mode # None THEN config.mode ELSE "managed"

\* shape is absent: nothing under .agentic, no quality configuration.
Shapeless ==
  (\A f \in DOMAIN file : file[f] = "absent") /\ config.is = "absent" /\ control.is = "absent"

InstallationCheck ==
  IF \/ Shapeless
     \/ agents.own = "none" /\ agents.block = "absent"
     \/ \E f \in Plain : file[f] = "absent"
  THEN "MISSING" ELSE "PASS"

VersionCheck == IF config.is = "newer" THEN "FAIL" ELSE "PASS"

DisciplinesCheck == IF file["skills"] = "absent" THEN "MISSING" ELSE "PASS"

\* What a sync would write is compared with what is there.
AgentAdapterCheck ==
  IF agents.block = "kit" /\ file["skills"] = "kit" THEN "PASS" ELSE "STALE"

QualityGatesCheck ==
  CASE file["gates"] = "absent" -> "MISSING" [] file["gates"] = "torn" -> "FAIL"
    [] OTHER -> "PASS"

\* A directory without a database is nobody's to repair.
ControlPlaneCheck ==
  CASE Adopted -> "PASS" [] control.is = "bare" -> "FAIL"
    [] Mode = "rules-only" -> "OFF" [] OTHER -> "MISSING"

KnowledgeCheck ==
  CASE ~Adopted -> "caused by control_plane" [] control.stale -> "STALE"
    [] OTHER -> "PASS"

Checks ==
  [installation |-> InstallationCheck, version |-> VersionCheck,
   disciplines |-> DisciplinesCheck, agent_adapter |-> AgentAdapterCheck,
   quality_gates |-> QualityGatesCheck, control_plane |-> ControlPlaneCheck,
   knowledge |-> KnowledgeCheck]

Repairable(c) == Checks[c] \in {"MISSING", "STALE"}

\* _verdict: a stale index is drift, and no gap.
State ==
  CASE Shapeless -> "NOT_INITIALIZED"
    [] \E c \in DOMAIN Checks : Checks[c] = "FAIL" -> "BROKEN"
    [] Checks.control_plane = "OFF" -> "DEGRADED"
    [] \E c \in DOMAIN Checks \ {"knowledge"} : Repairable(c) -> "PARTIAL"
    [] OTHER -> "READY"

\* preflight.run: the mode an execution may proceed in.
Flight == CASE State = "READY" -> "FULL" [] State = "DEGRADED" -> "DEGRADED" [] OTHER -> "BLOCKED"

-----------------------------------------------------------------------------
\* The operations, as the writes they do in order

Install == SetToSeq(Plain) \o <<"config", "gates", "skills", "AGENTS.md", "asked", "mode">>

\* plan: the repairs of the failing checks in dependency order, the payload once.
Repairs ==
  LET when(checks, writes) == IF \E c \in checks : Repairable(c) THEN writes ELSE << >>
  IN  when({"installation", "disciplines", "quality_gates"}, Install)
      \o when({"agent_adapter"}, <<"skills", "AGENTS.md">>)
      \o when({"control_plane"}, <<"adopt">>)
      \o when({"knowledge"}, <<"reconcile">>)

\* What people and accidents do is bounded; the tools' own work is not.
Event == events < MaxEvents /\ events' = events + 1

\* init, with --force, --adopt or --rules-only.
StartInit(p, ask, force) ==
  /\ tool[p] = Idle /\ Event
  /\ tool' = [tool EXCEPT ![p] =
       [Idle EXCEPT !.todo = Install \o <<"control">>, !.ask = ask, !.force = force]]
  /\ UNCHANGED <<file, agents, config, control>>

\* preflight repairs first: all that the checks call for, once.
StartPreflight(p) ==
  /\ tool[p] = Idle /\ Repairs # << >>
  /\ tool' = [tool EXCEPT ![p] = [Idle EXCEPT !.todo = Repairs, !.ask = "repair"]]
  /\ UNCHANGED <<file, agents, config, control, events>>

\* Goes on with other writes, or ends.
Onward(p, writes) ==
  tool' = [tool EXCEPT ![p] =
    IF writes = << >> THEN Idle ELSE [tool[p] EXCEPT !.todo = writes, !.saw = None]]

Done(p) == Onward(p, Tail(tool[p].todo))

Instead(p, writes) == Onward(p, writes \o Tail(tool[p].todo))

Raise(p) == tool' = [tool EXCEPT ![p] = Idle]

\* An error in the middle of the payload: init ends, repair.apply goes on after it.
LeaveInstall(p) ==
  IF tool[p].ask # "repair" THEN Raise(p)
  ELSE LET todo == tool[p].todo
       IN  Onward(p, SubSeq(todo, SelectInSeq(todo, LAMBDA write : write = "mode") + 1, Len(todo)))

\* What there is of a file when a tool tests for it or reads it.
There(write) ==
  CASE write = "AGENTS.md" -> agents [] write \in {"config", "mode"} -> config
    [] OTHER -> file[write]

Looked == Plain \cup {"gates", "skills", "config", "AGENTS.md", "mode"}

Look(p) ==
  /\ \E write \in Looked :
       At(p, write) /\ tool[p].saw = None /\ tool' = [tool EXCEPT ![p].saw = There(write)]
  /\ UNCHANGED <<file, agents, config, control, events>>

\* The tool has looked at what it is about to write.
Saw(p, write) == At(p, write) /\ tool[p].saw # None

\* Faulty variant: copies over what is there.
CopyAlways(p, there) == TRUE

\* _copy_item and _write_json leave alone what exists, unless forced.
Copies(p, there) == tool[p].force \/ ~there

\* A directory that appeared after the test is not copied over: copytree raises.
WriteFile(p, f) ==
  LET copies == Copies(p, tool[p].saw # "absent")
      raises == copies /\ f \in Directories /\ ~tool[p].force /\ file[f] # "absent"
  IN  /\ Saw(p, f) /\ f \in Plain \cup {"gates"}
      /\ file' = IF copies /\ ~raises THEN [file EXCEPT ![f] = "kit"] ELSE file
      /\ IF raises THEN LeaveInstall(p) ELSE Done(p)
      /\ UNCHANGED <<agents, config, control, events>>

WriteConfig(p) ==
  /\ Saw(p, "config")
  /\ config' = IF Copies(p, tool[p].saw.is # "absent") THEN [is |-> "ours", mode |-> None]
               ELSE config
  /\ Done(p)
  /\ UNCHANGED <<file, agents, control, events>>

\* Emission.write: generated files are brought up to date whatever they held.
WriteSkills(p) ==
  /\ Saw(p, "skills")
  /\ file' = IF tool[p].saw = "kit" THEN file ELSE [file EXCEPT !["skills"] = "kit"]
  /\ Done(p)
  /\ UNCHANGED <<agents, config, control, events>>

\* Faulty variant: looks for the end of a region that was never closed, and raises.
ManagedUnlessOpen(text) ==
  IF text.block = "open" THEN text ELSE [text EXCEPT !.block = "kit"]

\* write_managed: a region is replaced, with everything up to the end marker; without
\* both markers the block is appended.
Managed(text) ==
  CASE text.block = "open" -> [text EXCEPT !.block = "doubled"]
    [] text.block = "doubled" -> [text EXCEPT !.block = "kit", !.after = FALSE]
    [] OTHER -> [text EXCEPT !.block = "kit"]

\* What was read is written back with its region replaced, whatever the file holds by now.
WriteAgents(p) ==
  /\ Saw(p, "AGENTS.md")
  /\ agents' = Managed(tool[p].saw)
  /\ Done(p)
  /\ UNCHANGED <<file, config, control, events>>

\* _control_mode_for
Asked(p) ==
  CASE Adopted -> "managed"
    [] ~Adopted /\ tool[p].ask = "rules-only" -> "rules-only"
    [] ~Adopted /\ tool[p].ask = "adopt" -> "managed"
    [] OTHER -> Mode

ChooseMode(p) ==
  /\ At(p, "asked")
  /\ tool' = [tool EXCEPT ![p] =
       [tool[p] EXCEPT !.todo = Tail(tool[p].todo), !.mode = Asked(p), !.saw = None]]
  /\ UNCHANGED <<file, agents, config, control, events>>

\* _set_control_mode: what cannot be read, or has the mode, is left as it is.
SetsMode(p) == Legible(tool[p].saw) /\ tool[p].saw.mode # tool[p].mode

WriteMode(p) ==
  /\ Saw(p, "mode")
  /\ config' = IF SetsMode(p) THEN [tool[p].saw EXCEPT !.mode = tool[p].mode] ELSE config
  /\ Done(p)
  /\ UNCHANGED <<file, agents, control, events>>

-----------------------------------------------------------------------------
\* The control plane

\* _control_phase of init: rules-only is left alone, an adopted project reindexed.
Control(p) ==
  /\ At(p, "control")
  /\ IF tool[p].mode = "rules-only" \/ tool[p].ask = "rules-only" THEN Done(p)
     ELSE Instead(p, IF Adopted THEN <<"reconcile">> ELSE <<"adopt">>)
  /\ UNCHANGED <<file, agents, config, control, events>>

\* adopt: a directory without a database is refused; else a database is built in a
\* directory beside it.
Adopt(p) ==
  /\ At(p, "adopt")
  /\ CASE Adopted -> Done(p)
       [] control.is = "bare" -> Raise(p)
       [] OTHER -> Instead(p, <<"rename">>)
  /\ UNCHANGED <<file, agents, config, control, events>>

\* Faulty variant: the staged directory takes the place of what is there.
RenameOver(p) ==
  /\ At(p, "rename")
  /\ \E moved \in BOOLEAN : control' = [is |-> "adopted", by |-> p, stale |-> moved]
  /\ Done(p)
  /\ UNCHANGED <<file, agents, config, events>>

\* The staged directory is renamed, which fails where a directory appeared meanwhile;
\* the tree may have moved since it was indexed.
Rename(p) ==
  /\ At(p, "rename")
  /\ IF control.is = "absent"
     THEN /\ \E moved \in BOOLEAN : control' = [is |-> "adopted", by |-> p, stale |-> moved]
          /\ Done(p)
     ELSE Raise(p) /\ UNCHANGED control
  /\ UNCHANGED <<file, agents, config, events>>

Reconcile(p) ==
  /\ At(p, "reconcile")
  /\ IF Adopted THEN control' = [control EXCEPT !.stale = FALSE] /\ Done(p)
     ELSE Raise(p) /\ UNCHANGED control
  /\ UNCHANGED <<file, agents, config, events>>

Write(p) ==
  \/ Look(p) \/ \E f \in Plain \cup {"gates"} : WriteFile(p, f)
  \/ WriteConfig(p) \/ WriteSkills(p) \/ WriteAgents(p) \/ ChooseMode(p) \/ WriteMode(p)
  \/ Control(p) \/ Adopt(p) \/ Rename(p) \/ Reconcile(p)

-----------------------------------------------------------------------------
\* What happens to the files from outside

\* The tool is killed while it writes the next file, which is left half written.
KillInFile(p, f) ==
  /\ Saw(p, f) /\ Event
  /\ IF f = "skills" THEN tool[p].saw # "kit" ELSE Copies(p, tool[p].saw # "absent")
  /\ f \in Directories /\ ~tool[p].force => file[f] = "absent"
  /\ file' = [file EXCEPT ![f] = "torn"]
  /\ Raise(p)
  /\ UNCHANGED <<agents, config, control>>

KillInConfig(p) ==
  /\ Event
  /\ \/ Saw(p, "config") /\ Copies(p, tool[p].saw.is # "absent")
     \/ Saw(p, "mode") /\ SetsMode(p)
  /\ config' = [is |-> "torn", mode |-> None]
  /\ Raise(p)
  /\ UNCHANGED <<file, agents, control>>

\* AGENTS.md is rewritten from its start: what the prefix holds is left.
KillInAgents(p) ==
  /\ Saw(p, "AGENTS.md") /\ Managed(tool[p].saw) # agents /\ Event
  /\ agents' \in {[own |-> IF tool[p].saw.own = "none" THEN "none" ELSE "lost", after |-> FALSE,
                    block |-> "absent"],
                   [own |-> tool[p].saw.own, after |-> FALSE, block |-> "open"]}
  /\ Raise(p)
  /\ UNCHANGED <<file, config, control>>

\* Killed between two writes; a staging directory left behind is never looked at.
Kill(p) ==
  /\ tool[p].todo # << >> /\ Event
  /\ Raise(p)
  /\ UNCHANGED <<file, agents, config, control>>

OwnerWrites(f) ==
  /\ file[f] # "own" /\ Event
  /\ file' \in {[file EXCEPT ![f] = "own"], [file EXCEPT ![f] = "absent"]}
  /\ control' = [control EXCEPT !.stale = Adopted]
  /\ UNCHANGED <<agents, config, tool>>

OwnerWritesAgents ==
  /\ Event
  /\ agents' \in {[agents EXCEPT !.after = TRUE],
                   [own |-> "none", after |-> FALSE, block |-> "absent"]}
  /\ UNCHANGED <<file, config, control, tool>>

\* A directory nobody can explain takes the place of the control plane, or none does.
OwnerMovesControl ==
  /\ Event
  /\ control' \in {Nothing, [Nothing EXCEPT !.is = "bare"]} \ {control}
  /\ UNCHANGED <<file, agents, config, tool>>

\* A newer release of the kit installs itself.
NewerKit ==
  /\ Event /\ Readable /\ \A p \in Tools : tool[p] = Idle
  /\ config' = [config EXCEPT !.is = "newer"]
  /\ file' = [file EXCEPT !["skills"] = "newer"]
  /\ agents' = [agents EXCEPT !.block = "newer"]
  /\ UNCHANGED <<control, tool>>

Next ==
  \/ \E p \in Tools :
       \/ \E ask \in {"init", "adopt", "rules-only"}, force \in BOOLEAN : StartInit(p, ask, force)
       \/ StartPreflight(p)
       \/ Write(p)
       \/ \E f \in DOMAIN file : KillInFile(p, f)
       \/ KillInConfig(p) \/ KillInAgents(p) \/ Kill(p)
  \/ \E f \in DOMAIN file : OwnerWrites(f)
  \/ OwnerWritesAgents \/ OwnerMovesControl \/ NewerKit

Spec == Init /\ [][Next]_vars

\* Work goes on, and every execution starts with a preflight.
FairSpec ==
  Spec /\ \A p \in Tools : WF_vars(Write(p)) /\ WF_vars(StartPreflight(p))

-----------------------------------------------------------------------------
\* Properties

\* The tool whose step it is.
Working == {p \in Tools : tool'[p] # tool[p]}

\* What the tool looked at for its next write is still there.
Unmoved(p) == tool[p].saw # None => tool[p].saw = There(tool[p].todo[1])

\* A repair fills in what is missing: no write of an operation that was not forced replaces
\* a directory the owner made, nor, unless the file changed after the tool looked at it,
\* what the owner wrote outside a well-formed managed region.
OwnTextKept ==
  \A p \in Working : Write(p) /\ ~tool[p].force =>
    /\ \A f \in Plain \cup {"gates"} :
         file[f] = "own" /\ (f \in Directories \/ Unmoved(p)) => file'[f] = "own"
    /\ Unmoved(p) =>
         /\ agents'.own = agents.own
         /\ agents.block # "doubled" => agents'.after = agents.after

\* History is never split: whatever runs side by side or is killed, no tool replaces an
\* adopted plane or leaves a control directory without a whole database.
OnePlane ==
  \A p \in Working : Write(p) \/ Kill(p) =>
    /\ Adopted => control'.is = "adopted" /\ control'.by = control.by
    /\ control'.is = "bare" => control.is = "bare"

\* What is the owner's, text and history, no unforced operation replaces.
OwnWorkKept == [][OwnTextKept /\ OnePlane]_vars

\* Repeated preflights leave no gap a repair can close: the project ends up usable, or
\* in need of a person.
GapsClose == <>[](State \in {"READY", "DEGRADED", "BROKEN"})

\* bootstrap: "`rules-only` is a decision, and init does not quietly reverse one."
RulesOnlyKept ==
  [][\A p \in Tools : Readable /\ config.mode = "rules-only" /\ Write(p) =>
       tool[p].ask = "adopt" \/ (Mode' = "rules-only" /\ control' = control)]_vars

\* bootstrap: a payload of a newer kit "must not quietly" be written over.
NewerPayloadKept ==
  [][\A p \in Tools : config.is = "newer" /\ Write(p) /\ ~tool[p].force =>
       \A f \in DOMAIN file : file[f] = "newer" => file'[f] = "newer"]_vars
=============================================================================
