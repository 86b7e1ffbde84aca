----------------------------- MODULE MCRecords ------------------------------
(***************************************************************************)
(* Small instances of the components of Records and of who may work on     *)
(* which task at a time.  They are explored side by side: `part` says      *)
(* which one moves, and the others stay where they start, so that the      *)
(* states of the run are those of the ten instances.                       *)
(***************************************************************************)
EXTENDS TaskLifecycle, Records, TLC

VARIABLE part \* the component that moves

\* Two tasks on disjoint directories and one on a file of the first directory.
MCContract ==
  [t \in Tasks |->
     CASE t = "t1" -> [scope |-> {<<"src", "api">>}, boundaries |-> {"http"}, risk |-> "STANDARD"]
       [] t = "t2" -> [scope |-> {<<"src", "db">>}, boundaries |-> {"sql"}, risk |-> "LOW"]
       [] t = "t3" -> [scope |-> {<<"src", "api", "auth">>}, boundaries |-> {}, risk |-> "LOW"]]

MCFiles == {<<"src", "api", "http">>, <<"src", "api", "auth">>,
            <<"src", "api", "auth", "db">>, <<"src", "db", "sql">>}

MCCapable == [t \in Tasks |-> Agents]

\* The ranks of the authorities of claims.
MCRank == [a \in Authorities |-> CASE a = "code" -> 3 [] a = "contract" -> 5 [] a = "human" -> 6]

\* Two mutants at one position.
MCPosition == [m \in {1, 2} |-> "k"]

\* A file of the control shard and two of the core shard, one of them without mutants; a
\* test imports both the others.
MCShard == [x \in {"f", "g", "h"} |-> IF x = "g" THEN "control" ELSE "core"]

MCFileOf == [m \in {1, 2, 3} |-> IF m = 3 THEN "g" ELSE "f"]

MCChangeOf == [m \in {1, 2, 3} |-> IF m = 3 THEN "y" ELSE "x"]

MCImports == [x \in {"t"} |-> {"f", "g"}]

-----------------------------------------------------------------------------
\* Where a campaign starts while another component moves, and where the gate starts: every
\* mutant is killed, so that whatever is wrong came in by a pull request.
CampaignRests == Campaign!Init /\ sources = 0 /\ report = Missing
GateRests == Gate!Init /\ main = [outcome |-> [m \in Changed |-> "killed"], exceptions |-> {}]

MCInit ==
  /\ part \in {"store", "graph", "claims", "ledger", "migration", "kit", "verifiers",
               "campaign", "gate", "work"}
  /\ Init /\ Storing!Init /\ Graph!Init /\ Claiming!Init /\ Ledger!Init
  /\ Migration!Init /\ Kit!Init /\ Verifiers!Init
  /\ IF part = "campaign" THEN Campaign!Init ELSE CampaignRests
  /\ GateRests

WorkMoves ==
  /\ part = "work" /\ Next
  /\ UNCHANGED <<part, store, graph, claim, evidence, migration, kit, verifiers, mutation, gate>>
StoreMoves ==
  /\ part = "store" /\ Storing!Next
  /\ UNCHANGED <<part, vars, graph, claim, evidence, migration, kit, verifiers, mutation, gate>>
GraphMoves ==
  /\ part = "graph" /\ Graph!Next
  /\ UNCHANGED <<part, vars, store, claim, evidence, migration, kit, verifiers, mutation, gate>>
ClaimsMoves ==
  /\ part = "claims" /\ Claiming!Next
  /\ UNCHANGED <<part, vars, store, graph, evidence, migration, kit, verifiers, mutation, gate>>
LedgerMoves ==
  /\ part = "ledger" /\ Ledger!Next
  /\ UNCHANGED <<part, vars, store, graph, claim, migration, kit, verifiers, mutation, gate>>
MigrationMoves ==
  /\ part = "migration" /\ Migration!Next
  /\ UNCHANGED <<part, vars, store, graph, claim, evidence, kit, verifiers, mutation, gate>>
KitMoves ==
  /\ part = "kit" /\ Kit!Next
  /\ UNCHANGED <<part, vars, store, graph, claim, evidence, migration, verifiers, mutation, gate>>
VerifiersMoves ==
  /\ part = "verifiers" /\ Verifiers!Next
  /\ UNCHANGED <<part, vars, store, graph, claim, evidence, migration, kit, mutation, gate>>
CampaignMoves ==
  /\ part = "campaign" /\ Campaign!Next
  /\ UNCHANGED <<part, vars, store, graph, claim, evidence, migration, kit, verifiers, gate>>
GateMoves ==
  /\ part = "gate" /\ Gate!Next
  /\ UNCHANGED <<part, vars, store, graph, claim, evidence, migration, kit, verifiers, mutation>>

MCNext ==
  \/ StoreMoves \/ GraphMoves \/ ClaimsMoves \/ LedgerMoves \/ MigrationMoves
  \/ KitMoves \/ VerifiersMoves \/ CampaignMoves \/ GateMoves \/ WorkMoves

MCSpec ==
  MCInit
  /\ [][MCNext]_<<part, vars, store, graph, claim, evidence, migration, kit,
                  verifiers, mutation, gate>>

MCSymmetry == Permutations(Agents) \cup Permutations(LeaseIds) \cup Permutations(Values)
=============================================================================
