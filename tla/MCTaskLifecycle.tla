-------------------------- MODULE MCTaskLifecycle ---------------------------
(***************************************************************************)
(* Small instances of TaskLifecycle.                                       *)
(***************************************************************************)
EXTENDS TaskLifecycle, TLC

\* Two tasks on disjoint directories, and one on a file of the first directory.
MCContract ==
  [t \in Tasks |->
     CASE ToString(t) = "t1" -> [scope |-> {<<"src", "api">>}, boundaries |-> {"http"}, risk |-> "STANDARD"]
       [] ToString(t) = "t2" -> [scope |-> {<<"src", "db">>}, boundaries |-> {"sql"}, risk |-> "LOW"]
       [] OTHER -> [scope |-> {<<"src", "api", "auth">>}, boundaries |-> {}, risk |-> "LOW"]]

MCFiles == {<<"src", "api", "http">>, <<"src", "api", "auth">>,
            <<"src", "api", "auth", "db">>, <<"src", "db", "sql">>}

MCCapable == [t \in Tasks |-> Agents]

MCSymmetry == Permutations(Agents) \cup Permutations(LeaseIds) \cup Permutations(Procs)
=============================================================================
