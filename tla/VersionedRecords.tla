-------------------------- MODULE VersionedRecords ---------------------------
(***************************************************************************)
(* What the database of the control plane promises to its clients          *)
(* (docs/CONTROL_PLANE.md, control/store.py): the records are what a log   *)
(* of writes made them; a client appends a batch of writes as a whole, and *)
(* only if it has seen the last write of every record the batch touches.   *)
(* Transactions, versions and hashes are how the store keeps the promise   *)
(* (module Store).                                                         *)
(***************************************************************************)
EXTENDS Naturals, Sequences, FiniteSets

CONSTANTS Clients,   \* processes that opened the database
          Ids,       \* identifiers of records
          Values,    \* payloads
          MaxWrites  \* writes (bound)

VARIABLES
  log,   \* every write so far, in order
  seen   \* client -> record -> how many of its writes the client knows of

vars == <<log, seen>>

Writes == [id: Ids, value: Values]

\* The number of times i is written by s.
WritesOf(i, s) == Cardinality({n \in DOMAIN s : s[n].id = i})

Touched(s) == {s[n].id : n \in DOMAIN s}

Init ==
  /\ log = << >>
  /\ seen = [c \in Clients |-> [i \in Ids |-> 0]]

\* Learn the present version of a record.
Look(c, i) ==
  /\ seen' = [seen EXCEPT ![c][i] = WritesOf(i, log)]
  /\ UNCHANGED log

\* A process that fails or ends loses what it had read.
Forget(c) ==
  /\ seen' = [seen EXCEPT ![c] = [i \in Ids |-> 0]]
  /\ UNCHANGED log

\* Append a batch; nobody else wrote what it touches since the client looked.
Extend(c, batch) ==
  /\ \A i \in Touched(batch) : seen[c][i] = WritesOf(i, log)
  /\ log' = log \o batch
  /\ seen' = [seen EXCEPT ![c] =
       [i \in Ids |-> IF i \in Touched(batch) THEN WritesOf(i, log') ELSE @[i]]]

Batches == UNION {[1..n -> Writes] : n \in 0..MaxWrites}

Next ==
  \E c \in Clients :
    \/ \E i \in Ids : Look(c, i)
    \/ Forget(c)
    \/ \E batch \in Batches : Extend(c, batch)

Spec == Init /\ [][Next]_vars
=============================================================================
