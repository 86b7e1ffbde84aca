------------------------------- MODULE Store --------------------------------
(***************************************************************************)
(* The SQLite database of the control plane (control/store.py): versioned  *)
(* records with the history of their revisions, a chain of audit events,   *)
(* and the counter of the knowledge version.  A transaction holds the      *)
(* write lock and a working copy; readers see the last committed state.    *)
(*                                                                         *)
(* The digest of an event is modelled as the event itself: two events have *)
(* the same hash exactly when everything hashed is the same.               *)
(***************************************************************************)
EXTENDS Integers, Sequences, FiniteSets

CONSTANTS Clients,   \* processes that use the database
          Ids,       \* identifiers of records
          Values,    \* payloads
          MaxWrites, \* events committed (bound)
          MaxBumps,  \* knowledge versions (bound)
          None       \* no transaction, no event

VARIABLES
  db,      \* the committed database, or None before the schema exists
  tx,      \* the open transaction: its client and working copy, or None
  client,  \* client -> whether it opened the database, and when it looked
  view     \* client -> record -> the version the client would pass as expected

vars == <<db, tx, client, view>>

-----------------------------------------------------------------------------
\* The tables

Absent == [version |-> 0, value |-> None]

Empty == [record |-> [i \in Ids |-> Absent], revision |-> {}, event |-> << >>,
          knowledge |-> 0]

Revisions == [id: Ids, version: 1..MaxWrites, value: Values, knowledge: 0..MaxBumps]

Digests == Seq((Ids \cup {None}) \X (0..MaxWrites) \X (Values \cup {None}))

Events ==
  [seq: 1..MaxWrites, id: Ids \cup {None}, version: 0..MaxWrites, value: Values \cup {None},
   previous: Digests]

Database ==
  [record: [Ids -> [version: 0..MaxWrites, value: Values \cup {None}]],
   revision: SUBSET Revisions, event: Seq(Events), knowledge: 0..MaxBumps]

StoreAssumption ==
  /\ MaxWrites \in Nat /\ MaxBumps \in Nat
  /\ None \notin Values /\ None \notin Ids /\ None \notin Database

NoView == [i \in Ids |-> 0]

TypeOK ==
  /\ db \in Database \cup {None}
  /\ tx = None \/ tx \in [by: Clients, db: Database, wrote: SUBSET Ids]
  /\ client \in [Clients -> {"closed", "fresh", "open"}]
  /\ view \in [Clients -> [Ids -> 0..MaxWrites]]

Init ==
  /\ db = None
  /\ tx = None
  /\ client = [c \in Clients |-> "closed"]
  /\ view = [c \in Clients |-> NoView]

-----------------------------------------------------------------------------
\* What is hashed of an event, with the hash before it.
Digest(e) == Append(e.previous, <<e.id, e.version, e.value>>)

HeadHash(d) == IF d.event = << >> THEN << >> ELSE Digest(d.event[Len(d.event)])

\* The events after one more, of a write or of a call that only leaves a note.
Chained(d, i, n, v) ==
  Append(d.event, [seq |-> Len(d.event) + 1, id |-> i, version |-> n, value |-> v,
                   previous |-> HeadHash(d)])

\* Faulty variant: forgets the revision of a first write.
WrittenWithoutFirst(d, i, v) ==
  LET n == d.record[i].version + 1
  IN  [d EXCEPT
        !.record[i] = [version |-> n, value |-> v],
        !.revision = IF n = 1 THEN @ ELSE
           @ \cup {[id |-> i, version |-> n, value |-> v, knowledge |-> d.knowledge]},
        !.event = Chained(d, i, n, v)]

\* The database after a record write: the record, one revision and one event.
Written(d, i, v) ==
  LET n == d.record[i].version + 1
  IN  [d EXCEPT
        !.record[i] = [version |-> n, value |-> v],
        !.revision = @ \cup {[id |-> i, version |-> n, value |-> v,
                              knowledge |-> d.knowledge]},
        !.event = Chained(d, i, n, v)]

\* Faulty variant: whoever writes last wins.
LastWins(c, i) == tx.db.record[i].version

\* The version a put passes as expected: of its own earlier put, or as read.
Expected(c, i) ==
  IF i \in tx.wrote THEN tx.db.record[i].version ELSE view[c][i]

-----------------------------------------------------------------------------
\* Opening

\* Connect and look for the schema; the answer is used after the lock is taken.
Connect(c) ==
  /\ client[c] = "closed"
  /\ client' = [client EXCEPT ![c] = IF db = None THEN "fresh" ELSE "open"]
  /\ UNCHANGED <<db, tx, view>>

\* A client that saw no schema creates it; CREATE TABLE fails when somebody was
\* faster, and the handle is closed.
CreateSchema(c) ==
  /\ client[c] = "fresh" /\ tx = None
  /\ IF db = None
     THEN db' = Empty /\ client' = [client EXCEPT ![c] = "open"]
     ELSE client' = [client EXCEPT ![c] = "closed"] /\ UNCHANGED db
  /\ UNCHANGED <<tx, view>>

-----------------------------------------------------------------------------
\* Reads and transactions

\* get: a reader sees what is committed; the writer reads through its own
\* transaction, where what it wrote is known to it already.
Get(c, i) ==
  /\ client[c] = "open"
  /\ ~(tx # None /\ tx.by = c /\ i \in tx.wrote)
  /\ db.record[i].version > 0
  /\ view' = [view EXCEPT ![c][i] = db.record[i].version]
  /\ UNCHANGED <<db, tx, client>>

Begin(c) ==
  /\ client[c] = "open" /\ tx = None
  /\ tx' = [by |-> c, db |-> db, wrote |-> {}]
  /\ UNCHANGED <<db, client, view>>

\* put with the expected version.
Put(c, i, v) ==
  /\ tx # None /\ tx.by = c
  /\ Len(tx.db.event) < MaxWrites
  /\ Expected(c, i) = tx.db.record[i].version
  /\ tx' = [tx EXCEPT !.db = Written(tx.db, i, v), !.wrote = @ \cup {i}]
  /\ UNCHANGED <<db, client, view>>

\* put raises VERSION_CONFLICT: the transaction is rolled back as a whole, and
\* the call that read the old version has failed.
Conflict(c, i) ==
  /\ tx # None /\ tx.by = c
  /\ Expected(c, i) # tx.db.record[i].version
  /\ tx' = None
  /\ view' = [view EXCEPT ![c] = NoView]
  /\ UNCHANGED <<db, client>>

\* event called by itself: what was done is told, no record is written.
Note(c) ==
  /\ tx # None /\ tx.by = c
  /\ Len(tx.db.event) < MaxWrites
  /\ tx' = [tx EXCEPT !.db.event = Chained(tx.db, None, 0, None)]
  /\ UNCHANGED <<db, client, view>>

Bump(c) ==
  /\ tx # None /\ tx.by = c
  /\ tx.db.knowledge < MaxBumps
  /\ tx' = [tx EXCEPT !.db.knowledge = @ + 1]
  /\ UNCHANGED <<db, client, view>>

Commit(c) ==
  /\ tx # None /\ tx.by = c
  /\ db' = tx.db
  /\ tx' = None
  /\ view' = [view EXCEPT ![c] =
       [i \in Ids |-> IF i \in tx.wrote THEN tx.db.record[i].version ELSE @[i]]]
  /\ UNCHANGED client

\* Any exception in the body, or a kill: SQLite discards the working copy.
Abort(c) ==
  /\ client[c] # "closed"
  /\ client' = [client EXCEPT ![c] = "closed"]
  /\ tx' = IF tx # None /\ tx.by = c THEN None ELSE tx
  /\ view' = [view EXCEPT ![c] = NoView]
  /\ UNCHANGED db

Next ==
  \E c \in Clients :
    \/ Connect(c)
    \/ CreateSchema(c)
    \/ \E i \in Ids : Get(c, i) \/ Conflict(c, i) \/ \E v \in Values : Put(c, i, v)
    \/ Begin(c)
    \/ Bump(c)
    \/ Note(c)
    \/ Commit(c)
    \/ Abort(c)

Spec == Init /\ [][Next]_vars

-----------------------------------------------------------------------------
\* Properties

Tables == IF db = None THEN Empty ELSE db

\* audit(): every event names its place and the hash of the one before it.
Audit(d) ==
  \A n \in DOMAIN d.event :
    /\ d.event[n].seq = n
    /\ d.event[n].previous = IF n = 1 THEN << >> ELSE Digest(d.event[n - 1])

\* history(): exactly one revision for every version, the last being the record.
Complete(d) ==
  \A i \in Ids :
    LET mine == {r \in d.revision : r.id = i}
    IN  /\ {r.version : r \in mine} = 1..d.record[i].version
        /\ \A r, s \in mine : r.version = s.version => r = s
        /\ \A r \in mine : r.version = d.record[i].version => r.value = d.record[i].value

\* entities_at() takes the last version of each record up to a knowledge version:
\* it means something only if later versions carry later knowledge.
Ordered(d) ==
  \A r, s \in d.revision :
    r.id = s.id /\ r.version < s.version => r.knowledge <= s.knowledge

\* The places of the events that tell of writes.
WritePlaces(d) == {n \in DOMAIN d.event : d.event[n].id # None}

\* Each write left one event, and the other way round.
Accounted(d) ==
  /\ Cardinality(WritePlaces(d)) = Cardinality(d.revision)
  /\ \A r \in d.revision : \E n \in DOMAIN d.event :
       d.event[n].id = r.id /\ d.event[n].version = r.version /\ d.event[n].value = r.value

\* At every commit, whatever calls ran side by side, failed or were killed, the
\* audit of the chain passes, and events, revisions and records tell one history.
AuditTrail ==
  Audit(Tables) /\ Complete(Tables) /\ Ordered(Tables) /\ Accounted(Tables)

\* The n-th of a set of places, and what the n-th write was.
Place(W, n) == CHOOSE m \in W : Cardinality({k \in W : k <= m}) = n

WriteAt(d, n) ==
  LET e == d.event[Place(WritePlaces(d), n)] IN [id |-> e.id, value |-> e.value]

\* Every write that is told of, in order.
LogOf(d) == [n \in 1..Cardinality(WritePlaces(d)) |-> WriteAt(d, n)]

VR == INSTANCE VersionedRecords WITH log <- LogOf(Tables), seen <- view

\* No update is lost and no transaction is seen in part: the store is a log of
\* batches, each written by a client that had seen the last write of all it touches.
ImplementsRecords == VR!Spec

=============================================================================
