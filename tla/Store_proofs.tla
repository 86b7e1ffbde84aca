---------------------------- MODULE Store_proofs ----------------------------
(***************************************************************************)
(* Theorems about Store, for any clients, records, payloads and bounds.    *)
(***************************************************************************)
EXTENDS Store, FiniteSetTheorems, SequenceTheorems, TLAPS

-----------------------------------------------------------------------------
\* The inductive invariant

\* Every write has its place in the log.
Placed(d) ==
  \A n \in 1..Cardinality(WritePlaces(d)) :
    Place(WritePlaces(d), n) \in WritePlaces(d) /\ WriteAt(d, n) \in VR!Writes

\* What makes a committed database or a working copy sound.  The last two parts are what
\* AuditTrail needs to survive a write: no revision is ahead of the knowledge version, and a
\* record has as many versions as the log has writes of it.
Sound(d) ==
  /\ d \in Database
  /\ Len(d.event) <= MaxWrites
  /\ \A i \in Ids : d.record[i].version <= Len(d.event)
  /\ IsFiniteSet(d.revision)
  /\ Audit(d) /\ Complete(d) /\ Ordered(d) /\ Accounted(d)
  /\ \A r \in d.revision : r.knowledge <= d.knowledge
  /\ Placed(d)
  /\ \A i \in Ids : d.record[i].version = VR!WritesOf(i, LogOf(d))

\* A client with an open handle has a database, and so has a transaction.
Opened ==
  /\ \A c \in Clients : client[c] = "open" => db # None
  /\ tx # None => db # None

\* A working copy is the committed database with a batch of writes on top, of records whose
\* last committed version the writer had seen.
Follows ==
  /\ \A i \in Ids \ tx.wrote : tx.db.record[i] = db.record[i]
  /\ \A i \in tx.wrote : view[tx.by][i] = db.record[i].version
  /\ \E batch \in Seq(VR!Writes) :
       LogOf(tx.db) = LogOf(db) \o batch /\ VR!Touched(batch) = tx.wrote

IInv ==
  /\ TypeOK
  /\ Sound(Tables)
  /\ tx # None => Sound(tx.db) /\ Follows
  /\ Opened

-----------------------------------------------------------------------------
\* Facts about places

\* The places of writes are a finite set of naturals.
LEMMA PlacesFinite ==
  ASSUME NEW d \in Database
  PROVE  /\ WritePlaces(d) \subseteq 1..Len(d.event) /\ Len(d.event) \in Nat
         /\ DOMAIN d.event = 1..Len(d.event)
         /\ IsFiniteSet(WritePlaces(d)) /\ Cardinality(WritePlaces(d)) \in Nat
<1>1. DOMAIN d.event = 1..Len(d.event) /\ Len(d.event) \in Nat
  BY LenProperties DEF Database
<1>2. WritePlaces(d) \subseteq 1..Len(d.event)
  BY <1>1 DEF WritePlaces
<1>3. IsFiniteSet(1..Len(d.event))
  BY <1>1, FS_Interval
<1>4. IsFiniteSet(WritePlaces(d))
  BY <1>2, <1>3, FS_Subset
<1>5. QED
  BY <1>1, <1>2, <1>4, FS_CardinalityType

\* A place after all others is the last one, and leaves the others where they are.
LEMMA PlaceAdded ==
  ASSUME NEW k \in Nat, NEW W, W \subseteq 1..k
  PROVE  /\ \A n \in 1..Cardinality(W) : Place(W \cup {k + 1}, n) = Place(W, n)
         /\ Place(W \cup {k + 1}, Cardinality(W) + 1) = k + 1
         /\ Cardinality(W \cup {k + 1}) = Cardinality(W) + 1
         /\ Cardinality(W) \in Nat
<1> DEFINE V == W \cup {k + 1}
           upTo(S, m) == {j \in S : j <= m}
<1>1. IsFiniteSet(1..k)
  BY FS_Interval
<1>2. IsFiniteSet(W) /\ Cardinality(W) \in Nat
  BY <1>1, FS_Subset, FS_CardinalityType
<1>3. k + 1 \notin W /\ W \subseteq Nat
  OBVIOUS
<1>4. Cardinality(V) = Cardinality(W) + 1
  BY <1>2, <1>3, FS_AddElement
<1>5. ASSUME NEW m \in W PROVE upTo(V, m) = upTo(W, m) /\ upTo(W, m) \subseteq W
  OBVIOUS
<1>6. upTo(V, k + 1) = V
  <2>1. \A j \in V : j <= k + 1
    OBVIOUS
  <2>2. QED
    BY <2>1
<1>7. ASSUME NEW m \in W
      PROVE  Cardinality(upTo(V, m)) \in Nat /\ Cardinality(upTo(V, m)) <= Cardinality(W)
  BY <1>2, <1>5, FS_Subset, FS_CardinalityType
<1> HIDE DEF upTo
<1>8. ASSUME NEW n \in 1..Cardinality(W) PROVE Place(V, n) = Place(W, n)
  <2>1. \A m : (m \in V /\ Cardinality(upTo(V, m)) = n)
                <=> (m \in W /\ Cardinality(upTo(W, m)) = n)
    <3>1. ASSUME NEW m \in W PROVE m \in V /\ upTo(V, m) = upTo(W, m)
      BY <1>5
    <3>2. Cardinality(upTo(V, k + 1)) # n
      <4>1. Cardinality(upTo(V, k + 1)) = Cardinality(W) + 1
        BY <1>4, <1>6
      <4>2. QED
        BY <1>2, <4>1
    <3>3. QED
      BY <3>1, <3>2
  <2>2. QED
    BY <2>1 DEF Place, upTo
<1>9. Place(V, Cardinality(W) + 1) = k + 1
  <2>1. \A m \in V : Cardinality(upTo(V, m)) = Cardinality(W) + 1 <=> m = k + 1
    BY <1>2, <1>4, <1>6, <1>7
  <2>2. QED
    BY <2>1 DEF Place, upTo
<1>10. QED
  BY <1>2, <1>4, <1>8, <1>9

-----------------------------------------------------------------------------
\* One more event

\* What an event of a write or a note adds to the chain and to the log.
LEMMA EventAdded ==
  ASSUME StoreAssumption, NEW d \in Database, Len(d.event) < MaxWrites, Audit(d),
         NEW i \in Ids \cup {None}, NEW n \in 0..MaxWrites, NEW v \in Values \cup {None},
         NEW e, e.event = Chained(d, i, n, v)
  PROVE  /\ e.event \in Seq(Events) /\ Len(e.event) = Len(d.event) + 1
         /\ \A k \in 1..Len(d.event) : e.event[k] = d.event[k]
         /\ e.event[Len(d.event) + 1].id = i
         /\ e.event[Len(d.event) + 1].version = n
         /\ e.event[Len(d.event) + 1].value = v
         /\ Audit(e)
<1> DEFINE L == Len(d.event)
           new == [seq |-> L + 1, id |-> i, version |-> n, value |-> v, previous |-> HeadHash(d)]
<1>1. L \in Nat /\ DOMAIN d.event = 1..L /\ d.event \in Seq(Events) /\ MaxWrites \in Nat
  BY LenProperties DEF Database, StoreAssumption
<1>2. HeadHash(d) \in Digests
  <2>1. CASE d.event = << >>
    BY <2>1 DEF HeadHash, Digests
  <2>2. CASE d.event # << >>
    <3>1. L \in 1..L
      BY <1>1, <2>2, EmptySeq
    <3>2. d.event[L] \in Events
      BY <1>1, <3>1, ElementOfSeq
    <3>3. <<d.event[L].id, d.event[L].version, d.event[L].value>>
            \in (Ids \cup {None}) \X (0..MaxWrites) \X (Values \cup {None})
      BY <3>2 DEF Events
    <3>4. QED
      BY <2>2, <3>2, <3>3, AppendProperties DEF HeadHash, Digest, Events, Digests
  <2>3. QED
    BY <2>1, <2>2
<1>3. new \in Events
  BY <1>1, <1>2 DEF Events
<1>4. e.event = Append(d.event, new)
  BY DEF Chained
<1>5. /\ e.event \in Seq(Events) /\ Len(e.event) = L + 1
      /\ \A k \in 1..L : e.event[k] = d.event[k]
      /\ e.event[L + 1] = new
  BY <1>1, <1>3, <1>4, AppendProperties
<1>6. Audit(e)
  <2> SUFFICES ASSUME NEW k \in DOMAIN e.event
               PROVE  /\ e.event[k].seq = k
                      /\ e.event[k].previous = IF k = 1 THEN << >> ELSE Digest(e.event[k - 1])
    BY DEF Audit
  <2>1. k \in 1..(L + 1)
    BY <1>5, LenProperties
  <2>2. CASE k \in 1..L
    <3>1. e.event[k] = d.event[k] /\ (k # 1 => e.event[k - 1] = d.event[k - 1])
      BY <1>1, <1>5, <2>2
    <3>2. QED
      BY <1>1, <2>2, <3>1 DEF Audit
  <2>3. CASE k = L + 1
    <3>1. HeadHash(d) = IF L = 0 THEN << >> ELSE Digest(d.event[L])
      BY <1>1, EmptySeq DEF HeadHash
    <3>2. L # 0 => e.event[L] = d.event[L]
      BY <1>1, <1>5
    <3>3. QED
      BY <1>1, <1>5, <2>3, <3>1, <3>2
  <2>4. QED
    BY <1>1, <2>1, <2>2, <2>3
<1>7. QED
  BY <1>5, <1>6

\* A note leaves the places of writes and the log as they are.
LEMMA NoteInLog ==
  ASSUME NEW d \in Database, NEW e \in Database, Len(e.event) = Len(d.event) + 1,
         \A k \in 1..Len(d.event) : e.event[k] = d.event[k],
         e.event[Len(d.event) + 1].id = None, Placed(d)
  PROVE  WritePlaces(e) = WritePlaces(d) /\ LogOf(e) = LogOf(d) /\ Placed(e)
<1>1. WritePlaces(e) = WritePlaces(d)
  BY PlacesFinite DEF WritePlaces
<1>2. ASSUME NEW n \in 1..Cardinality(WritePlaces(d)) PROVE WriteAt(e, n) = WriteAt(d, n)
  BY <1>1, PlacesFinite DEF Placed, WriteAt
<1>3. QED
  BY <1>1, <1>2 DEF LogOf, Placed

\* A write comes last in the log.
LEMMA WriteInLog ==
  ASSUME NEW d \in Database, NEW e \in Database, Len(e.event) = Len(d.event) + 1,
         \A k \in 1..Len(d.event) : e.event[k] = d.event[k],
         NEW i \in Ids, NEW v \in Values, None \notin Ids,
         e.event[Len(d.event) + 1].id = i, e.event[Len(d.event) + 1].value = v, Placed(d)
  PROVE  /\ WritePlaces(e) = WritePlaces(d) \cup {Len(d.event) + 1}
         /\ Cardinality(WritePlaces(e)) = Cardinality(WritePlaces(d)) + 1
         /\ LogOf(e) = Append(LogOf(d), [id |-> i, value |-> v])
         /\ Placed(e)
<1> DEFINE W == WritePlaces(d)
           N == Cardinality(W)
           L == Len(d.event)
<1>1. W \subseteq 1..L /\ L \in Nat /\ N \in Nat /\ DOMAIN d.event = 1..L /\ DOMAIN e.event = 1..(L + 1)
  BY PlacesFinite
<1>2. WritePlaces(e) = W \cup {L + 1}
  BY <1>1 DEF WritePlaces
<1> HIDE DEF W
<1>3. /\ \A n \in 1..N : Place(WritePlaces(e), n) = Place(W, n)
      /\ Place(WritePlaces(e), N + 1) = L + 1
      /\ Cardinality(WritePlaces(e)) = N + 1
  <2>1. /\ \A n \in 1..N : Place(W \cup {L + 1}, n) = Place(W, n)
        /\ Place(W \cup {L + 1}, N + 1) = L + 1
        /\ Cardinality(W \cup {L + 1}) = N + 1
    BY <1>1, PlaceAdded
  <2>2. QED
    BY <1>2, <2>1, Zenon
<1>4. ASSUME NEW n \in 1..N PROVE WriteAt(e, n) = WriteAt(d, n) /\ Place(W, n) \in W
  BY <1>1, <1>3 DEF Placed, WriteAt, W
<1>5. WriteAt(e, N + 1) = [id |-> i, value |-> v]
  BY <1>3 DEF WriteAt
<1>6. LogOf(e) = [n \in 1..(N + 1) |-> IF n = N + 1 THEN [id |-> i, value |-> v] ELSE WriteAt(d, n)]
  BY <1>1, <1>3, <1>4, <1>5 DEF LogOf
<1>7. LogOf(d) = [n \in 1..N |-> WriteAt(d, n)]
  BY DEF LogOf, W
<1>8. [id |-> i, value |-> v] \in VR!Writes /\ \A n \in 1..N : WriteAt(d, n) \in VR!Writes
  BY DEF VR!Writes, Placed, W
<1>9. LogOf(e) = Append(LogOf(d), [id |-> i, value |-> v])
  <2>1. LogOf(d) \in Seq(VR!Writes) /\ Len(LogOf(d)) = N
    BY <1>1, <1>7, <1>8
  <2>2. QED
    BY <1>1, <1>6, <1>7, <2>1
<1>10. Placed(e)
  <2> SUFFICES ASSUME NEW n \in 1..(N + 1)
               PROVE  Place(WritePlaces(e), n) \in WritePlaces(e) /\ WriteAt(e, n) \in VR!Writes
    BY <1>3 DEF Placed
  <2>1. CASE n \in 1..N
    BY <1>2, <1>3, <1>4, <1>8, <2>1
  <2>2. CASE n = N + 1
    BY <1>2, <1>3, <1>5, <1>8, <2>2
  <2>3. QED
    BY <1>1, <2>1, <2>2
<1>11. QED
  BY <1>2, <1>3, <1>9, <1>10 DEF W

\* The log of a sound database is a sequence of writes, of the length counted.
LEMMA LogType ==
  ASSUME NEW d \in Database, Placed(d)
  PROVE  LogOf(d) \in Seq(VR!Writes) /\ Len(LogOf(d)) = Cardinality(WritePlaces(d))
         /\ Cardinality(WritePlaces(d)) \in Nat
<1>1. Cardinality(WritePlaces(d)) \in Nat
  BY PlacesFinite
<1>2. QED
  BY <1>1 DEF LogOf, Placed

\* What the instance counts with is the cardinality.
LEMMA SameCardinality ==
  ASSUME NEW S PROVE VR!Cardinality(S) = Cardinality(S)
BY DEF VR!Cardinality, Cardinality

\* One more write of one record.
LEMMA OneMoreWrite ==
  ASSUME NEW s \in Seq(VR!Writes), NEW w \in VR!Writes, NEW j
  PROVE  /\ VR!WritesOf(j, Append(s, w)) = VR!WritesOf(j, s) + (IF w.id = j THEN 1 ELSE 0)
         /\ VR!WritesOf(j, s) \in Nat
<1> DEFINE P(r) == {n \in DOMAIN r : r[n].id = j}
<1>1. Len(s) \in Nat /\ DOMAIN s = 1..Len(s) /\ DOMAIN Append(s, w) = 1..(Len(s) + 1)
      /\ (\A n \in 1..Len(s) : Append(s, w)[n] = s[n]) /\ Append(s, w)[Len(s) + 1] = w
  BY LenProperties, AppendProperties
<1>2. P(s) \subseteq 1..Len(s) /\ IsFiniteSet(1..Len(s))
  BY <1>1, FS_Interval
<1>3. IsFiniteSet(P(s)) /\ Cardinality(P(s)) \in Nat
  BY <1>2, FS_Subset, FS_CardinalityType
<1>4. /\ Len(s) + 1 \notin P(s)
      /\ VR!WritesOf(j, s) = Cardinality(P(s))
      /\ VR!WritesOf(j, Append(s, w)) = Cardinality(P(Append(s, w)))
  <2>1. Len(s) + 1 \notin P(s)
    BY <1>1
  <2>2. \A r : VR!WritesOf(j, r) = VR!Cardinality(P(r))
    BY Zenon DEF VR!WritesOf
  <2>3. QED
    BY <2>1, <2>2, SameCardinality, Zenon
<1> HIDE DEF P
<1>5. CASE w.id = j
  <2>1. P(Append(s, w)) = P(s) \cup {Len(s) + 1}
    BY <1>1, <1>5 DEF P
  <2>2. Cardinality(P(Append(s, w))) = Cardinality(P(s)) + 1
    BY <1>3, <1>4, <2>1, FS_AddElement
  <2>3. QED
    BY <1>3, <1>4, <1>5, <2>2
<1>6. CASE w.id # j
  <2>1. P(Append(s, w)) = P(s)
    BY <1>1, <1>6 DEF P
  <2>2. QED
    BY <1>3, <1>4, <1>6, <2>1
<1>7. QED
  BY <1>5, <1>6

\* A record write keeps a database sound: the version is new, so the revision is, and nothing
\* known later is older.
LEMMA WrittenSound ==
  ASSUME StoreAssumption, NEW d, Sound(d), Len(d.event) < MaxWrites, NEW i \in Ids, NEW v \in Values
  PROVE  /\ Sound(Written(d, i, v))
         /\ LogOf(Written(d, i, v)) = Append(LogOf(d), [id |-> i, value |-> v])
         /\ \A j \in Ids \ {i} : Written(d, i, v).record[j] = d.record[j]
<1> DEFINE L == Len(d.event)
           n == d.record[i].version + 1
           rev == [id |-> i, version |-> n, value |-> v, knowledge |-> d.knowledge]
           e == Written(d, i, v)
<1>1. d \in Database /\ L \in Nat /\ L + 1 <= MaxWrites /\ MaxWrites \in Nat
      /\ DOMAIN d.event = 1..L
  BY LenProperties DEF Sound, Database, StoreAssumption
<1>2. n \in 1..(L + 1) /\ n \in 1..MaxWrites /\ d.record[i].version \in Nat
  BY <1>1 DEF Sound, Database
<1>3. /\ e.record = [d.record EXCEPT ![i] = [version |-> n, value |-> v]]
      /\ e.revision = d.revision \cup {rev}
      /\ e.event = Chained(d, i, n, v) /\ e.knowledge = d.knowledge
  BY <1>1 DEF Written, Database
<1>4. rev \in Revisions
  BY <1>1, <1>2 DEF Revisions, Database
<1>5. /\ e.event \in Seq(Events) /\ Len(e.event) = L + 1
      /\ \A k \in 1..L : e.event[k] = d.event[k]
      /\ e.event[L + 1].id = i /\ e.event[L + 1].version = n /\ e.event[L + 1].value = v
      /\ Audit(e)
  BY <1>1, <1>2, <1>3, EventAdded DEF Sound
<1>6. e \in Database
  <2>1. e.record \in [Ids -> [version: 0..MaxWrites, value: Values \cup {None}]]
    BY <1>1, <1>2, <1>3 DEF Database
  <2>2. e.revision \subseteq Revisions
    BY <1>1, <1>3, <1>4 DEF Database
  <2>3. e.knowledge \in 0..MaxBumps
    BY <1>1, <1>3 DEF Database
  <2>4. QED
    BY <1>1, <1>3, <1>5, <2>1, <2>2, <2>3 DEF Written, Database
<1>7. /\ WritePlaces(e) = WritePlaces(d) \cup {L + 1}
      /\ Cardinality(WritePlaces(e)) = Cardinality(WritePlaces(d)) + 1
      /\ LogOf(e) = Append(LogOf(d), [id |-> i, value |-> v])
      /\ Placed(e)
  BY <1>1, <1>5, <1>6, WriteInLog DEF Sound, StoreAssumption
<1> HIDE DEF e
<1>8. \A j \in Ids : e.record[j] = IF j = i THEN [version |-> n, value |-> v] ELSE d.record[j]
  BY <1>1, <1>3 DEF Database
<1>9. \A r \in d.revision : r.id = i => r.version \in 1..(n - 1)
  <2>1. {r.version : r \in {q \in d.revision : q.id = i}} = 1..(n - 1)
    BY <1>2 DEF Sound, Complete
  <2>2. QED
    BY <2>1
<1>10. rev \notin d.revision
  BY <1>2, <1>9
<1>11. \A j \in Ids : e.record[j].version <= Len(e.event)
  BY <1>1, <1>2, <1>5, <1>8 DEF Sound, Database
<1>12. IsFiniteSet(e.revision) /\ Cardinality(e.revision) = Cardinality(d.revision) + 1
  BY <1>3, <1>10, FS_AddElement DEF Sound
<1>13. Complete(e)
  <2> SUFFICES ASSUME NEW j \in Ids
               PROVE  LET mine == {r \in e.revision : r.id = j}
                      IN  /\ {r.version : r \in mine} = 1..e.record[j].version
                          /\ \A r, s \in mine : r.version = s.version => r = s
                          /\ \A r \in mine : r.version = e.record[j].version => r.value = e.record[j].value
    BY DEF Complete
  <2> DEFINE old == {r \in d.revision : r.id = j}
             mine == {r \in e.revision : r.id = j}
  <2>1. /\ {r.version : r \in old} = 1..d.record[j].version
        /\ \A r, s \in old : r.version = s.version => r = s
        /\ \A r \in old : r.version = d.record[j].version => r.value = d.record[j].value
    BY DEF Sound, Complete
  <2>2. CASE j = i
    <3>1. mine = old \cup {rev}
      BY <1>3, <2>2
    <3>2. e.record[j].version = n /\ e.record[j].value = v
      BY <1>8, <2>2
    <3>3. \A r \in old : r.version \in 1..(n - 1)
      BY <1>9, <2>2
    <3>4. {r.version : r \in mine} = 1..n
      <4>1. d.record[j].version = n - 1 /\ 1..n = (1..(n - 1)) \cup {n}
        BY <1>2, <2>2
      <4>2. \A x : x \in {r.version : r \in mine} <=> x \in {r.version : r \in old} \/ x = rev.version
        BY <3>1
      <4>3. QED
        BY <2>1, <4>1, <4>2
    <3>5. \A r \in old : r.version # n
      BY <1>2, <3>3
    <3>6. QED
      BY <2>1, <3>1, <3>2, <3>4, <3>5
  <2>3. CASE j # i
    <3>1. mine = old
      BY <1>3, <2>3
    <3>2. QED
      BY <1>8, <2>1, <2>3, <3>1
  <2>4. QED
    BY <2>2, <2>3
<1>14. Ordered(e) /\ \A r \in e.revision : r.knowledge <= e.knowledge
  <2>1. d.knowledge \in Int /\ \A r \in d.revision : r.knowledge <= d.knowledge
    BY DEF Sound, Database
  <2>2. \A r \in e.revision : r.knowledge <= e.knowledge
    BY <1>3, <2>1
  <2>3. Ordered(e)
    <3> SUFFICES ASSUME NEW r \in e.revision, NEW s \in e.revision, r.id = s.id, r.version < s.version
                 PROVE  r.knowledge <= s.knowledge
      BY DEF Ordered
    <3>1. CASE r = rev
      <4>1. CASE s = rev
        BY <2>1, <3>1, <4>1
      <4>2. CASE s \in d.revision
        BY <1>2, <1>9, <3>1, <4>2
      <4>3. QED
        BY <1>3, <4>1, <4>2
    <3>2. CASE r \in d.revision
      BY <1>3, <2>1, <3>2 DEF Sound, Ordered
    <3>3. QED
      BY <1>3, <3>1, <3>2
  <2>4. QED
    BY <2>2, <2>3
<1>15. Accounted(e)
  <2>1. Cardinality(WritePlaces(e)) = Cardinality(e.revision)
    BY <1>7, <1>12 DEF Sound, Accounted
  <2>2. DOMAIN e.event = 1..(L + 1)
    BY <1>5, LenProperties
  <2>3. ASSUME NEW r \in e.revision
        PROVE  \E k \in DOMAIN e.event :
                 e.event[k].id = r.id /\ e.event[k].version = r.version /\ e.event[k].value = r.value
    <3>1. CASE r \in d.revision
      <4>1. PICK k \in 1..L :
              d.event[k].id = r.id /\ d.event[k].version = r.version /\ d.event[k].value = r.value
        BY <1>1, <3>1 DEF Sound, Accounted
      <4>2. k \in DOMAIN e.event /\ e.event[k] = d.event[k]
        BY <1>1, <1>5, <2>2
      <4>3. QED
        BY <4>1, <4>2
    <3>2. CASE r = rev
      <4>1. L + 1 \in DOMAIN e.event
        BY <1>1, <2>2
      <4>2. QED
        BY <1>5, <3>2, <4>1
    <3>3. QED
      BY <1>3, <3>1, <3>2
  <2>4. QED
    BY <2>1, <2>3 DEF Accounted
<1>16. \A j \in Ids : e.record[j].version = VR!WritesOf(j, LogOf(e))
  <2> SUFFICES ASSUME NEW j \in Ids PROVE e.record[j].version = VR!WritesOf(j, LogOf(e))
    OBVIOUS
  <2>1. [id |-> i, value |-> v] \in VR!Writes
    BY DEF VR!Writes
  <2>2. VR!WritesOf(j, LogOf(e)) = VR!WritesOf(j, LogOf(d)) + (IF i = j THEN 1 ELSE 0)
    BY <1>1, <1>7, <2>1, LogType, OneMoreWrite DEF Sound
  <2>3. d.record[j].version = VR!WritesOf(j, LogOf(d)) /\ d.record[j].version \in Nat
    BY <1>1 DEF Sound, Database
  <2>4. QED
    BY <1>8, <2>2, <2>3
<1>17. QED
  BY <1>1, <1>5, <1>6, <1>7, <1>8, <1>11, <1>12, <1>13, <1>14, <1>15, <1>16 DEF Sound, e

\* A note keeps a database sound, and the log as it is.
LEMMA NoteSound ==
  ASSUME StoreAssumption, NEW d, Sound(d), Len(d.event) < MaxWrites
  PROVE  LET e == [d EXCEPT !.event = Chained(d, None, 0, None)]
         IN  Sound(e) /\ LogOf(e) = LogOf(d) /\ e.record = d.record
<1> DEFINE L == Len(d.event)
           e == [d EXCEPT !.event = Chained(d, None, 0, None)]
<1>1. d \in Database /\ L \in Nat /\ L + 1 <= MaxWrites /\ DOMAIN d.event = 1..L
  BY LenProperties DEF Sound, Database, StoreAssumption
<1>2. /\ e.record = d.record /\ e.revision = d.revision /\ e.knowledge = d.knowledge
      /\ e.event = Chained(d, None, 0, None)
  BY <1>1 DEF Database
<1>2a. e \in Database <=> e.event \in Seq(Events)
  BY <1>1 DEF Database
<1> HIDE DEF e
<1>3. /\ e.event \in Seq(Events) /\ Len(e.event) = L + 1
      /\ \A k \in 1..L : e.event[k] = d.event[k]
      /\ e.event[L + 1].id = None
      /\ Audit(e)
  <2>1. None \in Ids \cup {None} /\ None \in Values \cup {None} /\ 0 \in 0..MaxWrites /\ Audit(d)
    BY DEF Sound, StoreAssumption
  <2>2. ASSUME NEW i \in Ids \cup {None}, NEW n \in 0..MaxWrites, NEW v \in Values \cup {None},
               e.event = Chained(d, i, n, v)
        PROVE  /\ e.event \in Seq(Events) /\ Len(e.event) = L + 1
               /\ \A k \in 1..L : e.event[k] = d.event[k]
               /\ e.event[L + 1].id = i
               /\ Audit(e)
    BY <1>1, <2>1, <2>2, EventAdded
  <2>3. QED
    BY <1>2, <2>1, <2>2
<1>4. e \in Database
  BY <1>2a, <1>3
<1>5. WritePlaces(e) = WritePlaces(d) /\ LogOf(e) = LogOf(d) /\ Placed(e)
  BY <1>1, <1>3, <1>4, NoteInLog DEF Sound
<1>6. Complete(e) /\ Ordered(e)
  BY <1>2 DEF Sound, Complete, Ordered
<1>7. Accounted(e)
  <2>1. DOMAIN e.event = 1..(L + 1)
    BY <1>3, LenProperties
  <2>2. ASSUME NEW r \in e.revision
        PROVE  \E k \in DOMAIN e.event :
                 e.event[k].id = r.id /\ e.event[k].version = r.version /\ e.event[k].value = r.value
    <3>1. PICK k \in 1..L :
            d.event[k].id = r.id /\ d.event[k].version = r.version /\ d.event[k].value = r.value
      BY <1>1, <1>2 DEF Sound, Accounted
    <3>2. k \in DOMAIN e.event /\ e.event[k] = d.event[k]
      BY <1>1, <1>3, <2>1
    <3>3. QED
      BY <3>1, <3>2
  <2>3. QED
    BY <1>2, <1>5, <2>2 DEF Sound, Accounted
<1>8. \A i \in Ids : e.record[i].version <= Len(e.event)
  BY <1>1, <1>2, <1>3 DEF Sound, Database
<1>9. QED
  BY <1>1, <1>2, <1>3, <1>4, <1>5, <1>6, <1>7, <1>8 DEF Sound, e

\* A new knowledge version keeps a database sound: what was written is older.
LEMMA BumpSound ==
  ASSUME StoreAssumption, NEW d, Sound(d), d.knowledge < MaxBumps,
         NEW e, e = [d EXCEPT !.knowledge = @ + 1]
  PROVE  Sound(e) /\ LogOf(e) = LogOf(d) /\ e.record = d.record
<1>1. d \in Database /\ d.knowledge \in Int /\ MaxBumps \in Nat
  BY DEF Sound, Database, StoreAssumption
<1>2. /\ e.record = d.record /\ e.revision = d.revision /\ e.event = d.event
      /\ e.knowledge = d.knowledge + 1
  BY <1>1 DEF Database
<1>3. e \in Database
  BY <1>1, <1>2 DEF Database
<1>4. WritePlaces(e) = WritePlaces(d)
  BY <1>2 DEF WritePlaces
<1>5. LogOf(e) = LogOf(d) /\ Placed(e)
  BY <1>2, <1>4 DEF LogOf, WriteAt, Placed, Sound
<1>6. Audit(e) /\ Complete(e) /\ Ordered(e) /\ Accounted(e)
  BY <1>2, <1>4 DEF Sound, Audit, Complete, Ordered, Accounted
<1>7. \A r \in e.revision : r.knowledge <= e.knowledge
  BY <1>1, <1>2 DEF Sound, Database, Revisions
<1>8. QED
  BY <1>2, <1>3, <1>5, <1>6, <1>7 DEF Sound

\* A new schema is sound.
LEMMA EmptySound ==
  ASSUME StoreAssumption
  PROVE  Sound(Empty) /\ LogOf(Empty) = << >>
<1>1. /\ Empty.event = << >> /\ Empty.revision = {} /\ Empty.knowledge = 0
      /\ \A i \in Ids : Empty.record[i].version = 0
      /\ Len(Empty.event) = 0 /\ DOMAIN Empty.event = {}
  BY DEF Empty, Absent
<1>2. Empty \in Database
  BY DEF Empty, Absent, Database, StoreAssumption
<1>3. WritePlaces(Empty) = {} /\ Cardinality(WritePlaces(Empty)) = 0
  BY <1>1, FS_EmptySet DEF WritePlaces
<1>4. LogOf(Empty) = << >>
  BY <1>3 DEF LogOf
<1>5. Placed(Empty)
  BY <1>3 DEF Placed
<1>6. Accounted(Empty) /\ IsFiniteSet(Empty.revision)
  BY <1>1, <1>3, FS_EmptySet DEF Accounted
<1>7. Audit(Empty) /\ Complete(Empty) /\ Ordered(Empty)
  BY <1>1 DEF Audit, Complete, Ordered
<1>8. ASSUME NEW i \in Ids PROVE VR!WritesOf(i, << >>) = 0
  <2>1. {n \in DOMAIN << >> : << >>[n].id = i} = {}
    OBVIOUS
  <2>2. VR!WritesOf(i, << >>) = VR!Cardinality({n \in DOMAIN << >> : << >>[n].id = i})
    BY Zenon DEF VR!WritesOf
  <2>3. QED
    BY <2>1, <2>2, SameCardinality, FS_EmptySet
<1>9. QED
  BY <1>1, <1>2, <1>4, <1>5, <1>6, <1>7, <1>8 DEF Sound, StoreAssumption

-----------------------------------------------------------------------------
\* The invariant

\* Before the schema exists there is nothing to be wrong.
LEMMA InitInvariant == StoreAssumption /\ Init => IInv
<1> SUFFICES ASSUME StoreAssumption, Init PROVE IInv
  OBVIOUS
<1>1. db = None /\ tx = None /\ Tables = Empty
  BY DEF Init, Tables
<1>2. TypeOK
  BY <1>1 DEF TypeOK, Init, NoView, StoreAssumption
<1>3. Opened
  BY <1>1 DEF Opened, Init
<1>4. QED
  BY <1>1, <1>2, <1>3, EmptySound DEF IInv

\* A transaction that did nothing yet follows the database.
LEMMA FollowsAtOnce ==
  ASSUME NEW d \in Database, Placed(d)
  PROVE  \E batch \in Seq(VR!Writes) : LogOf(d) = LogOf(d) \o batch /\ VR!Touched(batch) = {}
<1>1. << >> \in Seq(VR!Writes) /\ VR!Touched(<< >>) = {}
  BY DEF VR!Touched
<1>2. LogOf(d) = LogOf(d) \o << >>
  BY LogType, ConcatEmptySeq
<1>3. QED
  BY <1>1, <1>2

\* One more write in a batch.
LEMMA BatchGrows ==
  ASSUME NEW s \in Seq(VR!Writes), NEW batch \in Seq(VR!Writes), NEW w \in VR!Writes
  PROVE  /\ Append(batch, w) \in Seq(VR!Writes)
         /\ Append(s \o batch, w) = s \o Append(batch, w)
         /\ VR!Touched(Append(batch, w)) = VR!Touched(batch) \cup {w.id}
<1>1. /\ DOMAIN batch = 1..Len(batch) /\ DOMAIN Append(batch, w) = 1..(Len(batch) + 1)
      /\ Len(batch) \in Nat /\ Append(batch, w) \in Seq(VR!Writes)
      /\ \A n \in 1..Len(batch) : Append(batch, w)[n] = batch[n]
      /\ Append(batch, w)[Len(batch) + 1] = w
  BY LenProperties, AppendProperties
<1>2. VR!Touched(Append(batch, w)) = VR!Touched(batch) \cup {w.id}
  <2>1. \A n : n \in 1..(Len(batch) + 1) <=> n \in 1..Len(batch) \/ n = Len(batch) + 1
    BY <1>1
  <2>2. \A x : x \in VR!Touched(Append(batch, w)) <=> x \in VR!Touched(batch) \/ x = w.id
    BY <1>1, <2>1 DEF VR!Touched
  <2>3. QED
    BY <2>2
<1>3. Append(s \o batch, w) = (s \o batch) \o <<w>> /\ Append(batch, w) = batch \o <<w>>
  BY AppendIsConcat, ConcatProperties
<1>4. (s \o batch) \o <<w>> = s \o (batch \o <<w>>)
  BY ConcatAssociative
<1>5. QED
  BY <1>1, <1>2, <1>3, <1>4

\* Every step keeps the invariant.
LEMMA NextInvariant == StoreAssumption /\ IInv /\ [Next]_vars => IInv'
<1> SUFFICES ASSUME StoreAssumption, IInv, [Next]_vars PROVE IInv'
  OBVIOUS
<1> USE DEF IInv
<1>0. CASE UNCHANGED vars
  <2>1. UNCHANGED Tables
    BY <1>0 DEF vars, Tables
  <2>2. QED
    BY <1>0, <2>1 DEF vars, TypeOK, Opened, Follows
<1>1. ASSUME NEW c \in Clients, Connect(c) PROVE IInv'
  <2>1. UNCHANGED <<db, tx, view>> /\ UNCHANGED Tables
    BY <1>1 DEF Connect, Tables
  <2>2. TypeOK'
    BY <1>1, <2>1 DEF Connect, TypeOK
  <2>3. Opened'
    BY <1>1, <2>1 DEF Connect, Opened, TypeOK
  <2>4. QED
    BY <2>1, <2>2, <2>3 DEF Follows
<1>2. ASSUME NEW c \in Clients, CreateSchema(c) PROVE IInv'
  <2>1. UNCHANGED <<tx, view>> /\ tx = None
    BY <1>2 DEF CreateSchema
  <2>2. Empty \in Database
    BY EmptySound DEF Sound
  <2>3. (db = None /\ db' = Empty) \/ db' = db
    BY <1>2 DEF CreateSchema
  <2>4. Tables' = Tables
    BY <2>2, <2>3 DEF Tables, StoreAssumption
  <2>5. TypeOK'
    BY <1>2, <2>1, <2>2 DEF CreateSchema, TypeOK
  <2>6. Opened'
    BY <1>2, <2>1, <2>2 DEF CreateSchema, Opened, TypeOK, StoreAssumption
  <2>7. QED
    BY <2>1, <2>4, <2>5, <2>6
<1>3. ASSUME NEW c \in Clients, NEW i \in Ids, Get(c, i) PROVE IInv'
  <2>1. UNCHANGED <<db, tx, client>> /\ UNCHANGED Tables
    BY <1>3 DEF Get, Tables
  <2>2. db \in Database
    BY <1>3 DEF Get, Opened, TypeOK
  <2>3. TypeOK'
    BY <1>3, <2>1, <2>2 DEF Get, TypeOK, Database
  <2>4. tx # None => Follows'
    <3> SUFFICES ASSUME tx # None PROVE Follows'
      OBVIOUS
    <3>1. ASSUME NEW j \in tx.wrote PROVE view'[tx.by][j] = view[tx.by][j]
      BY <1>3, <3>1 DEF Get, TypeOK
    <3>2. QED
      BY <2>1, <3>1 DEF Follows
  <2>5. QED
    BY <2>1, <2>3, <2>4 DEF Opened
<1>4. ASSUME NEW c \in Clients, Begin(c) PROVE IInv'
  <2>1. UNCHANGED <<db, client, view>> /\ UNCHANGED Tables /\ tx' = [by |-> c, db |-> db, wrote |-> {}]
    BY <1>4 DEF Begin, Tables
  <2>2. db \in Database /\ Tables = db /\ db # None
    BY <1>4 DEF Begin, Opened, TypeOK, Tables
  <2>3. TypeOK'
    BY <2>1, <2>2 DEF TypeOK
  <2>4. Sound(db) /\ Placed(db)
    BY <2>2 DEF Sound
  <2>5. Follows'
    BY <2>1, <2>2, <2>4, FollowsAtOnce DEF Follows
  <2>6. QED
    BY <2>1, <2>2, <2>3, <2>4, <2>5 DEF Opened
<1>5. ASSUME NEW c \in Clients, NEW i \in Ids, NEW v \in Values, Put(c, i, v) PROVE IInv'
  <2> DEFINE d == tx.db
             w == [id |-> i, value |-> v]
  <2>1. /\ tx # None /\ tx.by = c /\ UNCHANGED <<db, client, view>> /\ UNCHANGED Tables
        /\ Len(d.event) < MaxWrites /\ Expected(c, i) = d.record[i].version
        /\ tx' = [tx EXCEPT !.db = Written(tx.db, i, v), !.wrote = @ \cup {i}]
        /\ tx \in [by: Clients, db: Database, wrote: SUBSET Ids]
    BY <1>5 DEF Put, Tables, TypeOK
  <2>2. tx'.by = c /\ tx'.db = Written(d, i, v) /\ tx'.wrote = tx.wrote \cup {i}
    BY <2>1
  <2>3. /\ Sound(tx'.db) /\ LogOf(tx'.db) = Append(LogOf(d), w)
        /\ \A j \in Ids \ {i} : tx'.db.record[j] = d.record[j]
    BY <2>1, <2>2, WrittenSound
  <2>4. TypeOK'
    BY <2>1, <2>2, <2>3 DEF TypeOK, Sound
  <2>5. Follows'
    <3>1. \A j \in Ids \ tx'.wrote : tx'.db.record[j] = db.record[j]
      BY <2>1, <2>2, <2>3 DEF Follows
    <3>2. ASSUME NEW j \in tx'.wrote PROVE view[c][j] = db.record[j].version
      <4>1. CASE j \in tx.wrote
        BY <2>1, <4>1 DEF Follows
      <4>2. CASE i \notin tx.wrote /\ j = i
        BY <2>1, <4>2 DEF Follows, Expected
      <4>3. QED
        BY <2>2, <4>1, <4>2
    <3>3. PICK batch \in Seq(VR!Writes) :
            LogOf(d) = LogOf(db) \o batch /\ VR!Touched(batch) = tx.wrote
      BY <2>1 DEF Follows
    <3>4. w \in VR!Writes /\ w.id = i
      BY DEF VR!Writes
    <3>5. LogOf(db) \in Seq(VR!Writes)
      BY <2>1, LogType DEF Opened, TypeOK, Tables, Sound
    <3>6. /\ Append(batch, w) \in Seq(VR!Writes)
          /\ LogOf(tx'.db) = LogOf(db) \o Append(batch, w)
          /\ VR!Touched(Append(batch, w)) = tx'.wrote
      <4>1. /\ Append(batch, w) \in Seq(VR!Writes)
            /\ Append(LogOf(db) \o batch, w) = LogOf(db) \o Append(batch, w)
            /\ VR!Touched(Append(batch, w)) = VR!Touched(batch) \cup {i}
        BY <3>4, <3>5, BatchGrows
      <4>2. QED
        BY <2>2, <2>3, <3>3, <4>1
    <3>7. QED
      BY <2>1, <2>2, <3>1, <3>2, <3>6 DEF Follows
  <2>6. QED
    BY <2>1, <2>3, <2>4, <2>5 DEF Opened
<1>6. ASSUME NEW c \in Clients, NEW i \in Ids, Conflict(c, i) PROVE IInv'
  <2>1. UNCHANGED <<db, client>> /\ UNCHANGED Tables /\ tx' = None
    BY <1>6 DEF Conflict, Tables
  <2>2. TypeOK'
    BY <1>6, <2>1 DEF Conflict, TypeOK, NoView, StoreAssumption
  <2>3. QED
    BY <2>1, <2>2 DEF Opened
<1>7. ASSUME NEW c \in Clients, Note(c) \/ Bump(c) PROVE IInv'
  <2>1. /\ tx # None /\ UNCHANGED <<db, client, view>> /\ UNCHANGED Tables
        /\ tx \in [by: Clients, db: Database, wrote: SUBSET Ids]
        /\ tx'.by = tx.by /\ tx'.wrote = tx.wrote /\ tx' = [tx EXCEPT !.db = tx'.db]
    BY <1>7 DEF Note, Bump, Tables, TypeOK
  <2>2. Sound(tx'.db) /\ LogOf(tx'.db) = LogOf(tx.db) /\ tx'.db.record = tx.db.record
    <3>1. CASE Note(c)
      <4>1. Len(tx.db.event) < MaxWrites /\ tx'.db = [tx.db EXCEPT !.event = Chained(tx.db, None, 0, None)]
        BY <2>1, <3>1 DEF Note
      <4>2. QED
        BY <2>1, <4>1, NoteSound
    <3>2. CASE Bump(c)
      <4>1. tx.db.knowledge < MaxBumps /\ tx'.db = [tx.db EXCEPT !.knowledge = @ + 1]
        BY <2>1, <3>2 DEF Bump
      <4>2. QED
        BY <2>1, <4>1, BumpSound
    <3>3. QED
      BY <1>7, <3>1, <3>2
  <2>3. TypeOK'
    BY <2>1, <2>2 DEF TypeOK, Sound
  <2>4. Follows'
    BY <2>1, <2>2 DEF Follows
  <2>5. QED
    BY <2>1, <2>2, <2>3, <2>4 DEF Opened
<1>8. ASSUME NEW c \in Clients, Commit(c) PROVE IInv'
  <2>1. /\ tx # None /\ tx.by = c /\ db' = tx.db /\ tx' = None /\ UNCHANGED client
        /\ tx \in [by: Clients, db: Database, wrote: SUBSET Ids]
    BY <1>8 DEF Commit, TypeOK
  <2>2. db' # None /\ Tables' = tx.db
    BY <2>1 DEF Tables, StoreAssumption
  <2>3. TypeOK'
    BY <1>8, <2>1 DEF Commit, TypeOK, Database
  <2>4. QED
    BY <2>1, <2>2, <2>3 DEF Opened
<1>9. ASSUME NEW c \in Clients, Abort(c) PROVE IInv'
  <2>1. UNCHANGED db /\ UNCHANGED Tables /\ (tx' = None \/ (tx' = tx /\ (tx # None => tx.by # c)))
    BY <1>9 DEF Abort, Tables
  <2>2. TypeOK'
    BY <1>9, <2>1 DEF Abort, TypeOK, NoView, StoreAssumption
  <2>3. Opened'
    BY <1>9, <2>1 DEF Abort, Opened, TypeOK
  <2>4. CASE tx' = None
    BY <2>1, <2>2, <2>3, <2>4
  <2>5. CASE tx' = tx /\ tx # None /\ tx.by # c
    <3>1. view'[tx.by] = view[tx.by]
      BY <1>9, <2>5 DEF Abort, TypeOK
    <3>2. Follows'
      BY <2>1, <2>5, <3>1 DEF Follows
    <3>3. QED
      BY <2>1, <2>2, <2>3, <2>5, <3>2
  <2>6. QED
    BY <2>1, <2>4, <2>5
<1>10. QED
  BY <1>0, <1>1, <1>2, <1>3, <1>4, <1>5, <1>6, <1>7, <1>8, <1>9 DEF Next

-----------------------------------------------------------------------------
\* What the audit finds

\* Every reachable state satisfies the invariant.
THEOREM StoreInvariant ==
  ASSUME StoreAssumption
  PROVE  Spec => []IInv
<1>1. Init => IInv
  BY InitInvariant
<1>2. IInv /\ [Next]_vars => IInv'
  BY NextInvariant
<1>3. QED
  BY <1>1, <1>2, PTL DEF Spec

\* Whatever transactions overlap, conflict or are killed, tables, working copies and what
\* clients read keep their types, versions inside the events written included.
THEOREM StoreTypes ==
  ASSUME StoreAssumption
  PROVE  Spec => []TypeOK
<1>1. IInv => TypeOK
  BY DEF IInv
<1>2. QED
  BY <1>1, StoreInvariant, PTL

\* Whatever transactions overlap, conflict or are killed, the chain of events passes its audit
\* and events, revisions and records tell one history (control/store.py, put and audit).
THEOREM AuditTrailAlways ==
  ASSUME StoreAssumption
  PROVE  Spec => []AuditTrail
<1>1. IInv => AuditTrail
  BY DEF IInv, Sound, AuditTrail
<1>2. QED
  BY <1>1, StoreInvariant, PTL

-----------------------------------------------------------------------------
\* The refinement

\* The database nobody opened yet is the empty log.
LEMMA InitRefines == StoreAssumption /\ Init => VR!Init
<1> SUFFICES ASSUME StoreAssumption, Init PROVE VR!Init
  OBVIOUS
<1>1. Tables = Empty /\ view = [c \in Clients |-> [i \in Ids |-> 0]]
  BY DEF Tables, Init, NoView
<1>2. QED
  BY <1>1, EmptySound DEF VR!Init

\* What a transaction wrote is one of the batches of the abstract store.
LEMMA BatchBounded ==
  ASSUME StoreAssumption, NEW d, Sound(d), NEW s \in Seq(VR!Writes), NEW batch \in Seq(VR!Writes),
         LogOf(d) = s \o batch
  PROVE  batch \in VR!Batches
<1>1. d \in Database /\ Placed(d) /\ Len(d.event) <= MaxWrites /\ MaxWrites \in Nat
  BY DEF Sound, StoreAssumption
<1>2. /\ WritePlaces(d) \subseteq 1..Len(d.event) /\ Len(d.event) \in Nat
      /\ Cardinality(WritePlaces(d)) \in Nat
  BY <1>1, PlacesFinite
<1>3. Cardinality(WritePlaces(d)) <= Len(d.event)
  <2>1. ASSUME NEW n \in Nat PROVE IsFiniteSet(1..n) /\ Cardinality(1..n) = n
    <3>1. 1 \in Int /\ n \in Int
      OBVIOUS
    <3>2. IsFiniteSet(1..n) /\ Cardinality(1..n) = IF 1 > n THEN 0 ELSE n - 1 + 1
      BY <3>1, FS_Interval, Zenon
    <3>3. QED
      BY <3>2
  <2>2. QED
    BY <1>2, <2>1, FS_Subset
<1>4. Len(LogOf(d)) = Len(s) + Len(batch) /\ Len(LogOf(d)) = Cardinality(WritePlaces(d))
  BY <1>1, LogType, ConcatProperties
<1>5. Len(s) \in Nat /\ Len(batch) \in Nat /\ batch \in [1..Len(batch) -> VR!Writes]
  BY LenProperties
<1>6. Len(batch) \in 0..MaxWrites
  BY <1>1, <1>2, <1>3, <1>4, <1>5
<1>7. QED
  BY <1>5, <1>6 DEF VR!Batches

\* A commit appends the batch of its transaction, a read looks, a failure forgets, and nothing
\* else shows.
LEMMA NextRefines ==
  StoreAssumption /\ IInv /\ [Next]_vars => [VR!Next]_VR!vars
<1> SUFFICES ASSUME StoreAssumption, IInv, [Next]_vars PROVE [VR!Next]_VR!vars
  OBVIOUS
<1> DEFINE log == LogOf(Tables)
<1>0. ASSUME UNCHANGED Tables, UNCHANGED view PROVE UNCHANGED VR!vars
  BY <1>0 DEF VR!vars
<1>1. CASE UNCHANGED vars
  BY <1>0, <1>1 DEF vars, Tables
<1>2. ASSUME NEW c \in Clients, Connect(c) PROVE UNCHANGED VR!vars
  BY <1>0, <1>2 DEF Connect, Tables
<1>3. ASSUME NEW c \in Clients, CreateSchema(c) PROVE UNCHANGED VR!vars
  <2>1. Empty # None
    BY EmptySound DEF Sound, StoreAssumption
  <2>2. QED
    BY <1>0, <1>3, <2>1 DEF CreateSchema, Tables
<1>4. ASSUME NEW c \in Clients, NEW i \in Ids, Get(c, i) PROVE VR!Look(c, i)
  <2>1. db # None /\ Tables = db /\ Tables' = db
    BY <1>4 DEF Get, IInv, Opened, Tables
  <2>2. db.record[i].version = VR!WritesOf(i, LogOf(Tables))
    BY <2>1 DEF IInv, Sound
  <2>3. QED
    BY <1>4, <2>1, <2>2 DEF Get, VR!Look
<1>5. ASSUME NEW c \in Clients,
             \/ Begin(c) \/ Bump(c) \/ Note(c)
             \/ \E i \in Ids : \E v \in Values : Put(c, i, v)
      PROVE  UNCHANGED VR!vars
  BY <1>0, <1>5 DEF Begin, Bump, Note, Put, Tables
<1>6. ASSUME NEW c \in Clients, Abort(c) \/ \E i \in Ids : Conflict(c, i) PROVE VR!Forget(c)
  BY <1>6 DEF Abort, Conflict, NoView, VR!Forget, Tables
<1>7. ASSUME NEW c \in Clients, Commit(c)
      PROVE  \E batch \in VR!Batches : VR!Extend(c, batch)
  <2>1. /\ tx # None /\ tx.by = c /\ db' = tx.db /\ db # None
        /\ view' = [view EXCEPT ![c] =
             [i \in Ids |-> IF i \in tx.wrote THEN tx.db.record[i].version ELSE @[i]]]
        /\ tx \in [by: Clients, db: Database, wrote: SUBSET Ids]
        /\ Sound(tx.db) /\ Sound(db) /\ Follows
    BY <1>7 DEF Commit, IInv, TypeOK, Opened, Tables
  <2>2. Tables = db /\ Tables' = tx.db
    BY <2>1 DEF Tables, StoreAssumption
  <2>3. LogOf(db) \in Seq(VR!Writes)
    BY <2>1, LogType DEF Sound
  <2>4. PICK batch \in Seq(VR!Writes) :
          LogOf(tx.db) = LogOf(db) \o batch /\ VR!Touched(batch) = tx.wrote
    BY <2>1 DEF Follows
  <2>5. batch \in VR!Batches
    BY <2>1, <2>3, <2>4, BatchBounded
  <2>6. \A i \in VR!Touched(batch) : view[c][i] = VR!WritesOf(i, LogOf(Tables))
    BY <2>1, <2>2, <2>4 DEF Follows, Sound
  <2>7. \A i \in Ids : tx.db.record[i].version = VR!WritesOf(i, LogOf(Tables'))
    BY <2>1, <2>2 DEF Sound
  <2>8. view' = [view EXCEPT ![c] =
          [i \in Ids |-> IF i \in VR!Touched(batch) THEN VR!WritesOf(i, LogOf(Tables')) ELSE @[i]]]
    BY <2>1, <2>4, <2>7
  <2>9. VR!Extend(c, batch)
    BY <2>2, <2>4, <2>6, <2>8 DEF VR!Extend
  <2>10. QED
    BY <2>5, <2>9
<1>8. QED
  BY <1>1, <1>2, <1>3, <1>4, <1>5, <1>6, <1>7 DEF Next, VR!Next

\* The store is a log of batches, each written by a client that had seen the last write of all
\* it touches: no update is lost and no transaction is seen in part.
THEOREM StoreImplementsRecords ==
  ASSUME StoreAssumption
  PROVE  Spec => ImplementsRecords
<1>1. Init => VR!Init
  BY InitRefines
<1>2. IInv /\ [Next]_vars => [VR!Next]_VR!vars
  BY NextRefines
<1>3. Spec => []IInv
  BY StoreInvariant
<1>4. QED
  BY <1>1, <1>2, <1>3, PTL DEF Spec, ImplementsRecords, VR!Spec

=============================================================================
