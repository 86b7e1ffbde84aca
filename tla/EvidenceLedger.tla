--------------------------- MODULE EvidenceLedger ---------------------------
(***************************************************************************)
(* The evidence ledger (evidence.py): one JSON record a line, chained by   *)
(* hashes, appended under a lock file by processes that may fail or be     *)
(* killed anywhere.  The file is a sequence of what was written to it:     *)
(* whole records, ends of line, and a fragment a write left behind.        *)
(*                                                                         *)
(* A record's hash is modelled as the record with the hashes before it.    *)
(***************************************************************************)
EXTENDS Integers, Sequences, FiniteSets

CONSTANTS Writers,    \* processes that append
          Artifacts,  \* contents of the artifacts they append
          MaxRecords, \* records written (bound)
          None        \* no lock, no record

LedgerAssumption == {"dead", None} \cap Writers = {} /\ None # "dead"

VARIABLES
  file,   \* what was written, in order
  lock,   \* who created the lock file: a writer, "dead" once it was killed, or None
  writer, \* writer -> where it is, the artifact it appends and the record it formed
  acked   \* the records append_evidence returned

vars == <<file, lock, writer, acked>>

-----------------------------------------------------------------------------
\* Reading

EndOfLine == [kind |-> "newline"]
Fragment == [kind |-> "fragment"]

RecordOf(n, a, prev) ==
  [kind |-> "record", sequence |-> n, artifact |-> a, previous |-> prev]

RecordHash(r) == Append(r.previous, <<r.sequence, r.artifact>>)

\* Every line is one JSON object.  What is not terminated is a line as well, and a
\* record written behind it makes two objects on a line.
Readable(s) ==
  /\ \A n \in DOMAIN s : s[n].kind # "fragment"
  /\ \A n \in DOMAIN s \ {1} : s[n].kind = "record" => s[n - 1].kind = "newline"

\* Where the records are, up to a place.
ReadRecords(s, last) == {n \in 1..last : s[n].kind = "record"}

\* The hash of the last of them.
HeadHash(s, places) ==
  IF places = {} THEN << >>
  ELSE RecordHash(s[CHOOSE n \in places : \A m \in places : m <= n])

\* The record that comes after those up to a place.
NextRecord(s, last, a) ==
  LET read == ReadRecords(s, last) IN RecordOf(Cardinality(read) + 1, a, HeadHash(s, read))

\* Every record is the one that comes after those before it.
VerifyLedger(s) ==
  \A n \in ReadRecords(s, Len(s)) : s[n] = NextRecord(s, n - 1, s[n].artifact)

-----------------------------------------------------------------------------
Idle == [at |-> "idle", record |-> None]

Records ==
  [kind: {"record"}, sequence: Nat, artifact: Artifacts, previous: Seq(Nat \X Artifacts)]
Tokens == Records \cup {EndOfLine, Fragment}
Places == {"idle", "waiting", "locked", "formed", "written"}

TypeOK ==
  /\ file \in Seq(Tokens)
  /\ lock \in Writers \cup {"dead", None}
  /\ writer \in [Writers -> [at: Places, record: Records \cup {None}]]
  /\ acked \subseteq Records

Init ==
  /\ file = << >>
  /\ lock = None
  /\ writer = [p \in Writers |-> Idle]
  /\ acked = {}

\* append_evidence with an artifact that exists: wait for the lock.
Start(p) ==
  /\ writer[p].at = "idle"
  /\ Cardinality(ReadRecords(file, Len(file))) < MaxRecords
  /\ writer' = [writer EXCEPT ![p].at = "waiting"]
  /\ UNCHANGED <<file, lock, acked>>

\* Faulty variant: opens the lock file whether or not it exists.
AcquireAnyway(p) ==
  /\ writer[p].at = "waiting"
  /\ lock' = p
  /\ writer' = [writer EXCEPT ![p].at = "locked"]
  /\ UNCHANGED <<file, acked>>

\* os.open with O_EXCL creates the lock file, or fails while it exists.
Acquire(p) ==
  /\ writer[p].at = "waiting" /\ lock = None
  /\ lock' = p
  /\ writer' = [writer EXCEPT ![p].at = "locked"]
  /\ UNCHANGED <<file, acked>>

\* Faulty variant: waits as long as the writer lives that has the lock.
TimeOutOfTheLiving(p) ==
  /\ writer[p].at = "waiting" /\ lock \in Writers
  /\ writer' = [writer EXCEPT ![p] = Idle]
  /\ UNCHANGED <<file, lock, acked>>

\* The lock file is still there at the deadline.
TimeOut(p) ==
  /\ writer[p].at = "waiting" /\ lock # None
  /\ writer' = [writer EXCEPT ![p] = Idle]
  /\ UNCHANGED <<file, lock, acked>>

\* The ledger as it is cannot be appended to: raise, and remove the lock file.
Refuse(p) ==
  /\ writer[p].at = "locked"
  /\ ~(Readable(file) /\ VerifyLedger(file))
  /\ writer' = [writer EXCEPT ![p] = Idle]
  /\ lock' = None
  /\ UNCHANGED <<file, acked>>

\* Faulty variant: appends to a ledger it could not read.
FormUnread(p, a) ==
  /\ writer[p].at = "locked"
  /\ writer' = [writer EXCEPT ![p] =
       [at |-> "formed", record |-> NextRecord(file, Len(file), a)]]
  /\ UNCHANGED <<file, lock, acked>>

\* Form the next record from what was read under the lock.
Form(p, a) ==
  /\ writer[p].at = "locked"
  /\ Readable(file) /\ VerifyLedger(file)
  /\ writer' = [writer EXCEPT ![p] =
       [at |-> "formed", record |-> NextRecord(file, Len(file), a)]]
  /\ UNCHANGED <<file, lock, acked>>

\* Append, flush and fsync.
Write(p) ==
  /\ writer[p].at = "formed"
  /\ file' = file \o <<writer[p].record, EndOfLine>>
  /\ writer' = [writer EXCEPT ![p].at = "written"]
  /\ UNCHANGED <<lock, acked>>

\* What a write that does not come to its end leaves in the file.
Torn(r) == {<< >>, <<Fragment>>, <<r>>, <<r, EndOfLine>>}

\* The write raises: whatever reached the file stays, and the lock is removed.
WriteFails(p) ==
  /\ writer[p].at = "formed"
  /\ \E left \in Torn(writer[p].record) : file' = file \o left
  /\ writer' = [writer EXCEPT ![p] = Idle]
  /\ lock' = None
  /\ UNCHANGED acked

\* The lock file is removed and the record returned.
Return(p) ==
  /\ writer[p].at = "written"
  /\ acked' = acked \cup {writer[p].record}
  /\ lock' = None
  /\ writer' = [writer EXCEPT ![p] = Idle]
  /\ UNCHANGED file

\* A kill: the lock file stays, and a write may be torn.
Killed(p) ==
  /\ writer[p].at # "idle"
  /\ writer' = [writer EXCEPT ![p] = Idle]
  /\ lock' = IF lock = p THEN "dead" ELSE lock
  /\ IF writer[p].at = "formed"
     THEN \E left \in Torn(writer[p].record) : file' = file \o left
     ELSE UNCHANGED file
  /\ UNCHANGED acked

\* Somebody deletes the lock file of a process that is gone.
RemoveLock ==
  /\ lock = "dead"
  /\ lock' = None
  /\ UNCHANGED <<file, writer, acked>>

Step(p) ==
  \/ Acquire(p)
  \/ TimeOut(p)
  \/ Refuse(p)
  \/ \E a \in Artifacts : Form(p, a)
  \/ Write(p)
  \/ WriteFails(p)
  \/ Return(p)

Next == RemoveLock \/ \E p \in Writers : Start(p) \/ Step(p) \/ Killed(p)

\* A process that is not killed goes on.
Fairness == \A p \in Writers : WF_vars(Step(p))

Spec == Init /\ [][Next]_vars /\ Fairness

-----------------------------------------------------------------------------
\* Properties

\* Whatever fails or is killed, the records in the file are one chain, and a record
\* somebody was told is recorded is one of them.
OneChain ==
  /\ VerifyLedger(file)
  /\ \A r \in acked : \E n \in DOMAIN file : file[n] = r

\* Nothing is written behind a line that cannot be read.
NothingBehindDamage ==
  \A n \in DOMAIN file : file[n].kind = "fragment" => n = Len(file)

\* A crash costs at most the record being written: the ledger stays one readable chain
\* up to a damaged last line.
LedgerSound == OneChain /\ NothingBehindDamage

\* An append comes to an end, also when the lock file of a dead process stays
\* there for ever.
AppendEnds == \A p \in Writers : writer[p].at = "waiting" ~> writer[p].at = "idle"
=============================================================================
