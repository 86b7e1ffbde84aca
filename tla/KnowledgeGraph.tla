--------------------------- MODULE KnowledgeGraph ---------------------------
(***************************************************************************)
(* The entities of the knowledge graph (control/knowledge.py), their       *)
(* dependencies, the changesets that revise them, the rollback of a        *)
(* changeset and the import of an older graph (control/migration.py), and  *)
(* what a reconcile writes over code entities (control/plane.py, _index).  *)
(*                                                                         *)
(* Each operation is one transaction; what a caller read before it is the  *)
(* knowledge version it names.                                             *)
(***************************************************************************)
EXTENDS Integers, Sequences, FiniteSets

CONSTANTS Entities,     \* identities
          Code,         \* those the index of the source tree owns
          Writers,      \* callers of apply
          MaxKnowledge, \* knowledge versions (bound)
          MaxChanges,   \* writes of one changeset (bound)
          None          \* nothing read

KnowledgeAssumption ==
  /\ Code \subseteq Entities /\ MaxKnowledge \in Nat /\ MaxChanges \in Nat
  /\ None \notin [active: BOOLEAN, payload: 1..MaxKnowledge]

VARIABLES
  history,    \* entity -> its revisions, oldest first
  dependsOn,  \* the depends_on edges
  changesets, \* changesets in the order they were applied
  knowledge,  \* the knowledge version
  seen,       \* writer -> the knowledge version it read, or None
  imported    \* whether the older graph was imported

vars == <<history, dependsOn, changesets, knowledge, seen, imported>>

-----------------------------------------------------------------------------
\* A write brings contents nobody wrote before, named by its knowledge version.
Revisions == [knowledge: 1..MaxKnowledge, active: BOOLEAN, payload: 1..MaxKnowledge]

\* The lists of changes of a call: what each entity is written as, in order.  The order of
\* writes to different entities makes no difference.
Lifecycles == UNION {[1..n -> BOOLEAN] : n \in 0..MaxChanges}
Writes(changes) == {w \in Entities \X (1..MaxChanges) : w[2] \in DOMAIN changes[w[1]]}
Changes ==
  {changes \in [Entities -> Lifecycles] : Cardinality(Writes(changes)) \in 1..MaxChanges}

Changesets == [base: 0..MaxKnowledge, named: [Entities -> 0..MaxChanges], applied: BOOLEAN]

TypeOK ==
  /\ history \in [Entities -> Seq(Revisions)]
  /\ dependsOn \subseteq Entities \X Entities
  /\ changesets \in Seq(Changesets)
  /\ knowledge \in 0..MaxKnowledge
  /\ seen \in [Writers -> 0..MaxKnowledge \cup {None}]
  /\ imported \in BOOLEAN

Init ==
  /\ history = [i \in Entities |-> << >>]
  /\ dependsOn = {}
  /\ changesets = << >>
  /\ knowledge = 0
  /\ seen = [p \in Writers |-> None]
  /\ imported = FALSE

Exists(h, i) == h[i] # << >>

Current(h, i) == h[i][Len(h[i])]

Active(h, i) == Exists(h, i) /\ Current(h, i).active

\* Faulty variant: nobody asks what depends on the retired.
DependenciesUnchecked(h) == TRUE

\* Active knowledge depends on active knowledge.
DependenciesHold(h) == \A e \in dependsOn : Active(h, e[1]) => Active(h, e[2])

\* The revisions a list of changes adds.
Revised(h, changes, k) ==
  [i \in Entities |->
     h[i] \o [n \in 1..Len(changes[i]) |->
                [knowledge |-> k, active |-> changes[i][n], payload |-> k]]]

\* A revision does not make a retired entity active again.
NoResurrection(h, after) ==
  \A i \in Entities : \A n \in DOMAIN after[i] :
    n > 1 /\ n > Len(h[i]) => (after[i][n].active => after[i][n - 1].active)

\* The write that brings an entity gives it its identity: no list names it twice.
NewNamedOnce(changes) ==
  \A i \in Entities : ~Exists(history, i) => Len(changes[i]) <= 1

-----------------------------------------------------------------------------
\* Changesets

\* The caller reads the entities it is about to change, and the version it saw.
Read(p) ==
  /\ seen' = [seen EXCEPT ![p] = knowledge]
  /\ UNCHANGED <<history, dependsOn, changesets, knowledge, imported>>

\* Faulty variant: does not count the changeset as new knowledge.
ApplyInPlace(p, changes) ==
  LET after == Revised(history, changes, IF knowledge = 0 THEN 1 ELSE knowledge)
  IN  /\ seen[p] = knowledge /\ knowledge < MaxKnowledge
      /\ NewNamedOnce(changes)
      /\ NoResurrection(history, after)
      /\ DependenciesHold(after)
      /\ history' = after
      /\ knowledge' = IF knowledge = 0 THEN 1 ELSE knowledge
      /\ changesets' = Append(changesets,
           [base |-> knowledge, named |-> [i \in Entities |-> Len(changes[i])],
            applied |-> TRUE])
      /\ seen' = [seen EXCEPT ![p] = None]
      /\ UNCHANGED <<dependsOn, imported>>

Apply(p, changes) ==
  LET after == Revised(history, changes, knowledge + 1)
  IN  /\ seen[p] = knowledge /\ knowledge < MaxKnowledge
      /\ NewNamedOnce(changes)
      /\ NoResurrection(history, after)
      /\ DependenciesHold(after)
      /\ history' = after
      /\ knowledge' = knowledge + 1
      /\ changesets' = Append(changesets,
           [base |-> knowledge, named |-> [i \in Entities |-> Len(changes[i])],
            applied |-> TRUE])
      /\ seen' = [seen EXCEPT ![p] = None]
      /\ UNCHANGED <<dependsOn, imported>>

\* VERSION_CONFLICT, RESURRECTION_BLOCKED or RETIRED_DEPENDENCY: rolled back.
Refuse(p) ==
  /\ seen[p] # None
  /\ seen' = [seen EXCEPT ![p] = None]
  /\ UNCHANGED <<history, dependsOn, changesets, knowledge, imported>>

\* The revisions of i that changeset c wrote.
AppliedBy(c, i) == {n \in DOMAIN history[i] : history[i][n].knowledge = c.base + 1}

\* The entities a changeset names.
Named(c) == {i \in Entities : c.named[i] > 0}

\* Faulty variant: the changeset wrote some revision of each.
TouchedOnce(c) == \A i \in Named(c) : AppliedBy(c, i) # {}

\* The last revision of every entity of c is one the changeset wrote.
Unchanged(c) == \A i \in Named(c) : Len(history[i]) \in AppliedBy(c, i)

\* What the rollback writes: the revision before the last one; an entity that has no
\* other is retired.
Restored(i) ==
  IF Len(history[i]) > 1 THEN history[i][Len(history[i]) - 1]
  ELSE [Current(history, i) EXCEPT !.active = FALSE]

\* An entity named twice is written twice with the same expected version, and the
\* second write conflicts.
NamedOnce(c) == \A i \in Named(c) : c.named[i] = 1

Rollback(k) ==
  LET c == changesets[k]
      after == [i \in Entities |-> IF i \in Named(c)
                  THEN Append(history[i], [Restored(i) EXCEPT !.knowledge = knowledge + 1])
                  ELSE history[i]]
  IN  /\ c.applied /\ knowledge < MaxKnowledge
      /\ Unchanged(c) /\ NamedOnce(c)
      /\ NoResurrection(history, after)
      /\ DependenciesHold(after)
      /\ history' = after
      /\ knowledge' = knowledge + 1
      /\ changesets' = [changesets EXCEPT ![k].applied = FALSE]
      /\ UNCHANGED <<dependsOn, seen, imported>>

-----------------------------------------------------------------------------
\* Dependencies

\* Faulty variant: walks along the edges the wrong way.
VisitedBack(i) == {i} \cup {e[1] : e \in {d \in dependsOn : d[2] = i}}

\* Sets that a walk along depends_on does not leave.
Closed(S) == \A e \in dependsOn : e[1] \in S => e[2] \in S

\* What the walk visits from i: what every such set around i holds.
Visited(i) == {j \in Entities : \A S \in SUBSET Entities : i \in S /\ Closed(S) => j \in S}

Link(a, b) ==
  /\ a # b /\ Exists(history, a) /\ Exists(history, b)
  /\ Active(history, a) => Active(history, b)
  /\ a \notin Visited(b)
  /\ <<a, b>> \notin dependsOn /\ knowledge < MaxKnowledge
  /\ dependsOn' = dependsOn \cup {<<a, b>>}
  /\ knowledge' = knowledge + 1
  /\ UNCHANGED <<history, changesets, seen, imported>>

-----------------------------------------------------------------------------
\* Other writers

\* import_legacy: its nodes become historical entities, and its edges are taken as
\* they are; the same graph is imported once.
Import(nodes, edges) ==
  /\ ~imported /\ knowledge < MaxKnowledge
  /\ \A i \in nodes : ~Exists(history, i)
  /\ imported' = TRUE
  /\ knowledge' = knowledge + 1
  /\ history' = [i \in Entities |-> IF i \in nodes
       THEN <<[knowledge |-> knowledge + 1, active |-> FALSE, payload |-> knowledge + 1]>>
       ELSE history[i]]
  /\ dependsOn' = dependsOn \cup edges
  /\ UNCHANGED <<changesets, seen>>

\* _index: a file that is new is active, one that changed keeps its lifecycle, one
\* that is gone is historical, whatever depends on it.
Index(i, present) ==
  /\ i \in Code /\ knowledge < MaxKnowledge
  /\ present \/ Active(history, i)
  /\ history' = [history EXCEPT ![i] = Append(@,
       [knowledge |-> knowledge + 1,
        payload |-> IF present THEN knowledge + 1 ELSE Current(history, i).payload,
        active |-> present /\ (Exists(history, i) => Active(history, i))])]
  /\ knowledge' = knowledge + 1
  /\ UNCHANGED <<dependsOn, changesets, seen, imported>>

Next ==
  \/ \E p \in Writers : Read(p) \/ Refuse(p) \/ \E changes \in Changes : Apply(p, changes)
  \/ \E k \in DOMAIN changesets : Rollback(k)
  \/ \E a, b \in Entities : Link(a, b)
  \/ \E nodes \in (SUBSET (Entities \ Code)) \ {{}} :
       \E edges \in SUBSET {e \in nodes \X nodes : e[1] # e[2]} : Import(nodes, edges)
  \/ \E i \in Code, present \in BOOLEAN : Index(i, present)

Spec == Init /\ [][Next]_vars

-----------------------------------------------------------------------------
\* Properties

\* entities_at(): the last revision of each entity up to a version.
EntitiesAt(h, k) ==
  [i \in Entities |->
     LET upTo == {n \in DOMAIN h[i] : h[i][n].knowledge <= k}
     IN  IF upTo = {} THEN None
         ELSE LET r == h[i][Cardinality(upTo)]
              IN  [active |-> r.active, payload |-> r.payload]]

\* What the graph showed at a knowledge version it shows for ever: no write, rollback,
\* import or reconcile revises the past.
PastIsFixed == \A k \in 0..knowledge : EntitiesAt(history', k) = EntitiesAt(history, k)

\* A rollback brings back exactly what was there before its changeset, however
\* changesets were stacked on one another and rolled back since.
RollbackRestores ==
  \A k \in DOMAIN changesets :
    changesets[k].applied /\ ~changesets'[k].applied =>
      LET before == EntitiesAt(history, changesets[k].base)
          now == EntitiesAt(history', knowledge')
      IN  \A i \in Named(changesets[k]) :
            IF before[i] # None THEN now[i] = before[i] ELSE ~now[i].active

\* The past stays what it was, and a rollback brings it back.
PastKept == [][PastIsFixed /\ RollbackRestores]_vars

\* Intent that is active never rests on intent that was retired, whichever of changesets,
\* rollbacks and new edges came in between; the index alone retires without asking.
NoRetiredDependency ==
  \A e \in dependsOn : Active(history, e[1]) => Active(history, e[2]) \/ e[2] \in Code

\* No active entity depends on itself, though an imported graph may hold cycles, which
\* nobody checks, and edges are added to it later.
NoActiveCycle ==
  \A e \in dependsOn : Active(history, e[1]) => e[1] \notin Visited(e[2])

\* Active intent rests, without going in circles, on active intent.
DependenciesSound == NoRetiredDependency /\ NoActiveCycle
=============================================================================
