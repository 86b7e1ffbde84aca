------------------------ MODULE KnowledgeGraph_proofs ------------------------
(***************************************************************************)
(* Proofs about KnowledgeGraph: that what was true at a knowledge version  *)
(* stays what it was, that a rollback brings it back, and that current     *)
(* entities depend, without cycles, on current ones.                       *)
(*                                                                         *)
(* Every write adds revisions dated with the next knowledge version, so    *)
(* what an earlier version reads is unchanged.  A changeset was applied at *)
(* a version of the past and wrote once what it names once; a rollback     *)
(* that finds no later revision of it returns to what was before.  A new   *)
(* dependency closes no cycle, since the entities visited from its end     *)
(* are closed under the dependencies and do not hold its start.            *)
(***************************************************************************)
EXTENDS KnowledgeGraph, SequenceTheorems, FiniteSetTheorems, TLAPS

-----------------------------------------------------------------------------
\* The inductive invariant

\* Revisions are dated in order, none later than now.
Dated ==
  \A i \in Entities : \A n \in 1..Len(history[i]) :
    /\ history[i][n].knowledge <= knowledge
    /\ \A m \in 1..n : history[i][m].knowledge <= history[i][n].knowledge

\* A changeset is of the past, and wrote once what it names once.
WrittenOnce ==
  \A k \in 1..Len(changesets) :
    /\ changesets[k].base < knowledge
    /\ \A i \in Entities : changesets[k].named[i] = 1 =>
         \A n, m \in AppliedBy(changesets[k], i) : n = m

\* Dependencies are between entities that exist.
Linked == \A e \in dependsOn : Exists(history, e[1]) /\ Exists(history, e[2])

GraphInv ==
  TypeOK /\ Dated /\ WrittenOnce /\ Linked /\ NoRetiredDependency /\ NoActiveCycle

\* What every write does to the history: it adds revisions of a new knowledge version.
Grown ==
  /\ knowledge' = knowledge + 1
  /\ \A i \in Entities :
       /\ Len(history[i]) <= Len(history'[i])
       /\ \A n \in 1..Len(history[i]) : history'[i][n] = history[i][n]
       /\ \A n \in (Len(history[i]) + 1)..Len(history'[i]) :
            history'[i][n].knowledge = knowledge + 1

\* What exists is active after a write only if it was before.
NoneRevived ==
  \A i \in Entities : Exists(history, i) /\ Active(history', i) => Active(history, i)

-----------------------------------------------------------------------------
\* Histories

\* A set of naturals has a least element.
LEMMA LeastNatural ==
  ASSUME NEW T \in SUBSET Nat, T # {}
  PROVE  \E x \in T : \A y \in T : x <= y
<1> DEFINE R == StrictSubsetOrdering(Nat)
           S == FiniteSubsetsOf(Nat)
           U == {0..n : n \in T}
<1>1. IsWellFoundedOn(R, S)
  BY FS_StrictSubsetOrderingWellFounded
<1>2. U \subseteq S
  <2>1. ASSUME NEW n \in T PROVE IsFiniteSet(0..n)
    BY FS_Interval
  <2>2. QED BY <2>1 DEF FiniteSubsetsOf
<1>3. U # {}
  OBVIOUS
<1>4. \E x \in U : \A y \in U : ~(<<y, x>> \in R)
  <2> HIDE DEF R, S, U
  <2> QED BY <1>1, <1>2, <1>3, WFMin
<1>5. PICK x \in T : \A y \in T : ~(<<0..y, 0..x>> \in R)
  BY <1>4
<1>6. ASSUME NEW y \in T, y < x
      PROVE  <<0..y, 0..x>> \in R
  BY <1>6 DEF StrictSubsetOrdering
<1>7. \A y \in T : x <= y
  <2> TAKE y \in T
  <2>1. ~(y < x)
    BY <1>5, <1>6
  <2>2. x \in Nat /\ y \in Nat
    OBVIOUS
  <2>3. QED
    BY <2>1, <2>2
<1>8. QED
  BY <1>7

\* The revisions of an entity, and the last of them.
LEMMA Existing ==
  ASSUME NEW h \in [Entities -> Seq(Revisions)], NEW i \in Entities
  PROVE  /\ Len(h[i]) \in Nat /\ DOMAIN h[i] = 1..Len(h[i])
         /\ \A n \in 1..Len(h[i]) : h[i][n] \in Revisions
         /\ Exists(h, i) <=> Len(h[i]) > 0
         /\ Exists(h, i) => Len(h[i]) \in 1..Len(h[i]) /\ Current(h, i) \in Revisions
<1>1. h[i] \in Seq(Revisions)
  OBVIOUS
<1>2. Len(h[i]) \in Nat /\ DOMAIN h[i] = 1..Len(h[i])
      /\ \A n \in 1..Len(h[i]) : h[i][n] \in Revisions
  BY <1>1
<1>3. Exists(h, i) <=> Len(h[i]) > 0
  BY <1>1, EmptySeq DEF Exists
<1>4. QED
  BY <1>2, <1>3 DEF Current

\* A revision appended to an entity.
LEMMA Appended ==
  ASSUME NEW s \in Seq(Revisions), NEW r \in Revisions
  PROVE  /\ Append(s, r) \in Seq(Revisions) /\ Len(Append(s, r)) = Len(s) + 1
         /\ \A n \in 1..Len(s) : Append(s, r)[n] = s[n]
         /\ Append(s, r)[Len(s) + 1] = r
  BY AppendProperties

\* The past a history shows does not depend on what is added later.
LEMMA GrownPast ==
  ASSUME KnowledgeAssumption, TypeOK, Dated, Grown, history' \in [Entities -> Seq(Revisions)]
  PROVE  PastIsFixed
<1> SUFFICES ASSUME NEW k \in 0..knowledge PROVE EntitiesAt(history', k) = EntitiesAt(history, k)
  BY DEF PastIsFixed
<1> DEFINE upTo(h, i) == {n \in DOMAIN h[i] : h[i][n].knowledge <= k}
<1>1. history \in [Entities -> Seq(Revisions)] /\ knowledge \in Nat
  BY DEF TypeOK, KnowledgeAssumption
<1>2. ASSUME NEW i \in Entities
      PROVE  /\ upTo(history', i) = upTo(history, i)
             /\ upTo(history, i) # {} => LET n == Cardinality(upTo(history, i))
                                         IN  history'[i][n] = history[i][n]
  <2>1. /\ Len(history[i]) \in Nat /\ DOMAIN history[i] = 1..Len(history[i])
        /\ Len(history'[i]) \in Nat /\ DOMAIN history'[i] = 1..Len(history'[i])
    BY <1>1, Existing
  <2>2. ASSUME NEW n \in 1..Len(history'[i]), history'[i][n].knowledge <= k
        PROVE  n \in 1..Len(history[i])
    BY <1>1, <2>1, <2>2 DEF Grown
  <2>3. upTo(history', i) = upTo(history, i)
    BY <2>1, <2>2 DEF Grown
  <2> DEFINE L == Len(history[i])
  <2>4. IsFiniteSet(1..L) /\ Cardinality(1..L) = L
    <3>1. L \in Nat
      BY <2>1
    <3> HIDE DEF L
    <3>2. QED
      BY <3>1, FS_Interval
  <2>5. /\ IsFiniteSet(upTo(history, i))
        /\ Cardinality(upTo(history, i)) \in 0..Len(history[i])
        /\ upTo(history, i) # {} => Cardinality(upTo(history, i)) # 0
    <3>1. upTo(history, i) \subseteq 1..L
      BY <2>1
    <3>2. L \in Nat
      BY <2>1
    <3> HIDE DEF upTo, L
    <3>3. /\ IsFiniteSet(upTo(history, i)) /\ Cardinality(upTo(history, i)) <= L
          /\ Cardinality(upTo(history, i)) \in Nat
          /\ upTo(history, i) # {} => Cardinality(upTo(history, i)) # 0
      BY <2>4, <3>1, FS_Subset, FS_CardinalityType, FS_EmptySet
    <3>4. Cardinality(upTo(history, i)) \in 0..L
      BY <3>2, <3>3
    <3>5. QED
      BY <3>3, <3>4 DEF L
  <2> HIDE DEF upTo
  <2>6. QED
    BY <2>1, <2>3, <2>5 DEF Grown
<1>3. QED
  BY <1>2 DEF EntitiesAt

\* Growing keeps the order of dates, and what was written once stays written once.
LEMMA GrownDated ==
  ASSUME KnowledgeAssumption, TypeOK, Dated, Grown, history' \in [Entities -> Seq(Revisions)]
  PROVE  /\ Dated'
         /\ \A i \in Entities : Exists(history, i) => Exists(history', i)
         /\ \A c \in Changesets, i \in Entities :
              c.base < knowledge => AppliedBy(c, i)' = AppliedBy(c, i)
<1>1. history \in [Entities -> Seq(Revisions)] /\ knowledge \in Nat
  BY DEF TypeOK, KnowledgeAssumption
<1>2. ASSUME NEW i \in Entities
      PROVE  /\ Len(history[i]) \in Nat /\ DOMAIN history[i] = 1..Len(history[i])
             /\ Len(history'[i]) \in Nat /\ DOMAIN history'[i] = 1..Len(history'[i])
             /\ \A n \in 1..Len(history[i]) : history[i][n].knowledge \in Nat
             /\ Exists(history, i) => Exists(history', i)
  <2>1. Len(history[i]) <= Len(history'[i])
    BY DEF Grown
  <2>2. QED
    <3>1. /\ Len(history[i]) \in Nat /\ DOMAIN history[i] = 1..Len(history[i])
          /\ Len(history'[i]) \in Nat /\ DOMAIN history'[i] = 1..Len(history'[i])
          /\ \A n \in 1..Len(history[i]) : history[i][n] \in Revisions
          /\ Exists(history, i) <=> Len(history[i]) > 0
          /\ Exists(history', i) <=> Len(history'[i]) > 0
      BY <1>1, Existing
    <3>2. \A n \in 1..Len(history[i]) : history[i][n].knowledge \in Nat
      BY <3>1 DEF Revisions, KnowledgeAssumption
    <3>3. Exists(history, i) => Exists(history', i)
      BY <2>1, <3>1
    <3>4. QED
      BY <3>1, <3>2, <3>3
<1>3. Dated'
  <2>1. SUFFICES ASSUME NEW i \in Entities, NEW n \in 1..Len(history'[i])
                 PROVE  /\ history'[i][n].knowledge <= knowledge'
                        /\ \A m \in 1..n : history'[i][m].knowledge <= history'[i][n].knowledge
    BY DEF Dated
  <2>2. CASE n \in 1..Len(history[i])
    <3>1. history'[i][n] = history[i][n] /\ \A m \in 1..n : history'[i][m] = history[i][m]
      BY <1>2, <2>2 DEF Grown
    <3>2. history[i][n].knowledge <= knowledge /\ history[i][n].knowledge \in Nat
          /\ \A m \in 1..n : history[i][m].knowledge <= history[i][n].knowledge
      BY <1>2, <2>2 DEF Dated
    <3>3. QED
      BY <1>1, <3>1, <3>2 DEF Grown
  <2>3. CASE n \notin 1..Len(history[i])
    <3>1. n \in (Len(history[i]) + 1)..Len(history'[i])
      BY <1>2, <2>3
    <3>2. history'[i][n].knowledge = knowledge + 1
      BY <3>1 DEF Grown
    <3>3. ASSUME NEW m \in 1..n PROVE history'[i][m].knowledge <= knowledge + 1
      <4>1. CASE m \in 1..Len(history[i])
        <5>1. history'[i][m] = history[i][m]
          BY <4>1 DEF Grown
        <5>2. history[i][m].knowledge <= knowledge /\ history[i][m].knowledge \in Nat
          BY <1>2, <4>1 DEF Dated
        <5>3. QED
          BY <1>1, <5>1, <5>2
      <4>2. CASE m \notin 1..Len(history[i])
        <5>1. m \in (Len(history[i]) + 1)..Len(history'[i])
          BY <1>2, <4>2, <3>1
        <5>2. QED
          BY <1>1, <5>1 DEF Grown
      <4>3. QED
        BY <4>1, <4>2
    <3>4. QED
      BY <1>1, <3>2, <3>3 DEF Grown
  <2>4. QED
    BY <2>2, <2>3
<1>4. ASSUME NEW c \in Changesets, NEW i \in Entities, c.base < knowledge
      PROVE  AppliedBy(c, i)' = AppliedBy(c, i)
  <2>1. AppliedBy(c, i)' = {n \in 1..Len(history'[i]) : history'[i][n].knowledge = c.base + 1}
    BY <1>2 DEF AppliedBy
  <2>2. AppliedBy(c, i) = {n \in 1..Len(history[i]) : history[i][n].knowledge = c.base + 1}
    BY <1>2 DEF AppliedBy
  <2>3. c.base \in Nat
    BY DEF Changesets
  <2>4. ASSUME NEW n \in 1..Len(history'[i]), history'[i][n].knowledge = c.base + 1
        PROVE  n \in 1..Len(history[i])
    BY <1>1, <1>2, <1>4, <2>3, <2>4 DEF Grown
  <2>5. QED
    BY <1>2, <2>1, <2>2, <2>4 DEF Grown
<1>5. QED
  BY <1>2, <1>3, <1>4

\* A revision after a retired one is not active, so neither is the last of several.
LEMMA NoneRevivedBy ==
  ASSUME TypeOK, Grown, history' \in [Entities -> Seq(Revisions)],
         NoResurrection(history, history')
  PROVE  NoneRevived
<1> SUFFICES ASSUME NEW i \in Entities, Exists(history, i), Active(history', i)
             PROVE  Active(history, i)
  BY DEF NoneRevived
<1> DEFINE L == Len(history[i])
           K == Len(history'[i])
           T == {n \in L..K : history'[i][n].active}
<1>1. /\ L \in Nat \ {0} /\ K \in Nat /\ L <= K
      /\ DOMAIN history'[i] = 1..K
  <2>1. /\ Len(history[i]) \in Nat /\ Len(history[i]) > 0
        /\ Len(history'[i]) \in Nat /\ DOMAIN history'[i] = 1..Len(history'[i])
    BY Existing DEF TypeOK
  <2>2. QED
    BY <2>1 DEF Grown
<1>2. T \in SUBSET Nat /\ K \in T
  BY <1>1 DEF Active, Current
<1>3. PICK n \in T : \A m \in T : n <= m
  <2> HIDE DEF T
  <2>1. QED
    BY <1>2, LeastNatural
<1>4. ASSUME n # L PROVE FALSE
  <2>1. n \in DOMAIN history'[i] /\ n > 1 /\ n > L
    BY <1>1, <1>3, <1>4
  <2>2. history'[i][n - 1].active
    BY <1>3, <2>1 DEF NoResurrection
  <2>3. n - 1 \in T
    BY <1>1, <1>3, <2>1, <2>2
  <2>4. QED
    BY <1>2, <1>3, <2>3
<1>5. history'[i][L] = history[i][L] /\ history'[i][L].active
  BY <1>1, <1>3, <1>4 DEF Grown
<1>6. QED
  BY <1>5 DEF Active, Current

-----------------------------------------------------------------------------
\* What each operation writes

\* What a changeset writes.
LEMMA ApplyGrows ==
  ASSUME KnowledgeAssumption, TypeOK, NEW p \in Writers, NEW changes \in Changes, Apply(p, changes)
  PROVE  /\ history' \in [Entities -> Seq(Revisions)] /\ Grown /\ NoneRevived
         /\ [i \in Entities |-> Len(changes[i])] \in [Entities -> 0..MaxChanges]
         /\ \A i \in Entities : Len(history'[i]) = Len(history[i]) + Len(changes[i])
<1>1. /\ history \in [Entities -> Seq(Revisions)] /\ knowledge \in Nat /\ MaxKnowledge \in Nat
      /\ MaxChanges \in Nat /\ knowledge + 1 \in 1..MaxKnowledge
  BY DEF TypeOK, KnowledgeAssumption, Apply
<1> DEFINE new(i) == [n \in 1..Len(changes[i]) |->
                       [knowledge |-> knowledge + 1, active |-> changes[i][n],
                        payload |-> knowledge + 1]]
<1>2. \A i \in Entities : history'[i] = history[i] \o new(i)
  BY DEF Apply, Revised
<1>3. ASSUME NEW i \in Entities
      PROVE  /\ Len(changes[i]) \in 0..MaxChanges
             /\ new(i) \in Seq(Revisions) /\ Len(new(i)) = Len(changes[i])
             /\ \A n \in 1..Len(changes[i]) : new(i)[n].knowledge = knowledge + 1
  <2>1. PICK n \in 0..MaxChanges : changes[i] \in [1..n -> BOOLEAN]
    BY DEF Changes, Lifecycles
  <2>2. changes[i] \in Seq(BOOLEAN) /\ Len(changes[i]) = n
    BY <1>1, <2>1
  <2>3. \A m \in 1..Len(changes[i]) : new(i)[m] \in Revisions
    BY <1>1, <2>1, <2>2 DEF Revisions
  <2>4. new(i) \in Seq(Revisions) /\ Len(new(i)) = Len(changes[i])
    <3> DEFINE c == Len(changes[i])
    <3>1. c \in Nat /\ \A m \in 1..c : new(i)[m] \in Revisions
      BY <1>1, <2>2, <2>3
    <3>2. DOMAIN new(i) = 1..c /\ new(i) = [m \in 1..c |-> new(i)[m]]
      OBVIOUS
    <3> HIDE DEF c, new
    <3>3. new(i) \in [1..c -> Revisions]
      BY <3>1, <3>2
    <3>4. QED
      BY <3>1, <3>3, LenProperties DEF c
  <2>5. QED
    BY <2>2, <2>3, <2>4
<1>4. ASSUME NEW i \in Entities
      PROVE  /\ history'[i] \in Seq(Revisions)
             /\ Len(history'[i]) = Len(history[i]) + Len(changes[i])
             /\ \A n \in 1..Len(history[i]) : history'[i][n] = history[i][n]
             /\ \A n \in (Len(history[i]) + 1)..Len(history'[i]) :
                  history'[i][n].knowledge = knowledge + 1
  <2>1. history[i] \in Seq(Revisions) /\ Len(history[i]) \in Nat
    BY <1>1
  <2> HIDE DEF new
  <2>2. /\ new(i) \in Seq(Revisions) /\ Len(new(i)) = Len(changes[i])
        /\ \A n \in 1..Len(changes[i]) : new(i)[n].knowledge = knowledge + 1
        /\ Len(changes[i]) \in Nat /\ history'[i] = history[i] \o new(i)
    BY <1>1, <1>2, <1>3
  <2> DEFINE s == new(i)
             h == history[i]
  <2> HIDE DEF s, h
  <2>3. /\ history'[i] \in Seq(Revisions)
        /\ Len(history'[i]) = Len(history[i]) + Len(changes[i])
    <3>1. h \o s \in Seq(Revisions) /\ Len(h \o s) = Len(h) + Len(s)
      <4>1. h \in Seq(Revisions) /\ s \in Seq(Revisions)
        BY <2>1, <2>2 DEF h, s
      <4>2. QED
        BY <4>1, ConcatProperties
    <3>2. QED
      BY <2>2, <3>1 DEF h, s
  <2>4. ASSUME NEW n \in 1..Len(history[i]) PROVE history'[i][n] = history[i][n]
    BY <2>1, <2>2, ConcatProperties
  <2>5. ASSUME NEW n \in (Len(history[i]) + 1)..Len(history'[i])
        PROVE  history'[i][n].knowledge = knowledge + 1
    <3> DEFINE a == Len(history[i])
               c == Len(changes[i])
    <3>1. n - a \in 1..c
      <4>1. a \in Nat /\ c \in Nat /\ n \in (a + 1)..(a + c)
        BY <2>1, <2>2, <2>3
      <4> HIDE DEF a, c
      <4>2. QED
        BY <4>1
    <3>2. history'[i][n] = new(i)[n - Len(history[i])]
      BY <2>1, <2>2, <2>3, <3>1, ConcatProperties
    <3>3. QED
      BY <2>2, <3>1, <3>2
  <2>6. QED
    BY <2>3, <2>4, <2>5
<1>5. history' \in [Entities -> Seq(Revisions)]
  <2>1. history' = [i \in Entities |-> history'[i]]
    BY DEF Apply, Revised
  <2>2. QED
    BY <1>4, <2>1
<1>6. Grown
  <2>1. knowledge' = knowledge + 1
    BY DEF Apply
  <2>2. \A i \in Entities : Len(history[i]) <= Len(history'[i])
    <3>1. ASSUME NEW i \in Entities PROVE Len(history[i]) \in Nat /\ Len(changes[i]) \in Nat
      BY <1>1, <1>3
    <3>2. QED
      <4>1. SUFFICES ASSUME NEW i \in Entities PROVE Len(history[i]) <= Len(history'[i])
        OBVIOUS
      <4>2. Len(history'[i]) = Len(history[i]) + Len(changes[i])
        BY <1>4
      <4>3. QED
        <5> DEFINE a == Len(history[i])
                   b == Len(history'[i])
                   c == Len(changes[i])
        <5>1. a \in Nat /\ c \in Nat /\ b = a + c
          BY <3>1, <4>2
        <5> HIDE DEF a, b, c
        <5>2. a <= b
          BY <5>1
        <5>3. QED
          BY <5>2 DEF a, b
  <2>3. QED
    BY <1>4, <2>1, <2>2 DEF Grown
<1>7. NoneRevived
  <2>1. NoResurrection(history, history')
    BY DEF Apply
  <2>2. QED
    BY <1>5, <1>6, <2>1, NoneRevivedBy
<1> HIDE DEF new
<1>8. QED
  BY <1>3, <1>4, <1>5, <1>6, <1>7

\* A revision of the new knowledge version behind those of some entities.
LEMMA OneRevisionGrows ==
  ASSUME KnowledgeAssumption, TypeOK, NEW S \in SUBSET Entities, knowledge' = knowledge + 1,
         history' \in [Entities -> Seq(Revisions)],
         \A i \in Entities : i \notin S => history'[i] = history[i],
         \A i \in S : \E r \in Revisions :
           r.knowledge = knowledge + 1 /\ history'[i] = Append(history[i], r)
  PROVE  Grown
<1>1. history \in [Entities -> Seq(Revisions)] /\ knowledge \in Nat
  BY DEF TypeOK, KnowledgeAssumption
<1>2. ASSUME NEW i \in Entities
      PROVE  /\ Len(history[i]) <= Len(history'[i])
             /\ \A n \in 1..Len(history[i]) : history'[i][n] = history[i][n]
             /\ \A n \in (Len(history[i]) + 1)..Len(history'[i]) :
                  history'[i][n].knowledge = knowledge + 1
  <2>1. history[i] \in Seq(Revisions) /\ Len(history[i]) \in Nat
    BY <1>1
  <2>2. CASE i \notin S
    BY <2>1, <2>2
  <2>3. CASE i \in S
    <3>1. PICK r \in Revisions : r.knowledge = knowledge + 1 /\ history'[i] = Append(history[i], r)
      BY <2>3
    <3>2. /\ Len(history'[i]) = Len(history[i]) + 1
          /\ \A n \in 1..Len(history[i]) : history'[i][n] = history[i][n]
          /\ history'[i][Len(history[i]) + 1] = r
      BY <2>1, <3>1, Appended
    <3>3. QED
      BY <2>1, <3>1, <3>2
  <2>4. QED
    BY <2>2, <2>3
<1>3. QED
  BY <1>2 DEF Grown

\* What a rollback writes: one revision of each entity its changeset names.
LEMMA RollbackGrows ==
  ASSUME KnowledgeAssumption, TypeOK, NEW k \in DOMAIN changesets, Rollback(k)
  PROVE  /\ history' \in [Entities -> Seq(Revisions)] /\ Grown /\ NoneRevived
         /\ \A i \in Named(changesets[k]) :
              /\ Len(history[i]) \in AppliedBy(changesets[k], i) /\ Len(history[i]) > 0
              /\ Restored(i) \in Revisions
              /\ history'[i] = Append(history[i], [Restored(i) EXCEPT !.knowledge = knowledge + 1])
<1> DEFINE c == changesets[k]
           again(i) == [Restored(i) EXCEPT !.knowledge = knowledge + 1]
<1>1. /\ history \in [Entities -> Seq(Revisions)] /\ knowledge \in Nat /\ MaxKnowledge \in Nat
      /\ knowledge + 1 \in 1..MaxKnowledge
  BY DEF TypeOK, KnowledgeAssumption, Rollback
<1>2. /\ \A i \in Entities \ Named(c) : history'[i] = history[i]
      /\ \A i \in Named(c) : history'[i] = Append(history[i], again(i))
      /\ history' = [i \in Entities |-> history'[i]]
      /\ \A i \in Named(c) : Len(history[i]) \in AppliedBy(c, i)
      /\ Named(c) \subseteq Entities
      /\ knowledge' = knowledge + 1
  BY DEF Rollback, Unchanged, Named
<1>3. ASSUME NEW i \in Named(c)
      PROVE  /\ Len(history[i]) \in Nat /\ Len(history[i]) > 0 /\ Restored(i) \in Revisions
             /\ again(i) \in Revisions /\ again(i).knowledge = knowledge + 1
  <2>1. Len(history[i]) \in DOMAIN history[i]
    BY <1>2 DEF AppliedBy
  <2>2. /\ Len(history[i]) \in Nat /\ Len(history[i]) > 0
        /\ \A n \in 1..Len(history[i]) : history[i][n] \in Revisions
        /\ Current(history, i) \in Revisions
    BY <1>1, <1>2, <2>1, Existing
  <2>3. Restored(i) \in Revisions
    <3>1. [Current(history, i) EXCEPT !.active = FALSE] \in Revisions
      BY <2>2 DEF Revisions
    <3>2. Len(history[i]) > 1 => history[i][Len(history[i]) - 1] \in Revisions
      BY <2>2
    <3>3. QED
      BY <3>1, <3>2 DEF Restored
  <2>4. again(i) \in Revisions /\ again(i).knowledge = knowledge + 1
    BY <1>1, <2>3 DEF Revisions
  <2>5. QED
    BY <2>2, <2>3, <2>4
<1>4. history' \in [Entities -> Seq(Revisions)]
  <2>1. ASSUME NEW i \in Entities PROVE history'[i] \in Seq(Revisions)
    <3>1. CASE i \in Named(c)
      <4>1. history[i] \in Seq(Revisions) /\ again(i) \in Revisions
        BY <1>1, <1>3, <3>1
      <4> HIDE DEF again
      <4>2. QED
        BY <1>2, <3>1, <4>1, Appended
    <3>2. CASE i \notin Named(c)
      BY <1>1, <1>2, <3>2
    <3>3. QED
      BY <3>1, <3>2
  <2>2. QED
    BY <1>2, <2>1
<1>5. Grown
  <2>1. \A i \in Named(c) : \E r \in Revisions :
          r.knowledge = knowledge + 1 /\ history'[i] = Append(history[i], r)
    BY <1>2, <1>3
  <2> HIDE DEF c, again
  <2>2. QED
    BY <1>2, <1>4, <2>1, OneRevisionGrows
<1>6. NoneRevived
  <2>1. NoResurrection(history, history')
    BY DEF Rollback
  <2>2. QED
    BY <1>4, <1>5, <2>1, NoneRevivedBy
<1>7. QED
  BY <1>2, <1>3, <1>4, <1>5, <1>6

\* What an import writes: retired entities nobody had.
LEMMA ImportGrows ==
  ASSUME KnowledgeAssumption, TypeOK, NEW nodes \in SUBSET Entities, NEW edges, Import(nodes, edges)
  PROVE  /\ history' \in [Entities -> Seq(Revisions)] /\ Grown /\ NoneRevived
         /\ \A i \in nodes : ~Exists(history, i) /\ Exists(history', i) /\ ~Active(history', i)
         /\ \A i \in Entities \ nodes : history'[i] = history[i]
<1> DEFINE r == [knowledge |-> knowledge + 1, active |-> FALSE, payload |-> knowledge + 1]
<1>1. /\ history \in [Entities -> Seq(Revisions)] /\ knowledge \in Nat
      /\ r \in Revisions /\ r.knowledge = knowledge + 1 /\ r.active = FALSE
  <2>1. history \in [Entities -> Seq(Revisions)] /\ knowledge + 1 \in 1..MaxKnowledge
    BY DEF TypeOK, KnowledgeAssumption, Import
  <2>2. knowledge \in Nat
    BY DEF TypeOK, KnowledgeAssumption
  <2>3. r \in Revisions
    BY <2>1 DEF Revisions
  <2>4. QED
    BY <2>1, <2>2, <2>3
<1>2. /\ \A i \in Entities \ nodes : history'[i] = history[i]
      /\ \A i \in nodes : history'[i] = <<r>> /\ history[i] = << >>
      /\ history' = [i \in Entities |-> history'[i]]
      /\ knowledge' = knowledge + 1
  BY DEF Import, Exists
<1> HIDE DEF r
<1>3. \A i \in nodes : history'[i] = Append(history[i], r)
  <2>1. Append(<< >>, r) = <<r>>
    OBVIOUS
  <2>2. QED
    BY <1>2, <2>1
<1>4. history' \in [Entities -> Seq(Revisions)]
  <2>1. ASSUME NEW i \in Entities PROVE history'[i] \in Seq(Revisions)
    <3>1. CASE i \in nodes
      <4>1. history[i] \in Seq(Revisions) /\ history'[i] = Append(history[i], r)
        BY <1>1, <1>3, <3>1
      <4>2. QED
        BY <1>1, <4>1, Appended
    <3>2. CASE i \notin nodes
      BY <1>1, <1>2, <3>2
    <3>3. QED
      BY <3>1, <3>2
  <2>2. QED
    BY <1>2, <2>1
<1>5. Grown
  BY <1>1, <1>2, <1>3, <1>4, OneRevisionGrows
<1>6. ASSUME NEW i \in nodes
      PROVE  ~Exists(history, i) /\ Exists(history', i) /\ ~Active(history', i)
  <2>1. /\ history'[i] = <<r>> /\ history[i] = << >> /\ Len(<<r>>) = 1 /\ <<r>>[1] = r
        /\ <<r>> # << >>
    BY <1>2
  <2>2. QED
    BY <1>1, <2>1 DEF Exists, Active, Current
<1>7. NoneRevived
  BY <1>2, <1>6 DEF NoneRevived, Active, Current, Exists
<1>8. QED
  BY <1>2, <1>4, <1>5, <1>6, <1>7

\* What an index writes: a revision of one entity of the source tree.
LEMMA IndexGrows ==
  ASSUME KnowledgeAssumption, TypeOK, NEW i \in Code, NEW present \in BOOLEAN, Index(i, present)
  PROVE  /\ history' \in [Entities -> Seq(Revisions)] /\ Grown /\ NoneRevived
         /\ \A j \in Entities \ {i} : history'[j] = history[j]
<1> DEFINE r == [knowledge |-> knowledge + 1,
                 payload |-> IF present THEN knowledge + 1 ELSE Current(history, i).payload,
                 active |-> present /\ (Exists(history, i) => Active(history, i))]
<1>1. /\ history \in [Entities -> Seq(Revisions)] /\ knowledge \in Nat /\ i \in Entities
      /\ knowledge + 1 \in 1..MaxKnowledge
  BY DEF TypeOK, KnowledgeAssumption, Index
<1>2. r \in Revisions /\ r.knowledge = knowledge + 1
      /\ (r.active <=> present /\ (Exists(history, i) => Active(history, i)))
  <2>1. ~present => Current(history, i) \in Revisions
    BY <1>1, Existing DEF Index, Active
  <2>2. (present /\ (Exists(history, i) => Active(history, i))) \in BOOLEAN
    <3>1. Exists(history, i) => Current(history, i) \in Revisions
      BY <1>1, Existing
    <3>2. QED
      BY <3>1 DEF Active, Revisions, Exists
  <2>3. QED
    BY <1>1, <2>1, <2>2 DEF Revisions
<1>3. /\ history' = [history EXCEPT ![i] = Append(@, r)]
      /\ knowledge' = knowledge + 1
  BY DEF Index
<1> HIDE DEF r
<1>4. /\ history'[i] = Append(history[i], r)
      /\ \A j \in Entities \ {i} : history'[j] = history[j]
      /\ history' \in [Entities -> Seq(Revisions)]
  <2>1. history[i] \in Seq(Revisions)
    BY <1>1
  <2>2. Append(history[i], r) \in Seq(Revisions)
    BY <1>2, <2>1, Appended
  <2>3. QED
    BY <1>1, <1>3, <2>2
<1>5. Grown
  <2>1. {i} \in SUBSET Entities
    BY <1>1
  <2>2. QED
    BY <1>2, <1>3, <1>4, <2>1, OneRevisionGrows
<1>6. Exists(history, i) /\ Active(history', i) => Active(history, i)
  <2>1. Current(history', i) = r
    <3>1. history[i] \in Seq(Revisions) /\ Len(history[i]) \in Nat
      BY <1>1
    <3>2. QED
      BY <1>2, <1>4, <3>1, Appended DEF Current
  <2>2. QED
    BY <1>2, <2>1 DEF Active
<1>7. NoneRevived
  <2>1. ASSUME NEW j \in Entities, j # i, Active(history', j) PROVE Active(history, j)
    BY <1>4, <2>1 DEF Active, Exists, Current
  <2>2. QED
    BY <1>6, <2>1 DEF NoneRevived
<1>8. QED
  BY <1>4, <1>5, <1>7

-----------------------------------------------------------------------------
\* Dependencies

\* What is visited from an entity: it, and all its dependencies.
LEMMA VisitedClosed ==
  ASSUME NEW i \in Entities
  PROVE  /\ i \in Visited(i) /\ Visited(i) \subseteq Entities
         /\ dependsOn \subseteq Entities \X Entities => Closed(Visited(i))
         /\ \A S \in SUBSET Entities : i \in S /\ Closed(S) => Visited(i) \subseteq S
<1>1. i \in Visited(i) /\ Visited(i) \subseteq Entities
  BY DEF Visited
<1>2. \A S \in SUBSET Entities : i \in S /\ Closed(S) => Visited(i) \subseteq S
  BY DEF Visited
<1>3. ASSUME dependsOn \subseteq Entities \X Entities, NEW e \in dependsOn, e[1] \in Visited(i)
      PROVE  e[2] \in Visited(i)
  BY <1>3 DEF Visited, Closed
<1>4. QED
  BY <1>1, <1>2, <1>3 DEF Closed

\* A new edge to what does not lead back to its source closes no circle.
LEMMA LinkNoCycle ==
  ASSUME TypeOK, NoActiveCycle, NEW a \in Entities, NEW b \in Entities, a \notin Visited(b),
         dependsOn' = dependsOn \cup {<<a, b>>},
         \A e \in dependsOn : Active(history', e[1]) => Active(history, e[1])
  PROVE  NoActiveCycle'
<1> DEFINE Still(S) == \A d \in dependsOn' : d[1] \in S => d[2] \in S
<1>1. dependsOn \subseteq Entities \X Entities
  BY DEF TypeOK
<1>2. SUFFICES ASSUME NEW e \in dependsOn', Active(history', e[1])
               PROVE  \E S \in SUBSET Entities : Still(S) /\ e[2] \in S /\ e[1] \notin S
  <2>1. ASSUME NEW e \in dependsOn', Active(history', e[1]), e[1] \in Visited(e[2])'
        PROVE  FALSE
    <3>1. PICK S \in SUBSET Entities : Still(S) /\ e[2] \in S /\ e[1] \notin S
      BY <1>2, <2>1
    <3>2. QED
      BY <2>1, <3>1 DEF Visited, Closed
  <2>2. QED
    BY <2>1 DEF NoActiveCycle
<1>3. ASSUME NEW S \in SUBSET Entities, Closed(S), a \in S => b \in S
      PROVE  Still(S)
  BY <1>3 DEF Closed
<1>4. CASE e = <<a, b>>
  <2>1. Visited(b) \in SUBSET Entities /\ Closed(Visited(b)) /\ b \in Visited(b)
    BY <1>1, VisitedClosed
  <2>2. Still(Visited(b))
    BY <1>3, <2>1
  <2>3. QED
    BY <1>4, <2>1, <2>2
<1>5. CASE e # <<a, b>>
  <2>1. e \in dependsOn /\ e[1] \in Entities /\ e[2] \in Entities /\ e[1] \notin Visited(e[2])
    BY <1>1, <1>2, <1>5 DEF NoActiveCycle
  <2> DEFINE V == Visited(e[2])
  <2>2. /\ V \in SUBSET Entities /\ Closed(V) /\ e[2] \in V
        /\ \A S \in SUBSET Entities : e[2] \in S /\ Closed(S) => V \subseteq S
        /\ Visited(b) \in SUBSET Entities /\ Closed(Visited(b)) /\ b \in Visited(b)
    BY <1>1, <2>1, VisitedClosed
  <2> HIDE DEF V
  <2>3. CASE a \notin V
    <3>1. Still(V)
      BY <1>3, <2>2, <2>3
    <3>2. QED
      BY <2>1, <2>2, <3>1 DEF V
  <2>4. CASE a \in V
    <3>1. e[1] \notin Visited(b)
      <4>1. SUFFICES ASSUME e[1] \in Visited(b) PROVE FALSE
        OBVIOUS
      <4>2. e[2] \in Visited(b)
        BY <2>1, <2>2, <4>1 DEF Closed
      <4>3. V \subseteq Visited(b)
        BY <2>2, <4>2
      <4>4. QED
        BY <2>4, <4>3
    <3> DEFINE S == V \cup Visited(b)
    <3>2. S \in SUBSET Entities /\ Closed(S) /\ e[2] \in S /\ b \in S
      BY <2>2 DEF Closed
    <3>3. e[1] \notin S
      BY <2>1, <3>1 DEF V
    <3>4. Still(S)
      BY <1>3, <3>2
    <3>5. QED
      BY <3>2, <3>3, <3>4
  <2>5. QED
    BY <2>3, <2>4
<1>6. QED
  BY <1>4, <1>5

\* Edges among retired entities nobody had close no circle of active ones.
LEMMA ImportNoCycle ==
  ASSUME TypeOK, NoActiveCycle, Linked, NEW nodes \in SUBSET Entities,
         NEW edges \in SUBSET (nodes \X nodes), dependsOn' = dependsOn \cup edges,
         \A i \in nodes : ~Exists(history, i) /\ ~Active(history', i),
         \A i \in Entities \ nodes : history'[i] = history[i]
  PROVE  NoActiveCycle'
<1> DEFINE Still(S) == \A d \in dependsOn' : d[1] \in S => d[2] \in S
<1>1. dependsOn \subseteq Entities \X Entities
  BY DEF TypeOK
<1>2. SUFFICES ASSUME NEW e \in dependsOn', Active(history', e[1]), e[1] \in Visited(e[2])'
               PROVE  FALSE
  BY DEF NoActiveCycle
<1>3. e[1] \notin nodes /\ e \in dependsOn /\ e[1] \in Entities /\ e[2] \in Entities
  BY <1>1, <1>2
<1>4. Active(history, e[1])
  BY <1>2, <1>3 DEF Active, Exists, Current
<1> DEFINE S == Visited(e[2]) \ nodes
<1>5. Visited(e[2]) \in SUBSET Entities /\ Closed(Visited(e[2])) /\ e[2] \in Visited(e[2])
  BY <1>1, <1>3, VisitedClosed
<1>6. e[2] \in S
  BY <1>3, <1>5 DEF Linked
<1>7. Still(S)
  <2>1. SUFFICES ASSUME NEW d \in dependsOn', d[1] \in S PROVE d[2] \in S
    BY DEF Closed
  <2>2. d \in dependsOn
    BY <2>1
  <2>3. d[2] \in Visited(e[2]) /\ d[2] \notin nodes
    BY <1>5, <2>1, <2>2 DEF Closed, Linked
  <2>4. QED
    BY <2>3
<1>8. e[1] \in S
  <2>1. S \in SUBSET Entities
    BY <1>5
  <2> HIDE DEF S
  <2>2. QED
    BY <1>2, <1>6, <1>7, <2>1 DEF Visited, Closed
<1>9. QED
  BY <1>3, <1>4, <1>8 DEF NoActiveCycle

\* Writes that change no dependency keep active knowledge off its own dependencies.
LEMMA SameEdges ==
  ASSUME TypeOK, Linked, NoActiveCycle, NoneRevived, UNCHANGED dependsOn,
         \A i \in Entities : Exists(history, i) => Exists(history', i)
  PROVE  Linked' /\ NoActiveCycle'
<1>1. dependsOn \subseteq Entities \X Entities
  BY DEF TypeOK
<1>2. Linked'
  BY <1>1 DEF Linked
<1>3. ASSUME NEW e \in dependsOn, Active(history', e[1]) PROVE e[1] \notin Visited(e[2])'
  <2>1. Active(history, e[1])
    BY <1>1, <1>3 DEF Linked, NoneRevived
  <2>2. Visited(e[2])' = Visited(e[2])
    BY DEF Visited, Closed
  <2>3. QED
    BY <2>1, <2>2 DEF NoActiveCycle
<1>4. QED
  BY <1>2, <1>3 DEF NoActiveCycle

-----------------------------------------------------------------------------
\* The steps

\* A changeset keeps the invariant.
LEMMA ApplyStep ==
  ASSUME KnowledgeAssumption, GraphInv, NEW p \in Writers, NEW changes \in Changes,
         Apply(p, changes)
  PROVE  GraphInv' /\ PastIsFixed
<1> USE DEF GraphInv
<1> DEFINE named == [i \in Entities |-> Len(changes[i])]
           c == [base |-> knowledge, named |-> named, applied |-> TRUE]
<1>1. /\ history' \in [Entities -> Seq(Revisions)] /\ Grown /\ NoneRevived
      /\ named \in [Entities -> 0..MaxChanges]
      /\ \A i \in Entities : Len(history'[i]) = Len(history[i]) + named[i]
  BY ApplyGrows
<1>2. /\ knowledge \in 0..MaxKnowledge /\ MaxKnowledge \in Nat /\ knowledge < MaxKnowledge
      /\ MaxChanges \in Nat
      /\ knowledge' = knowledge + 1 /\ changesets' = Append(changesets, c)
      /\ UNCHANGED <<dependsOn, imported>> /\ seen' = [seen EXCEPT ![p] = None]
  BY DEF Apply, TypeOK, KnowledgeAssumption
<1>3. /\ c \in Changesets /\ c.base = knowledge /\ c.named = named
  BY <1>1, <1>2 DEF Changesets
<1>4. /\ changesets \in Seq(Changesets) /\ changesets' \in Seq(Changesets)
      /\ Len(changesets) \in Nat /\ Len(changesets') = Len(changesets) + 1
      /\ \A k \in 1..Len(changesets) : changesets'[k] = changesets[k]
      /\ changesets'[Len(changesets) + 1] = c
  <2> HIDE DEF c
  <2>1. changesets \in Seq(Changesets)
    BY DEF TypeOK
  <2>2. QED
    BY <1>2, <1>3, <2>1, AppendProperties
<1>5. TypeOK'
  BY <1>1, <1>2, <1>4 DEF TypeOK
<1>6. /\ Dated' /\ PastIsFixed
      /\ \A i \in Entities : Exists(history, i) => Exists(history', i)
      /\ \A d \in Changesets, i \in Entities :
           d.base < knowledge => AppliedBy(d, i)' = AppliedBy(d, i)
  BY <1>1, GrownDated, GrownPast
<1>7. WrittenOnce'
  <2>1. SUFFICES ASSUME NEW k \in 1..Len(changesets')
                 PROVE  /\ changesets'[k].base < knowledge'
                        /\ \A i \in Entities : changesets'[k].named[i] = 1 =>
                             \A n, m \in AppliedBy(changesets[k], i)' : n = m
    BY DEF WrittenOnce
  <2>2. CASE k \in 1..Len(changesets)
    <3>1. changesets'[k] = changesets[k] /\ changesets[k] \in Changesets
          /\ changesets[k].base < knowledge
      BY <1>4, <2>2 DEF WrittenOnce
    <3> DEFINE d == changesets[k]
    <3>2. \A i \in Entities : AppliedBy(changesets[k], i)' = AppliedBy(d, i)
      <4>1. \A i \in Entities : AppliedBy(changesets[k], i)'
              = {n \in DOMAIN history'[i] : history'[i][n].knowledge = d.base + 1}
        BY <3>1 DEF AppliedBy
      <4>2. \A i \in Entities : AppliedBy(d, i)
              = {n \in DOMAIN history'[i] : history'[i][n].knowledge = d.base + 1}
        BY <1>6, <3>1, <4>1 DEF AppliedBy
      <4>3. QED
        BY <4>1, <4>2
    <3>3. d.base < knowledge'
      BY <1>2, <3>1 DEF Changesets
    <3>4. \A i \in Entities : d.named[i] = 1 => \A n, m \in AppliedBy(d, i) : n = m
      BY <2>2 DEF WrittenOnce
    <3>5. changesets'[k].base < knowledge'
      BY <3>1, <3>3
    <3>6. \A i \in Entities : changesets'[k].named[i] = 1 =>
            \A n, m \in AppliedBy(changesets[k], i)' : n = m
      BY <3>1, <3>2, <3>4
    <3>7. QED
      BY <3>5, <3>6
  <2>3. CASE k = Len(changesets) + 1
    <3>1. changesets'[k] = c
      BY <1>4, <2>3
    <3>2. ASSUME NEW i \in Entities, named[i] = 1,
                 NEW n \in 1..Len(history'[i]), history'[i][n].knowledge = knowledge + 1
          PROVE  n = Len(history[i]) + 1
      <4>1. Len(history[i]) \in Nat /\ Len(history'[i]) = Len(history[i]) + 1
        <5>1. Len(history'[i]) = Len(history[i]) + named[i]
          BY <1>1
        <5>2. Len(history[i]) \in Nat
          BY DEF TypeOK
        <5> HIDE DEF named
        <5>3. QED
          BY <3>2, <5>1, <5>2
      <4>2. ASSUME n \in 1..Len(history[i]) PROVE FALSE
        <5>1. history[i][n] = history'[i][n] /\ history[i][n].knowledge <= knowledge
          BY <1>1, <4>2 DEF Grown, Dated
        <5>2. QED
          BY <1>2, <3>2, <5>1
      <4>3. QED
        BY <4>1, <4>2
    <3>3. \A i \in Entities : AppliedBy(changesets[k], i)'
            = {n \in 1..Len(history'[i]) : history'[i][n].knowledge = knowledge + 1}
      BY <1>1, <1>3, <3>1, Existing DEF AppliedBy
    <3> HIDE DEF c, named
    <3>4. QED
      BY <1>2, <1>3, <3>1, <3>2, <3>3
  <2>4. QED
    BY <1>4, <2>2, <2>3
<1>8. Linked' /\ NoActiveCycle'
  BY <1>1, <1>2, <1>6, SameEdges
<1>9. NoRetiredDependency'
  BY <1>2 DEF Apply, DependenciesHold, NoRetiredDependency
<1>10. QED
  BY <1>5, <1>6, <1>7, <1>8, <1>9

\* A rollback keeps the invariant, and no other changeset changes.
LEMMA RollbackStep ==
  ASSUME KnowledgeAssumption, GraphInv, NEW k \in DOMAIN changesets, Rollback(k)
  PROVE  /\ GraphInv' /\ PastIsFixed
         /\ Len(changesets') = Len(changesets)
         /\ \A j \in DOMAIN changesets : j # k => changesets'[j] = changesets[j]
<1> USE DEF GraphInv
<1>1. /\ history' \in [Entities -> Seq(Revisions)] /\ Grown /\ NoneRevived
  BY RollbackGrows
<1>2. /\ knowledge \in 0..MaxKnowledge /\ MaxKnowledge \in Nat /\ knowledge < MaxKnowledge
      /\ knowledge' = knowledge + 1 /\ changesets' = [changesets EXCEPT ![k].applied = FALSE]
      /\ UNCHANGED <<dependsOn, seen, imported>>
  BY DEF Rollback, TypeOK, KnowledgeAssumption
<1>3. /\ changesets \in Seq(Changesets) /\ Len(changesets) \in Nat
      /\ DOMAIN changesets = 1..Len(changesets)
      /\ \A j \in 1..Len(changesets) : changesets[j] \in Changesets
  BY DEF TypeOK
<1>4. /\ changesets' \in Seq(Changesets) /\ Len(changesets') = Len(changesets)
      /\ \A j \in 1..Len(changesets) :
           /\ changesets'[j] \in Changesets
           /\ changesets'[j].base = changesets[j].base /\ changesets'[j].named = changesets[j].named
           /\ j # k => changesets'[j] = changesets[j]
  <2> DEFINE d == [changesets[k] EXCEPT !.applied = FALSE]
  <2>1. d \in Changesets /\ d.base = changesets[k].base /\ d.named = changesets[k].named
    BY <1>3 DEF Changesets
  <2>2. changesets' = [changesets EXCEPT ![k] = d]
    BY <1>2
  <2> HIDE DEF d
  <2>3. changesets' \in Seq(Changesets) /\ Len(changesets') = Len(changesets)
    BY <1>3, <2>1, <2>2, ExceptSeq
  <2>4. QED
    BY <1>3, <2>1, <2>2, <2>3
<1>5. TypeOK'
  BY <1>1, <1>2, <1>4 DEF TypeOK
<1>6. /\ Dated' /\ PastIsFixed
      /\ \A i \in Entities : Exists(history, i) => Exists(history', i)
      /\ \A d \in Changesets, i \in Entities :
           d.base < knowledge => AppliedBy(d, i)' = AppliedBy(d, i)
  BY <1>1, GrownDated, GrownPast
<1>7. WrittenOnce'
  <2>1. SUFFICES ASSUME NEW j \in 1..Len(changesets)
                 PROVE  /\ changesets'[j].base < knowledge'
                        /\ \A i \in Entities : changesets'[j].named[i] = 1 =>
                             \A n, m \in AppliedBy(changesets[j], i)' : n = m
    BY <1>4 DEF WrittenOnce
  <2>2. changesets[j] \in Changesets /\ changesets[j].base < knowledge
    BY <1>3 DEF WrittenOnce
  <2> DEFINE d == changesets[j]
  <2>3. \A i \in Entities : AppliedBy(changesets[j], i)' = AppliedBy(d, i)
    <3>1. \A i \in Entities : AppliedBy(changesets[j], i)'
            = {n \in DOMAIN history'[i] : history'[i][n].knowledge = d.base + 1}
      BY <1>4 DEF AppliedBy
    <3>2. \A i \in Entities : AppliedBy(d, i)
            = {n \in DOMAIN history'[i] : history'[i][n].knowledge = d.base + 1}
      BY <1>6, <2>2, <3>1 DEF AppliedBy
    <3>3. QED
      BY <3>1, <3>2
  <2>4. d.base < knowledge'
    BY <1>2, <2>2 DEF Changesets
  <2>5. QED
    BY <1>4, <2>3, <2>4 DEF WrittenOnce
<1>8. Linked' /\ NoActiveCycle'
  BY <1>1, <1>2, <1>6, SameEdges
<1>9. NoRetiredDependency'
  BY <1>2 DEF Rollback, DependenciesHold, NoRetiredDependency
<1>10. QED
  BY <1>3, <1>4, <1>5, <1>6, <1>7, <1>8, <1>9

\* A rollback brings back what was there before its changeset.
LEMMA RollbackBringsBack ==
  ASSUME KnowledgeAssumption, GraphInv, NEW k \in DOMAIN changesets, Rollback(k),
         NEW i \in Named(changesets[k])
  PROVE  LET before == EntitiesAt(history, changesets[k].base)
             now == EntitiesAt(history', knowledge')
         IN  IF before[i] # None THEN now[i] = before[i] ELSE ~now[i].active
<1> USE DEF GraphInv
<1> DEFINE c == changesets[k]
           L == Len(history[i])
           upTo == {n \in DOMAIN history[i] : history[i][n].knowledge <= c.base}
           upToNow == {n \in DOMAIN history'[i] : history'[i][n].knowledge <= knowledge'}
           r == [Restored(i) EXCEPT !.knowledge = knowledge + 1]
<1>1. /\ i \in Entities /\ c \in Changesets /\ c.base \in Nat
      /\ L \in Nat /\ DOMAIN history[i] = 1..L /\ L > 0 /\ L \in AppliedBy(c, i)
      /\ Restored(i) \in Revisions /\ history'[i] = Append(history[i], r)
      /\ history' \in [Entities -> Seq(Revisions)] /\ Grown
      /\ \A n \in 1..L : history[i][n] \in Revisions
  <2>1. i \in Entities /\ c \in Changesets
    BY DEF Named, TypeOK
  <2>2. /\ L > 0 /\ L \in AppliedBy(c, i)
        /\ Restored(i) \in Revisions /\ history'[i] = Append(history[i], r)
        /\ history' \in [Entities -> Seq(Revisions)] /\ Grown
    BY RollbackGrows
  <2>3. /\ L \in Nat /\ DOMAIN history[i] = 1..L /\ \A n \in 1..L : history[i][n] \in Revisions
    BY <2>1, Existing DEF TypeOK
  <2>4. c.base \in Nat
    BY <2>1 DEF Changesets, KnowledgeAssumption
  <2> HIDE DEF c, L, r
  <2>5. QED
    BY <2>1, <2>2, <2>3, <2>4
<1>2. c.named[i] = 1 /\ c.base < knowledge
  BY DEF Rollback, NamedOnce, WrittenOnce, TypeOK
<1>3. \A n, m \in AppliedBy(c, i) : n = m
  <2>1. k \in 1..Len(changesets)
    BY DEF TypeOK
  <2>2. \A j \in Entities : c.named[j] = 1 => \A n, m \in AppliedBy(c, j) : n = m
    BY <2>1 DEF WrittenOnce
  <2>3. QED
    BY <1>1, <1>2, <2>2
<1>4. upTo = 1..(L - 1)
  <2>1. history[i][L].knowledge = c.base + 1
    BY <1>1 DEF AppliedBy
  <2>2. ASSUME NEW n \in 1..L, n # L PROVE history[i][n].knowledge <= c.base
    <3>1. history[i][n].knowledge <= c.base + 1 /\ history[i][n].knowledge \in Int
      <4>1. L \in 1..Len(history[i]) /\ n \in 1..L
        BY <1>1, <2>2
      <4>2. history[i][n].knowledge <= history[i][L].knowledge
        BY <1>1, <4>1 DEF Dated
      <4>3. history[i][n] \in Revisions
        BY <1>1, <2>2
      <4>4. history[i][n].knowledge \in Int
        BY <4>3 DEF Revisions, KnowledgeAssumption
      <4>5. QED
        BY <2>1, <4>2, <4>4
    <3>2. n \notin AppliedBy(c, i)
      BY <1>1, <1>3, <2>2
    <3>3. history[i][n].knowledge # c.base + 1
      BY <1>1, <3>2 DEF AppliedBy
    <3>4. QED
      BY <1>1, <3>1, <3>3
  <2>3. \A n \in 1..L : n \in upTo <=> n # L
    BY <1>1, <2>1, <2>2
  <2>4. upTo \subseteq 1..L /\ L \in Nat /\ L > 0
    BY <1>1
  <2> HIDE DEF upTo, L
  <2>5. \A n \in 1..(L - 1) : n \in 1..L /\ n # L
    BY <2>4
  <2>6. \A n \in 1..L : n # L => n \in 1..(L - 1)
    BY <2>4
  <2>7. QED
    BY <2>3, <2>4, <2>5, <2>6
<1>5. /\ Len(history'[i]) = L + 1 /\ DOMAIN history'[i] = 1..(L + 1) /\ history'[i][L + 1] = r
      /\ r.active = Restored(i).active /\ r.payload = Restored(i).payload
  <2>1. r \in Revisions /\ r.active = Restored(i).active /\ r.payload = Restored(i).payload
    <3>1. knowledge + 1 \in 1..MaxKnowledge
      BY DEF TypeOK, KnowledgeAssumption, Rollback
    <3>2. Restored(i) \in Revisions
      BY <1>1
    <3>3. QED
      BY <3>1, <3>2 DEF Revisions
  <2>2. history[i] \in Seq(Revisions)
    BY <1>1 DEF TypeOK
  <2> HIDE DEF r
  <2>3. history'[i] \in Seq(Revisions) /\ Len(history'[i]) = L + 1 /\ history'[i][L + 1] = r
    BY <1>1, <2>1, <2>2, Appended
  <2>4. QED
    BY <2>1, <2>3
<1>6. upToNow = 1..(L + 1)
  <2>1. Dated'
    BY <1>1, GrownDated
  <2>2. QED
    BY <1>1, <1>5, <2>1 DEF Dated
<1>7. Cardinality(upTo) = L - 1 /\ Cardinality(upToNow) = L + 1
  <2>0. L \in Nat /\ L > 0
    BY <1>1
  <2> HIDE DEF upTo, upToNow, L
  <2>1. Cardinality(1..(L - 1)) = L - 1 /\ Cardinality(1..(L + 1)) = L + 1
    <3>1. L - 1 \in Int /\ L + 1 \in Int /\ 1 \in Int /\ ~(1 > L + 1) /\ (1 > L - 1 => L - 1 = 0)
          /\ (L - 1) - 1 + 1 = L - 1 /\ (L + 1) - 1 + 1 = L + 1
      BY <2>0
    <3>2. QED
      BY <3>1, FS_Interval
  <2>2. QED
    BY <1>4, <1>6, <2>1
<1>8. EntitiesAt(history', knowledge')[i] = [active |-> r.active, payload |-> r.payload]
  <2>1. upToNow # {}
    BY <1>1, <1>6
  <2>2. EntitiesAt(history', knowledge')[i]
          = LET s == history'[i][L + 1] IN [active |-> s.active, payload |-> s.payload]
    BY <1>1, <1>7, <2>1 DEF EntitiesAt
  <2>3. QED
    BY <1>5, <2>2
<1>9. CASE L = 1
  <2>1. upTo = {}
    BY <1>4, <1>9
  <2>2. EntitiesAt(history, c.base)[i] = None
    BY <1>1, <2>1 DEF EntitiesAt
  <2>3. Restored(i) = [Current(history, i) EXCEPT !.active = FALSE]
    BY <1>9 DEF Restored
  <2>4. Current(history, i) \in Revisions
    BY <1>1 DEF Current
  <2>5. r.active = FALSE
    BY <1>5, <2>3, <2>4 DEF Revisions
  <2>6. QED
    BY <1>8, <2>2, <2>5
<1>10. CASE L # 1
  <2>0. L - 1 \in 1..L /\ L > 1 /\ L - 1 \in 1..(L - 1)
    <3>1. L \in Nat /\ L > 0 /\ L # 1
      BY <1>1, <1>10
    <3> HIDE DEF L
    <3>2. QED
      BY <3>1
  <2>1. upTo # {}
    BY <1>4, <2>0
  <2>2. EntitiesAt(history, c.base)[i]
          = LET s == history[i][L - 1] IN [active |-> s.active, payload |-> s.payload]
    BY <1>1, <1>7, <2>1 DEF EntitiesAt
  <2>3. Restored(i) = history[i][L - 1]
    BY <2>0 DEF Restored
  <2>4. EntitiesAt(history, c.base)[i] = EntitiesAt(history', knowledge')[i]
    BY <1>5, <1>8, <2>2, <2>3
  <2>5. EntitiesAt(history, c.base)[i] # None
    <3>1. history[i][L - 1] \in Revisions
      BY <1>1, <2>0
    <3>2. QED
      BY <2>2, <3>1 DEF KnowledgeAssumption, Revisions
  <2>6. QED
    BY <2>4, <2>5
<1>11. QED
  BY <1>9, <1>10

\* The other writers keep the invariant.
LEMMA OtherSteps ==
  ASSUME KnowledgeAssumption, GraphInv,
         \/ \E a, b \in Entities : Link(a, b)
         \/ \E nodes \in SUBSET Entities :
              \E edges \in SUBSET (nodes \X nodes) : Import(nodes, edges)
         \/ \E i \in Code, present \in BOOLEAN : Index(i, present)
  PROVE  GraphInv' /\ PastIsFixed /\ UNCHANGED changesets
<1> USE DEF GraphInv
<1>1. /\ history \in [Entities -> Seq(Revisions)] /\ knowledge \in 0..MaxKnowledge
      /\ MaxKnowledge \in Nat /\ dependsOn \subseteq Entities \X Entities
  BY DEF TypeOK, KnowledgeAssumption
<1>2. ASSUME history' \in [Entities -> Seq(Revisions)], Grown, knowledge < MaxKnowledge,
             UNCHANGED changesets, dependsOn' \subseteq Entities \X Entities,
             seen' = seen, imported' \in BOOLEAN
      PROVE  TypeOK' /\ Dated' /\ WrittenOnce' /\ PastIsFixed
  <2>1. /\ Dated' /\ PastIsFixed
        /\ \A d \in Changesets, i \in Entities :
             d.base < knowledge => AppliedBy(d, i)' = AppliedBy(d, i)
    BY <1>2, GrownDated, GrownPast
  <2>2. TypeOK'
    BY <1>1, <1>2 DEF TypeOK, Grown
  <2>3. WrittenOnce'
    <3>1. SUFFICES ASSUME NEW j \in 1..Len(changesets)
                   PROVE  /\ changesets[j].base < knowledge'
                          /\ \A i \in Entities : changesets[j].named[i] = 1 =>
                               \A n, m \in AppliedBy(changesets[j], i)' : n = m
      BY <1>2 DEF WrittenOnce
    <3>2. changesets[j] \in Changesets /\ changesets[j].base < knowledge
      BY DEF WrittenOnce, TypeOK
    <3> DEFINE d == changesets[j]
    <3>3. \A i \in Entities : AppliedBy(changesets[j], i)' = AppliedBy(d, i)
      <4>1. \A i \in Entities : AppliedBy(changesets[j], i)'
              = {n \in DOMAIN history'[i] : history'[i][n].knowledge = d.base + 1}
        BY <1>2 DEF AppliedBy
      <4>2. \A i \in Entities : AppliedBy(d, i)
              = {n \in DOMAIN history'[i] : history'[i][n].knowledge = d.base + 1}
        BY <2>1, <3>2, <4>1 DEF AppliedBy
      <4>3. QED
        BY <4>1, <4>2
    <3>4. d.base < knowledge'
      BY <1>1, <1>2, <3>2 DEF Changesets, Grown
    <3>5. \A i \in Entities : d.named[i] = 1 => \A n, m \in AppliedBy(d, i) : n = m
      BY DEF WrittenOnce
    <3>6. QED
      BY <3>3, <3>4, <3>5
  <2>4. QED
    BY <2>1, <2>2, <2>3
<1>3. ASSUME NEW a \in Entities, NEW b \in Entities, Link(a, b)
      PROVE  GraphInv' /\ PastIsFixed /\ UNCHANGED changesets
  <2>1. Grown
    BY <1>1, <1>3 DEF Link, Grown
  <2>2. TypeOK' /\ Dated' /\ WrittenOnce' /\ PastIsFixed
    BY <1>1, <1>2, <1>3, <2>1 DEF Link, TypeOK
  <2>3. NoActiveCycle'
    BY <1>3, LinkNoCycle DEF Link
  <2>4. Linked' /\ NoRetiredDependency'
    BY <1>3 DEF Link, Linked, NoRetiredDependency
  <2>5. QED
    BY <1>3, <2>2, <2>3, <2>4 DEF Link
<1>4. ASSUME NEW nodes \in SUBSET Entities, NEW edges \in SUBSET (nodes \X nodes),
             Import(nodes, edges)
      PROVE  GraphInv' /\ PastIsFixed /\ UNCHANGED changesets
  <2>1. /\ history' \in [Entities -> Seq(Revisions)] /\ Grown
        /\ \A i \in nodes : ~Exists(history, i) /\ Exists(history', i) /\ ~Active(history', i)
        /\ \A i \in Entities \ nodes : history'[i] = history[i]
    BY <1>4, ImportGrows
  <2>2. TypeOK' /\ Dated' /\ WrittenOnce' /\ PastIsFixed
    BY <1>1, <1>2, <1>4, <2>1 DEF Import
  <2>3. NoActiveCycle'
    BY <1>4, <2>1, ImportNoCycle DEF Import
  <2>4. ASSUME NEW e \in dependsOn'
        PROVE  /\ Exists(history', e[1]) /\ Exists(history', e[2])
               /\ Active(history', e[1]) => Active(history', e[2]) \/ e[2] \in Code
    <3>1. CASE e \in dependsOn
      <4>1. /\ e[1] \in Entities \ nodes /\ e[2] \in Entities \ nodes
            /\ Exists(history, e[1]) /\ Exists(history, e[2])
            /\ Active(history, e[1]) => Active(history, e[2]) \/ e[2] \in Code
        BY <1>1, <2>1, <3>1 DEF Linked, NoRetiredDependency
      <4>2. QED
        BY <2>1, <4>1 DEF Exists, Active, Current
    <3>2. CASE e \in edges
      BY <2>1, <3>2
    <3>3. QED
      BY <1>4, <3>1, <3>2 DEF Import
  <2>5. Linked' /\ NoRetiredDependency'
    BY <2>4 DEF Linked, NoRetiredDependency
  <2>6. QED
    BY <1>4, <2>2, <2>3, <2>5 DEF Import
<1>5. ASSUME NEW i \in Code, NEW present \in BOOLEAN, Index(i, present)
      PROVE  GraphInv' /\ PastIsFixed /\ UNCHANGED changesets
  <2>1. /\ history' \in [Entities -> Seq(Revisions)] /\ Grown /\ NoneRevived
        /\ \A j \in Entities \ {i} : history'[j] = history[j]
    BY <1>5, IndexGrows
  <2>2. TypeOK' /\ Dated' /\ WrittenOnce' /\ PastIsFixed
    BY <1>1, <1>2, <1>5, <2>1 DEF Index, TypeOK
  <2>3. Linked' /\ NoActiveCycle'
    BY <1>5, <2>1, GrownDated, SameEdges DEF Index
  <2>4. NoRetiredDependency'
    <3>1. SUFFICES ASSUME NEW e \in dependsOn, Active(history', e[1])
                   PROVE  Active(history', e[2]) \/ e[2] \in Code
      BY <1>5 DEF Index, NoRetiredDependency
    <3>2. Active(history, e[1])
      BY <1>1, <2>1, <3>1 DEF Linked, NoneRevived
    <3>3. Active(history, e[2]) \/ e[2] \in Code
      BY <3>2 DEF NoRetiredDependency
    <3>4. QED
      BY <1>1, <2>1, <3>3 DEF Active, Exists, Current
  <2>5. QED
    BY <1>5, <2>2, <2>3, <2>4 DEF Index
<1>6. QED
  BY <1>3, <1>4, <1>5

\* Nothing is known yet.
LEMMA GraphStart == KnowledgeAssumption /\ Init => GraphInv
<1> SUFFICES ASSUME KnowledgeAssumption, Init PROVE GraphInv
  OBVIOUS
<1>1. \A i \in Entities : history[i] = << >> /\ Len(history[i]) = 0 /\ << >> \in Seq(Revisions)
  BY DEF Init
<1>2. TypeOK
  <2>1. history \in [Entities -> Seq(Revisions)]
    <3>1. history = [i \in Entities |-> << >>]
      BY DEF Init
    <3>2. << >> \in Seq(Revisions)
      BY EmptySeq
    <3>3. QED
      BY <3>1, <3>2
  <2>2. changesets \in Seq(Changesets)
    BY EmptySeq DEF Init
  <2>3. knowledge \in 0..MaxKnowledge
    BY DEF Init, KnowledgeAssumption
  <2>4. seen \in [Writers -> 0..MaxKnowledge \cup {None}]
    BY DEF Init
  <2>5. dependsOn \subseteq Entities \X Entities /\ imported \in BOOLEAN
    BY DEF Init
  <2>6. QED
    BY <2>1, <2>2, <2>3, <2>4, <2>5 DEF TypeOK
<1>3. Dated /\ WrittenOnce
  BY <1>1 DEF Init, Dated, WrittenOnce
<1>4. Linked /\ NoRetiredDependency /\ NoActiveCycle
  BY DEF Init, Linked, NoRetiredDependency, NoActiveCycle
<1>5. QED
  BY <1>2, <1>3, <1>4 DEF GraphInv

\* Every step keeps the invariant and the past.
LEMMA GraphStep ==
  ASSUME KnowledgeAssumption, GraphInv, [Next]_vars
  PROVE  GraphInv' /\ PastIsFixed /\ RollbackRestores
<1>1. ASSUME UNCHANGED <<history, dependsOn, changesets, knowledge, imported>>, TypeOK'
      PROVE  GraphInv' /\ PastIsFixed /\ RollbackRestores
  <2>1. \A c : \A i \in Entities : AppliedBy(c, i)' = AppliedBy(c', i)
    BY <1>1 DEF AppliedBy
  <2>2. \A i : Visited(i)' = Visited(i)
    BY <1>1 DEF Visited, Closed
  <2>3. Dated' /\ WrittenOnce' /\ Linked' /\ NoRetiredDependency'
    BY <1>1, <2>1 DEF GraphInv, Dated, WrittenOnce, Linked, NoRetiredDependency, AppliedBy
  <2>4. NoActiveCycle'
    BY <1>1, <2>2 DEF GraphInv, NoActiveCycle
  <2>5. PastIsFixed /\ RollbackRestores
    BY <1>1 DEF PastIsFixed, RollbackRestores
  <2>6. QED
    BY <1>1, <2>3, <2>4, <2>5 DEF GraphInv
<1>2. ASSUME UNCHANGED changesets PROVE RollbackRestores
  BY <1>2 DEF RollbackRestores
<1>3. CASE UNCHANGED vars
  BY <1>1, <1>3 DEF vars, GraphInv, TypeOK
<1>4. ASSUME NEW p \in Writers, Read(p) \/ Refuse(p)
      PROVE  GraphInv' /\ PastIsFixed /\ RollbackRestores
  BY <1>1, <1>4 DEF Read, Refuse, GraphInv, TypeOK
<1>5. ASSUME NEW p \in Writers, NEW changes \in Changes, Apply(p, changes)
      PROVE  GraphInv' /\ PastIsFixed /\ RollbackRestores
  <2>1. GraphInv' /\ PastIsFixed
    BY <1>5, ApplyStep
  <2>2. \A k \in DOMAIN changesets : changesets'[k] = changesets[k]
    <3> DEFINE c == [base |-> knowledge, named |-> [i \in Entities |-> Len(changes[i])],
                     applied |-> TRUE]
    <3>1. changesets \in Seq(Changesets) /\ changesets' = Append(changesets, c)
      BY <1>5 DEF Apply, GraphInv, TypeOK
    <3>2. c \in Changesets
      <4>1. [i \in Entities |-> Len(changes[i])] \in [Entities -> 0..MaxChanges]
        BY <1>5, ApplyGrows DEF GraphInv
      <4>2. QED
        BY <4>1 DEF Changesets, GraphInv, TypeOK
    <3> HIDE DEF c
    <3>3. QED
      BY <3>1, <3>2, AppendProperties
  <2>3. RollbackRestores
    BY <2>2 DEF RollbackRestores
  <2>4. QED
    BY <2>1, <2>3
<1>6. ASSUME NEW k \in DOMAIN changesets, Rollback(k)
      PROVE  GraphInv' /\ PastIsFixed /\ RollbackRestores
  <2>1. /\ GraphInv' /\ PastIsFixed
        /\ \A j \in DOMAIN changesets : j # k => changesets'[j] = changesets[j]
    BY <1>6, RollbackStep
  <2>2. RollbackRestores
    <3>1. SUFFICES ASSUME NEW j \in DOMAIN changesets,
                          changesets[j].applied /\ ~changesets'[j].applied,
                          NEW i \in Named(changesets[j])
                   PROVE  LET before == EntitiesAt(history, changesets[j].base)
                              now == EntitiesAt(history', knowledge')
                          IN  IF before[i] # None THEN now[i] = before[i] ELSE ~now[i].active
      BY DEF RollbackRestores
    <3>2. j = k
      BY <2>1, <3>1
    <3>3. QED
      BY <1>6, <3>1, <3>2, RollbackBringsBack
  <2>3. QED
    BY <2>1, <2>2
<1>7. ASSUME \/ \E a, b \in Entities : Link(a, b)
             \/ \E nodes \in (SUBSET (Entities \ Code)) \ {{}} :
                  \E edges \in SUBSET {e \in nodes \X nodes : e[1] # e[2]} : Import(nodes, edges)
             \/ \E i \in Code, present \in BOOLEAN : Index(i, present)
      PROVE  GraphInv' /\ PastIsFixed /\ RollbackRestores
  <2>1. \/ \E a, b \in Entities : Link(a, b)
        \/ \E nodes \in SUBSET Entities : \E edges \in SUBSET (nodes \X nodes) : Import(nodes, edges)
        \/ \E i \in Code, present \in BOOLEAN : Index(i, present)
    BY <1>7
  <2>2. GraphInv' /\ PastIsFixed /\ UNCHANGED changesets
    BY <2>1, OtherSteps
  <2>3. QED
    BY <1>2, <2>2
<1>8. QED
  BY <1>3, <1>4, <1>5, <1>6, <1>7 DEF Next

-----------------------------------------------------------------------------
\* The theorems

\* In whatever order changesets, rollbacks, links, imports and indexing come, the graph keeps
\* its invariant.
THEOREM GraphInvariant ==
  ASSUME KnowledgeAssumption
  PROVE  Spec => []GraphInv
<1>1. GraphInv /\ [Next]_vars => GraphInv'
  BY GraphStep
<1>2. QED
  BY GraphStart, <1>1, PTL DEF Spec

\* Current entities depend, without cycles, on current entities (control/knowledge.py, apply
\* and link).
THEOREM GraphKeepsDependencies ==
  ASSUME KnowledgeAssumption
  PROVE  Spec => []DependenciesSound
<1>1. GraphInv => DependenciesSound
  BY DEF GraphInv, DependenciesSound
<1>2. QED
  BY <1>1, GraphInvariant, PTL

\* What was true at a knowledge version stays what it was, and a rollback brings it back or
\* retires what was not there (control/knowledge.py, rollback; control/store.py, entities_at).
THEOREM GraphKeepsPast ==
  ASSUME KnowledgeAssumption
  PROVE  Spec => PastKept
<1>1. GraphInv /\ [Next]_vars => [PastIsFixed /\ RollbackRestores]_vars
  BY GraphStep
<1>2. Spec => [][PastIsFixed /\ RollbackRestores]_vars
  BY <1>1, GraphInvariant, PTL DEF Spec
<1>3. QED
  BY <1>2 DEF PastKept

=============================================================================
