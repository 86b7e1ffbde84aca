------------------------- MODULE Integration_proofs -------------------------
(***************************************************************************)
(* Proofs about Integration: that a merge on record is of what the gate    *)
(* was passed on, and that a task completes only on what the primary       *)
(* repository holds.                                                       *)
(*                                                                         *)
(* Contents come and go, so nothing measured stays true.  What the calls   *)
(* measured is true as long as the tree of the task is as it was, which a  *)
(* call remembers in `still`; what they read of the task is true as long   *)
(* as its record is as it was, which the versions in the code tell, or as  *)
(* long as the write lock is held.  The invariant says what is known of    *)
(* tree and record at each step of a call.                                 *)
(***************************************************************************)
EXTENDS Integration, FunctionTheorems, FiniteSetTheorems, SequenceTheorems, TLAPS

-----------------------------------------------------------------------------
\* The inductive invariant

Records == DOMAIN task = Tasks /\ DOMAIN call = Tasks

WorkFound(t) == WorkRoot(t) \in {"primary", "worktree"}

WorkBinding(t) == BindingIn(t, WorkTree(t))

GatedOn(t) == task[t].integration # None /\ task[t].integration.binding = WorkBinding(t)

\* The call of t is at one of these places and the tree of t as it measured it,
Still(t, places) == call[t] # None /\ call[t].at \in places /\ call[t].still

\* and there.
StillAt(t, places) == Still(t, places) /\ WorkFound(t)

\* What a call knows of the tree and the record of its task.
Measured(t) ==
  /\ StillAt(t, {"gated"}) => call[t].binding = WorkBinding(t)
  /\ StillAt(t, {"recorded", "merged"}) /\ task[t].integration # None => GatedOn(t)
  /\ At(t, "matched") /\ call[t].same => task[t].integration # None
  /\ StillAt(t, {"matched"}) /\ call[t].same => GatedOn(t)
  /\ Still(t, {"proven", "compared", "bound"}) => WorkFound(t) /\ task[t].proof = WorkBinding(t)
  /\ StillAt(t, {"bound"}) => GatedOn(t)

\* What exists together.
Together(t) ==
  /\ call[t] # None => workspace[t] # None /\ task[t].state # "COMPLETED"
  /\ workspace[t] = None => task[t].state = "READY" /\ worktree[t] = None
  /\ workspace[t] # None => branch[t] # None
  /\ workspace[t] # None /\ workspace[t].removed => worktree[t] = None
  /\ KeepingAt(t, "removed") => worktree[t] = None
  /\ upkeep[t] # None => workspace[t] # None

IInv == TypeOK /\ Records /\ \A t \in Tasks : Measured(t) /\ Together(t)

-----------------------------------------------------------------------------
\* Commits
\* A set of naturals has a least element.
LEMMA LeastNatural ==
  ASSUME NEW T \in SUBSET Nat, T # {}
  PROVE  \E x \in T : \A y \in T : x <= y
<1> DEFINE R == StrictSubsetOrdering(Nat)
           S == FiniteSubsetsOf(Nat)
           U == {0..n : n \in T}
<1>1. IsWellFoundedOn(R, S)
  BY FS_StrictSubsetOrderingWellFounded
<1>2. U \subseteq S
  <2>1. ASSUME NEW n \in T PROVE IsFiniteSet(0..n)
    BY FS_Interval
  <2>2. QED BY <2>1 DEF FiniteSubsetsOf
<1>3. U # {}
  OBVIOUS
<1>4. \E x \in U : \A y \in U : ~(<<y, x>> \in R)
  <2> HIDE DEF R, S, U
  <2> QED BY <1>1, <1>2, <1>3, WFMin
<1>5. PICK x \in T : \A y \in T : ~(<<0..y, 0..x>> \in R)
  BY <1>4
<1>6. ASSUME NEW y \in T, y < x
      PROVE  <<0..y, 0..x>> \in R
  BY <1>6 DEF StrictSubsetOrdering
<1>7. \A y \in T : x <= y
  <2> TAKE y \in T
  <2>1. ~(y < x)
    BY <1>5, <1>6
  <2>2. x \in Nat /\ y \in Nat
    OBVIOUS
  <2>3. QED
    BY <2>1, <2>2
<1>8. QED
  BY <1>7
\* A commit is cut in two at any place.
LEMMA CommitCut ==
  ASSUME NEW c \in Commits, NEW k \in 0..Len(c)
  PROVE  /\ SubSeq(c, 1, k) \in Commits /\ SubSeq(c, k + 1, Len(c)) \in Commits
         /\ c = SubSeq(c, 1, k) \o SubSeq(c, k + 1, Len(c))
<1>1. Len(c) \in Nat
  BY LenProperties DEF Commits
<1>2. SubSeq(c, 1, k) \in Commits /\ SubSeq(c, k + 1, Len(c)) \in Commits
  BY <1>1, SubSeqProperties, ElementOfSeq DEF Commits
<1>3. SubSeq(c, 1, k) \o SubSeq(c, k + 1, Len(c)) = SubSeq(c, 1, Len(c))
  <2>1. 1 \in 1..Len(c) + 1 /\ k \in 1 - 1..Len(c) /\ Len(c) \in k..Len(c)
    BY <1>1
  <2>2. c \in Seq(Writes)
    BY DEF Commits
  <2>3. QED
    BY <2>1, <2>2, ConcatAdjacentSubSeq
<1>4. QED
  BY <1>2, <1>3, SubSeqFull DEF Commits

\* Two commits have a common history, and it is what Since leaves out.
LEMMA Parted ==
  ASSUME NEW c \in Commits, NEW d \in Commits
  PROVE  LET k == Len(LongestCommonPrefix({c, d}))
         IN  k \in 0..Len(c) /\ k \in 0..Len(d) /\ SubSeq(c, 1, k) = SubSeq(d, 1, k)
<1> DEFINE P == CommonPrefixes({c, d})
           lengths == {Len(c) - Len(p) : p \in P}
           longest == LongestCommonPrefix({c, d})
<1>1. Len(c) \in Nat /\ Len(d) \in Nat
  BY LenProperties DEF Commits
<1>2. ASSUME NEW p \in P
      PROVE  /\ Len(p) \in 0..Len(c) /\ Len(p) \in 0..Len(d)
             /\ SubSeq(c, 1, Len(p)) = SubSeq(d, 1, Len(p))
  <2>1. IsPrefix(p, c) /\ IsPrefix(p, d)
    BY <1>2 DEF CommonPrefixes
  <2>2. PICK e \in {c, d} : p \in Prefixes(e)
    BY <1>2 DEF CommonPrefixes
  <2>3. PICK k \in 0..Len(e) : p = SubSeq(e, 1, k)
    BY <2>2 DEF Prefixes
  <2>4. e \in Commits /\ k \in Nat
    BY <2>2, <2>3, <1>1
  <2>5. Len(p) \in Nat
    BY <2>3, <2>4, CommitCut, LenProperties DEF Commits
  <2>6. QED
    BY <1>1, <2>1, <2>5 DEF IsPrefix
<1>3. << >> \in P
  <2>1. << >> = SubSeq(c, 1, 0) /\ << >> = SubSeq(d, 1, 0)
    BY SubSeqEmpty DEF Commits
  <2>2. << >> \in Prefixes(c)
    BY <1>1, <2>1 DEF Prefixes
  <2>3. IsPrefix(<< >>, c) /\ IsPrefix(<< >>, d)
    BY <1>1, <2>1, Len(<< >>) = 0, SubSeq(<< >>, 1, 0) = << >> DEF IsPrefix
  <2>4. QED
    BY <2>2, <2>3 DEF CommonPrefixes
<1>4. lengths \in SUBSET Nat /\ lengths # {}
  <2>1. ASSUME NEW p \in P PROVE Len(c) - Len(p) \in Nat
    BY <1>1, <1>2
  <2> HIDE DEF P
  <2>2. QED
    BY <1>3, <2>1
<1>5. \E p \in P : \A q \in P : Len(q) <= Len(p)
  <2>1. PICK x \in lengths : \A y \in lengths : x <= y
    <3> HIDE DEF lengths
    <3> QED
      BY <1>4, LeastNatural
  <2>2. PICK p \in P : x = Len(c) - Len(p)
    OBVIOUS
  <2>3. ASSUME NEW q \in P PROVE Len(q) <= Len(p)
    <3>1. Len(c) - Len(p) <= Len(c) - Len(q)
      BY <2>1, <2>2
    <3>2. QED
      BY <1>1, <1>2, <3>1
  <2>4. QED
    BY <2>3
<1>6. longest \in P
  BY <1>5 DEF LongestCommonPrefix
<1>7. QED
  BY <1>2, <1>6

-----------------------------------------------------------------------------
\* Trees

\* The files at a commit are a tree.
LEMMA TreeTypes ==
  ASSUME IntegrationAssumption, NEW c \in Commits
  PROVE  TreeOf(c) \in Trees
<1>1. c \in Seq(Writes) /\ Len(c) \in Nat /\ DOMAIN c = 1..Len(c)
  BY LenProperties DEF Commits
<1>2. ASSUME NEW f \in TreeFiles, \E n \in DOMAIN c : c[n].file = f
      PROVE  LastWrite(f, c) \in DOMAIN c
  <2> DEFINE from == {Len(c) - n : n \in {m \in 1..Len(c) : c[m].file = f}}
  <2>1. from \in SUBSET Nat /\ from # {}
    BY <1>1, <1>2
  <2>2. PICK x \in from : \A y \in from : x <= y
    <3> HIDE DEF from
    <3> QED
      BY <2>1, LeastNatural
  <2>3. PICK n \in 1..Len(c) : c[n].file = f /\ x = Len(c) - n
    OBVIOUS
  <2>4. ASSUME NEW m \in n + 1..Len(c) PROVE c[m].file # f
    <3>1. m \in 1..Len(c) /\ Len(c) - m < x
      BY <1>1, <2>3
    <3>2. CASE c[m].file = f
      <4>1. Len(c) - m \in from
        BY <3>1, <3>2
      <4> HIDE DEF from
      <4>2. x <= Len(c) - m /\ x \in Nat
        BY <2>1, <2>2, <4>1
      <4>3. QED
        BY <1>1, <3>1, <4>2
    <3>3. QED
      BY <3>2
  <2>5. \E k \in DOMAIN c : c[k].file = f /\ \A m \in k + 1..Len(c) : c[m].file # f
    BY <1>1, <2>3, <2>4
  <2>6. QED
    BY <2>5 DEF LastWrite
<1>3. \A n \in DOMAIN c : c[n].data \in Contents
  <2>1. \A n \in 1..Len(c) : c[n] \in Writes
    BY <1>1, ElementOfSeq
  <2>2. QED
    BY <1>1, <2>1 DEF Writes
<1>4. QED
  BY <1>2, <1>3 DEF TreeOf, Trees, IntegrationAssumption

\* What is not None is a record, and the trees that exist are trees.
LEMMA Exist ==
  ASSUME IntegrationAssumption, TypeOK, Records, NEW t \in Tasks
  PROVE  /\ primary \in Commits /\ checkout \in Trees /\ checkout # None
         /\ branch[t] \in Commits \cup {None} /\ worktree[t] \in Trees \cup {None}
         /\ workspace[t] \in Workspaces \cup {None} /\ task[t] \in TaskRecords(t)
         /\ call[t] \in Calls(t) \cup {None} /\ upkeep[t] \in Upkeeps \cup {None}
         /\ task[t].integration \in Integrations(t) \cup {None} /\ task[t].state \in States
BY DEF TypeOK, IntegrationAssumption, TaskRecords

FoundIsTree(t) == WorkFound(t) <=> WorkTree(t) # None

FoundAreTrees == \A t \in Tasks : Together(t) => FoundIsTree(t)

\* A task whose tree is not found stands for none.
LEMMA NotFound ==
  ASSUME IntegrationAssumption, TypeOK, Records, NEW t \in Tasks, Together(t)
  PROVE  /\ WorkFound(t) => WorkTree(t) \in Trees
         /\ FoundIsTree(t)
<1>1. checkout \in Trees /\ checkout # None /\ worktree[t] \in Trees \cup {None}
  BY Exist
<1>2. WorkRoot(t) = "raises" => worktree[t] = None
  BY DEF WorkRoot, Together
<1>3. WorkRoot(t) = "lost" => worktree[t] = None
  BY DEF WorkRoot
<1>4. WorkRoot(t) = "worktree" => worktree[t] # None
  BY DEF WorkRoot
<1>5. WorkRoot(t) \in {"primary", "raises", "worktree", "lost"}
  BY DEF WorkRoot
<1>6. QED
  BY <1>1, <1>2, <1>3, <1>4, <1>5 DEF WorkFound, WorkTree, FoundIsTree

LEMMA FoundTrees ==
  ASSUME IntegrationAssumption, TypeOK, Records
  PROVE  FoundAreTrees
BY NotFound DEF FoundAreTrees

\* Where a task is not completed the trees of Root and WorkRoot are one.
LEMMA OneRoot ==
  ASSUME IntegrationAssumption, NEW t \in Tasks, task[t].state # "COMPLETED"
  PROVE  /\ Root(t) = WorkRoot(t) /\ Tree(t) = WorkTree(t) /\ (Found(t) <=> WorkFound(t))
         /\ Binding(t) = WorkBinding(t)
BY DEF Root, Tree, WorkTree, Found, WorkFound, Binding, WorkBinding

\* The tree of a task depends on its files, its workspace and whether it is merged.
LEMMA WorkSame ==
  ASSUME NEW t, task'[t].integration = task[t].integration,
         workspace'[t] = workspace[t], worktree'[t] = worktree[t], checkout' = checkout
  PROVE  WorkTree(t)' = WorkTree(t)
BY DEF WorkTree, WorkRoot, Merged

-----------------------------------------------------------------------------
\* Calls under way

\* The call of u goes on as it was, or ends, and knows no more than it did.
Follows(u) ==
  call'[u] # None =>
    /\ call[u] # None
    /\ call'[u].at = call[u].at \/ (call[u].at = "recorded" /\ call'[u].at = "merged")
    /\ call[u].at \in {"gated", "recorded", "merged", "matched", "proven", "compared", "bound"}
         /\ call'[u].still => call[u].still /\ WorkTree(u)' = WorkTree(u)
    /\ call[u].at = "gated" => call'[u].binding = call[u].binding
    /\ call[u].at = "matched" => (call'[u].same => call[u].same)

Locking(u) == call[u] # None /\ call[u].at \in {"merged", "proven", "compared", "bound"}

\* So what it knows stays true where the record is as it was.
LEMMA MeasuredStays ==
  ASSUME IntegrationAssumption, IInv, TypeOK', Records', NEW u \in Tasks, Together(u)', Follows(u),
         task'[u].integration = task[u].integration,
         Locking(u) => task'[u].proof = task[u].proof
  PROVE  Measured(u)'
<1>1. TypeOK /\ Records /\ Measured(u) /\ Together(u)
  BY DEF IInv
<1>2. FoundIsTree(u)
  BY <1>1, NotFound
<1>3. FoundIsTree(u)'
  <2>1. FoundAreTrees'
    BY FoundTrees, PTL
  <2>2. QED
    BY <2>1 DEF FoundAreTrees
<1>4. ASSUME NEW places \in
               SUBSET {"gated", "recorded", "merged", "matched", "proven", "compared", "bound"},
             StillAt(u, places)', "merged" \in places => "recorded" \in places
      PROVE  /\ StillAt(u, places) /\ WorkBinding(u)' = WorkBinding(u)
             /\ call[u] # None /\ call'[u] # None
  BY <1>2, <1>3, <1>4 DEF StillAt, Still, Follows, WorkBinding, BindingIn, FoundIsTree
<1>5. (StillAt(u, {"gated"}) => call[u].binding = WorkBinding(u))'
  BY <1>1, <1>4 DEF Measured, StillAt, Still, Follows
<1>6. (StillAt(u, {"recorded", "merged"}) /\ task[u].integration # None => GatedOn(u))'
  BY <1>1, <1>4 DEF Measured, GatedOn
<1>7. /\ (At(u, "matched") /\ call[u].same => task[u].integration # None)'
      /\ (StillAt(u, {"matched"}) /\ call[u].same => GatedOn(u))'
  <2>1. StillAt(u, {"matched"})' /\ call'[u].same => StillAt(u, {"matched"}) /\ call[u].same
    BY <1>4 DEF StillAt, Still, Follows
  <2>2. At(u, "matched")' /\ call'[u].same => At(u, "matched") /\ call[u].same
    BY DEF At, Follows
  <2>3. QED
    BY <1>1, <1>4, <2>1, <2>2 DEF Measured, GatedOn
<1>8. (Still(u, {"proven", "compared", "bound"}) =>
          WorkFound(u) /\ task[u].proof = WorkBinding(u))'
  <2> DEFINE places == {"proven", "compared", "bound"}
  <2>1. Still(u, places) => Locking(u) /\ WorkFound(u) /\ task[u].proof = WorkBinding(u)
    BY <1>1 DEF Measured, Still, Locking
  <2>2. Still(u, places)' => Still(u, places) /\ WorkTree(u)' = WorkTree(u)
    BY DEF Still, Follows
  <2>3. Still(u, places)' => WorkFound(u)'
    BY <1>2, <1>3, <2>1, <2>2 DEF FoundIsTree
  <2>4. QED
    BY <2>1, <2>2, <2>3 DEF WorkBinding, BindingIn
<1>9. (StillAt(u, {"bound"}) => GatedOn(u))'
  BY <1>1, <1>4 DEF Measured, GatedOn
<1>10. QED
  BY <1>5, <1>6, <1>7, <1>8, <1>9 DEF Measured

\* A call that is outdated, and one that has seen files change.
LEMMA CallOutdated ==
  ASSUME NEW u \in Tasks, NEW c \in Calls(u), c # None
  PROVE  /\ Outdated(c) \in Calls(u) /\ Outdated(c).at = c.at
         /\ c.at \in {"gated", "recorded", "merged", "matched", "proven", "compared", "bound"} =>
              Outdated(c).still = c.still
         /\ c.at = "gated" => Outdated(c).binding = c.binding
         /\ c.at = "matched" => ~Outdated(c).same
<1>1. CASE c \in [at: {"examined"}]
  BY <1>1 DEF Calls, Outdated
<1>2. CASE c \in [at: {"gated"}, still: BOOLEAN, binding: Bindings(u)]
  BY <1>2 DEF Calls, Outdated
<1>3. CASE c \in [at: {"recorded", "merged", "proven", "compared", "bound"}, still: BOOLEAN]
  BY <1>3 DEF Calls, Outdated
<1>4. CASE c \in [at: {"moved"}, same: BOOLEAN]
  BY <1>4 DEF Calls, Outdated
<1>5. CASE c \in [at: {"read", "matched"}, same: BOOLEAN, still: BOOLEAN, tree: Trees]
  BY <1>5 DEF Calls, Outdated
<1>6. QED
  BY <1>1, <1>2, <1>3, <1>4, <1>5 DEF Calls

Seen(c, unmoved) == IF "still" \in DOMAIN c THEN [c EXCEPT !.still = @ /\ unmoved] ELSE c

LEMMA CallSeen ==
  ASSUME NEW u \in Tasks, NEW c \in Calls(u), NEW unmoved \in BOOLEAN
  PROVE  /\ Seen(c, unmoved) \in Calls(u) /\ Seen(c, unmoved).at = c.at
         /\ c.at \in {"gated", "recorded", "merged", "matched", "proven", "compared", "bound"} =>
              (Seen(c, unmoved).still => c.still /\ unmoved)
         /\ c.at = "gated" => Seen(c, unmoved).binding = c.binding
         /\ c.at = "matched" => Seen(c, unmoved).same = c.same
         /\ c.at = "recorded" => [Seen(c, unmoved) EXCEPT !.at = "merged"] \in Calls(u)
<1>1. CASE c \in [at: {"examined"}]
  BY <1>1 DEF Calls, Seen
<1>2. CASE c \in [at: {"gated"}, still: BOOLEAN, binding: Bindings(u)]
  BY <1>2 DEF Calls, Seen
<1>3. CASE c \in [at: {"recorded", "merged", "proven", "compared", "bound"}, still: BOOLEAN]
  BY <1>3 DEF Calls, Seen
<1>4. CASE c \in [at: {"moved"}, same: BOOLEAN]
  BY <1>4 DEF Calls, Seen
<1>5. CASE c \in [at: {"read", "matched"}, same: BOOLEAN, still: BOOLEAN, tree: Trees]
  BY <1>5 DEF Calls, Seen
<1>6. QED
  BY <1>1, <1>2, <1>3, <1>4, <1>5 DEF Calls

\* A call that is left alone, outdated, or watched over a change of files.
LEMMA CallsFollow ==
  ASSUME TypeOK, Records, NEW u \in Tasks
  PROVE  /\ call'[u] = None => Follows(u)
         /\ call'[u] \in {call[u], Outdated(call[u])} /\ WorkTree(u)' = WorkTree(u) => Follows(u)
         /\ call'[u] = Watched(u) => Follows(u)
         /\ call'[u] = [Watched(u) EXCEPT !.at = "merged"] /\ At(u, "recorded") => Follows(u)
         /\ Outdated(call[u]) \in Calls(u) \cup {None} /\ Watched(u) \in Calls(u) \cup {None}
         /\ At(u, "recorded") => [Watched(u) EXCEPT !.at = "merged"] \in Calls(u)
         /\ call[u] = None => Outdated(call[u]) = None /\ Watched(u) = None
<1> DEFINE unmoved == WorkTree(u)' = WorkTree(u)
<1>1. CASE call[u] = None
  BY <1>1 DEF Outdated, Watched, Follows, At
<1>2. CASE call[u] # None
  <2>1. call[u] \in Calls(u)
    BY <1>2 DEF Records, TypeOK
  <2>2. unmoved \in BOOLEAN
    OBVIOUS
  <2>3. Watched(u) = Seen(call[u], unmoved)
    BY <1>2 DEF Watched, Seen
  <2> DEFINE c == call[u]
  <2>4. /\ Outdated(c) \in Calls(u) /\ Outdated(c).at = c.at
        /\ c.at \in {"gated", "recorded", "merged", "matched", "proven", "compared", "bound"} =>
             Outdated(c).still = c.still
        /\ c.at = "gated" => Outdated(c).binding = c.binding
        /\ c.at = "matched" => ~Outdated(c).same
    BY <1>2, <2>1, CallOutdated
  <2> DEFINE s == Seen(c, unmoved)
  <2>5. /\ s \in Calls(u) /\ s.at = c.at
        /\ c.at \in {"gated", "recorded", "merged", "matched", "proven", "compared", "bound"} =>
             (s.still => c.still /\ unmoved)
        /\ c.at = "gated" => s.binding = c.binding
        /\ c.at = "matched" => s.same = c.same
        /\ c.at = "recorded" => [s EXCEPT !.at = "merged"] \in Calls(u)
    BY <2>1, <2>2, CallSeen
  <2>6. call'[u] \in {c, Outdated(c)} /\ unmoved => Follows(u)
    BY <1>2, <2>4 DEF Follows
  <2>7. call'[u] = s => Follows(u)
    <3> HIDE DEF s
    <3>1. QED
      BY <1>2, <2>5 DEF Follows
  <2>8. call'[u] = [s EXCEPT !.at = "merged"] /\ c.at = "recorded" => Follows(u)
    <3>1. s \in [at: {"recorded"}, still: BOOLEAN] \/ c.at # "recorded"
      <4> HIDE DEF s
      <4>1. QED
        BY <2>5 DEF Calls
    <3>2. c.at = "recorded" => /\ [s EXCEPT !.at = "merged"].at = "merged"
                               /\ [s EXCEPT !.at = "merged"].still = s.still
      <4> HIDE DEF s
      <4>1. QED
        BY <3>1
    <3> HIDE DEF s
    <3>3. QED
      BY <1>2, <2>5, <3>2 DEF Follows
  <2>9. QED
    BY <1>2, <2>3, <2>4, <2>5, <2>6, <2>7, <2>8 DEF At, Follows
<1>3. QED
  BY <1>1, <1>2

-----------------------------------------------------------------------------
\* The steps

\* Upkeep whose task is written, or that ends, is where it was.
UpkeepStays(u) == upkeep'[u] # None => upkeep[u] # None /\ upkeep'[u].at = upkeep[u].at

LEMMA UpkeepOutdated ==
  ASSUME IntegrationAssumption, TypeOK, NEW t \in Tasks
  PROVE  /\ upkeep' = [upkeep EXCEPT ![t] = Outdated(@)] =>
              upkeep' \in [Tasks -> Upkeeps \cup {None}] /\ \A u \in Tasks : UpkeepStays(u)
         /\ upkeep' = [upkeep EXCEPT ![t] = None] =>
              upkeep' \in [Tasks -> Upkeeps \cup {None}] /\ \A u \in Tasks : UpkeepStays(u)
         /\ upkeep' = upkeep => \A u \in Tasks : UpkeepStays(u)
<1>1. upkeep \in [Tasks -> Upkeeps \cup {None}]
  BY DEF TypeOK
<1>2. ASSUME upkeep[t] # None
      PROVE  /\ Outdated(upkeep[t]) \in Upkeeps \cup {None}
             /\ Outdated(upkeep[t]).at = upkeep[t].at
  <2>1. CASE upkeep[t] \in [at: {"rebased"}, same: BOOLEAN, target: Commits]
    BY <2>1 DEF Upkeeps, Outdated
  <2>2. CASE upkeep[t] \in [at: {"removed"}]
    BY <2>2 DEF Upkeeps, Outdated
  <2>3. QED
    BY <1>1, <1>2, <2>1, <2>2 DEF Upkeeps
<1>3. upkeep[t] = None => Outdated(upkeep[t]) = None
  BY DEF Outdated
<1>4. QED
  BY <1>1, <1>2, <1>3 DEF UpkeepStays

\* What exists together stays together where only the record and the call of a task change.
LEMMA TogetherStays ==
  ASSUME NEW u \in Tasks, Together(u), UpkeepStays(u),
         workspace'[u] = workspace[u], branch'[u] = branch[u], worktree'[u] = worktree[u],
         workspace[u] = None => task'[u].state = "READY",
         call'[u] # None => workspace[u] # None /\ task'[u].state # "COMPLETED"
  PROVE  Together(u)'
BY DEF Together, UpkeepStays, KeepingAt

\* A step keeps the invariant if for each task what it writes is what it measured, or the
\* call goes on as it was.
LEMMA StepKeeps ==
  ASSUME IntegrationAssumption, IInv, TypeOK', Records',
         \A u \in Tasks :
           /\ Together(u)'
           /\ \/ Measured(u)'
              \/ /\ Follows(u) /\ task'[u].integration = task[u].integration
                 /\ Locking(u) => task'[u].proof = task[u].proof
  PROVE  IInv'
<1>1. \A u \in Tasks : Measured(u)'
  BY MeasuredStays
<1>2. QED
  BY <1>1 DEF IInv

\* A step that writes the record of a task, or moves its call, and touches no file.
LEMMA RecordStep ==
  ASSUME IntegrationAssumption, IInv, UNCHANGED <<git, workspace>>, NEW t \in Tasks,
         NEW r \in TaskRecords(t), NEW c \in Calls(t) \cup {None},
         DOMAIN task' = Tasks, task'[t] = r, \A u \in Tasks : u # t => task'[u] = task[u],
         DOMAIN call' = Tasks, call'[t] = c, \A u \in Tasks : u # t => call'[u] = call[u],
         upkeep' \in [Tasks -> Upkeeps \cup {None}], \A u \in Tasks : UpkeepStays(u),
         workspace[t] = None => r.state = "READY",
         c # None => workspace[t] # None /\ r.state # "COMPLETED",
         \/ Measured(t)'
         \/ /\ c \in {call[t], Outdated(call[t])} /\ r.integration = task[t].integration
            /\ Locking(t) => r.proof = task[t].proof
  PROVE  IInv'
<1>1. TypeOK /\ Records /\ \A u \in Tasks : Together(u)
  BY DEF IInv
<1>2. TypeOK' /\ Records'
  BY <1>1 DEF TypeOK, Records, git
<1>3. ASSUME NEW u \in Tasks PROVE Together(u)'
  <2>1. u # t => Together(u)'
    BY <1>1, TogetherStays DEF git, Together
  <2>2. Together(t)'
    BY <1>1, TogetherStays DEF git
  <2>3. QED
    BY <2>1, <2>2
<1>4. ASSUME NEW u \in Tasks, u # t
      PROVE  /\ Follows(u) /\ task'[u].integration = task[u].integration
             /\ Locking(u) => task'[u].proof = task[u].proof
  <2>1. WorkTree(u)' = WorkTree(u)
    BY <1>4, WorkSame DEF git
  <2>2. QED
    BY <1>1, <1>4, <2>1, CallsFollow
<1>5. \/ Measured(t)'
      \/ /\ Follows(t) /\ task'[t].integration = task[t].integration
         /\ Locking(t) => task'[t].proof = task[t].proof
  <2>1. CASE /\ c \in {call[t], Outdated(call[t])} /\ r.integration = task[t].integration
             /\ Locking(t) => r.proof = task[t].proof
    <3>1. WorkTree(t)' = WorkTree(t)
      BY <2>1, WorkSame DEF git
    <3>2. Follows(t)
      BY <1>1, <2>1, <3>1, CallsFollow
    <3>3. QED
      BY <2>1, <3>2
  <2>2. QED
    BY <2>1
<1>6. QED
  BY <1>2, <1>3, <1>4, <1>5, StepKeeps

\* A task that is written, and a call that is moved.
LEMMA TaskWritten ==
  ASSUME Records, NEW t \in Tasks, NEW r, task' = [task EXCEPT ![t] = r]
  PROVE  DOMAIN task' = Tasks /\ task'[t] = r /\ \A u \in Tasks : u # t => task'[u] = task[u]
BY DEF Records

LEMMA CallMoved ==
  ASSUME Records, NEW t \in Tasks, NEW c, call' = [call EXCEPT ![t] = c]
  PROVE  DOMAIN call' = Tasks /\ call'[t] = c /\ \A u \in Tasks : u # t => call'[u] = call[u]
BY DEF Records

\* The parts of a task and what may be written of it.
LEMMA TaskParts ==
  ASSUME TypeOK, NEW t \in Tasks
  PROVE  /\ task[t] \in TaskRecords(t) /\ task[t].state \in States
         /\ task[t].integration \in Integrations(t) \cup {None}
         /\ \A s \in States : /\ [task[t] EXCEPT !.state = s] \in TaskRecords(t)
                              /\ [task[t] EXCEPT !.state = s].state = s
                              /\ [task[t] EXCEPT !.state = s].integration = task[t].integration
                              /\ [task[t] EXCEPT !.state = s].proof = task[t].proof
         /\ \A i \in Integrations(t) \cup {None} :
              /\ [task[t] EXCEPT !.integration = i] \in TaskRecords(t)
              /\ [task[t] EXCEPT !.integration = i].state = task[t].state
              /\ [task[t] EXCEPT !.integration = i].integration = i
              /\ [task[t] EXCEPT !.integration = i].proof = task[t].proof
<1>1. task[t] \in TaskRecords(t)
  BY DEF TypeOK
<1>2. QED
  BY <1>1 DEF TaskRecords

\* A task is written as it is read in the same transaction.
LEMMA WriteStep ==
  ASSUME IntegrationAssumption, IInv, NEW t \in Tasks, NEW r \in TaskRecords(t), WriteTask(t, r),
         UNCHANGED <<git, workspace>>, r.integration = task[t].integration,
         r.state # "COMPLETED", workspace[t] = None => r.state = "READY",
         Locking(t) => r.proof = task[t].proof
  PROVE  IInv'
<1>1. TypeOK /\ Records /\ Together(t)
  BY DEF IInv
<1>2. /\ task' = [task EXCEPT ![t] = r] /\ call' = [call EXCEPT ![t] = Outdated(call[t])]
      /\ upkeep' = [upkeep EXCEPT ![t] = Outdated(@)]
  BY DEF WriteTask
<1>3. /\ Outdated(call[t]) \in Calls(t) \cup {None}
      /\ call[t] = None => Outdated(call[t]) = None
  BY <1>1, CallsFollow
<1>4. upkeep' \in [Tasks -> Upkeeps \cup {None}] /\ \A u \in Tasks : UpkeepStays(u)
  BY <1>1, <1>2, UpkeepOutdated
<1>5. DOMAIN task' = Tasks /\ task'[t] = r /\ \A u \in Tasks : u # t => task'[u] = task[u]
  BY <1>1, <1>2, TaskWritten
<1>6. /\ DOMAIN call' = Tasks /\ call'[t] = Outdated(call[t])
      /\ \A u \in Tasks : u # t => call'[u] = call[u]
  BY <1>1, <1>2, CallMoved
<1>7. Outdated(call[t]) # None => workspace[t] # None
  BY <1>1, <1>3 DEF Together
<1>8. QED
  BY <1>3, <1>4, <1>5, <1>6, <1>7, RecordStep

\* The calls of agents and of the plane that write a task.
LEMMA WritesKeep ==
  ASSUME IntegrationAssumption, IInv, NEW t \in Tasks,
         \/ Claim(t) \/ Release(t) \/ Invalidate(t) \/ Ready(t)
         \/ \E passed \in BOOLEAN : Verify(t, passed)
  PROVE  IInv'
<1>1. TypeOK /\ Records /\ Together(t) /\ task[t] \in TaskRecords(t)
  BY TaskParts DEF IInv
<1>2. ASSUME NEW s \in States \ {"COMPLETED"}, WriteTask(t, [task[t] EXCEPT !.state = s]),
             UNCHANGED <<git, workspace>>, workspace[t] = None => s = "READY"
      PROVE  IInv'
  <2> DEFINE r == [task[t] EXCEPT !.state = s]
  <2>1. r \in TaskRecords(t) /\ r.state = s /\ r.integration = task[t].integration
        /\ r.proof = task[t].proof
    BY <1>1, TaskParts
  <2> HIDE DEF r
  <2>2. WriteTask(t, r)
    BY <1>2 DEF r
  <2>3. QED
    BY <1>2, <2>1, <2>2, WriteStep
<1>3. workspace[t] = None => task[t].state = "READY"
  BY <1>1 DEF Together
<1>4. CASE Claim(t) \/ Release(t) \/ Invalidate(t) \/ Ready(t)
  BY <1>2, <1>3, <1>4 DEF Claim, Release, Invalidate, Ready, States
<1>5. ASSUME NEW passed \in BOOLEAN, Verify(t, passed) PROVE IInv'
  <2> DEFINE r == [task[t] EXCEPT !.state = "VERIFYING", !.proof = IF passed THEN Binding(t) ELSE None]
  <2>1. Unlocked /\ Owned(t) /\ Found(t) /\ UNCHANGED <<git, workspace>> /\ WriteTask(t, r)
    BY <1>5 DEF Verify
  <2>2. Binding(t) \in Bindings(t)
    <3>1. task[t].state # "COMPLETED"
      BY <2>1 DEF Owned
    <3>2. WorkTree(t) \in Trees /\ Binding(t) = WorkBinding(t)
      BY <1>1, <2>1, <3>1, OneRoot, NotFound
    <3>3. QED
      BY <3>2 DEF WorkBinding, BindingIn, Bindings, Trees, IntegrationAssumption
  <2>3. r \in TaskRecords(t) /\ r.integration = task[t].integration /\ r.state = "VERIFYING"
    BY <1>1, <2>2 DEF TaskRecords, States
  <2>4. ~Locking(t)
    BY <2>1 DEF Unlocked, Locking
  <2>5. workspace[t] # None
    BY <1>3, <2>1 DEF Owned
  <2> HIDE DEF r
  <2>6. QED
    BY <2>1, <2>3, <2>4, <2>5, WriteStep
<1>6. QED
  BY <1>4, <1>5

\* A call that goes on or ends, and writes nothing.
LEMMA CallStep ==
  ASSUME IntegrationAssumption, IInv, NEW t \in Tasks, NEW c \in Calls(t) \cup {None},
         call' = [call EXCEPT ![t] = c], UNCHANGED <<git, workspace, task, upkeep>>,
         c # None => workspace[t] # None /\ task[t].state # "COMPLETED",
         Measured(t)'
  PROVE  IInv'
<1>1. TypeOK /\ Records /\ Together(t) /\ task[t] \in TaskRecords(t)
  BY TaskParts DEF IInv
<1>2. DOMAIN call' = Tasks /\ call'[t] = c /\ \A u \in Tasks : u # t => call'[u] = call[u]
  BY <1>1, CallMoved
<1>3. DOMAIN task' = Tasks /\ task'[t] = task[t] /\ \A u \in Tasks : u # t => task'[u] = task[u]
  BY <1>1 DEF Records
<1>4. upkeep' \in [Tasks -> Upkeeps \cup {None}] /\ \A u \in Tasks : UpkeepStays(u)
  BY <1>1, UpkeepOutdated DEF TypeOK
<1>5. workspace[t] = None => task[t].state = "READY"
  BY <1>1 DEF Together
<1>6. QED
  BY <1>1, <1>2, <1>3, <1>4, <1>5, RecordStep

\* A call knows nothing of where it has not been.
LEMMA MeasuredNothing ==
  ASSUME NEW t \in Tasks,
         call[t] # None => call[t].at \in {"examined", "moved", "read"}
  PROVE  Measured(t)
BY DEF Measured, StillAt, Still, At

\* The calls that look, at files and records.
LEMMA LooksKeep ==
  ASSUME IntegrationAssumption, IInv, NEW t \in Tasks,
         \/ GateExamine(t) \/ GateBind(t) \/ RecoverProve(t) \/ RecoverRead(t) \/ RecoverMatch(t)
         \/ Cut(t) \/ CompleteProve(t) \/ CompleteCompare(t) \/ CompleteBind(t)
  PROVE  IInv'
<1>1. TypeOK /\ Records /\ Together(t) /\ Measured(t)
  BY DEF IInv
<1>2. /\ checkout \in Trees /\ call[t] \in Calls(t) \cup {None}
      /\ workspace[t] = None => task[t].state = "READY"
      /\ call[t] # None => workspace[t] # None /\ task[t].state # "COMPLETED"
  BY <1>1, Exist DEF Together
<1>3. UNCHANGED <<git, workspace, task, upkeep>>
  BY DEF GateExamine, GateBind, RecoverProve, RecoverRead, RecoverMatch, Cut, CompleteProve,
     CompleteCompare, CompleteBind
<1>4. WorkTree(t)' = WorkTree(t) /\ WorkFound(t)' = WorkFound(t)
      /\ WorkBinding(t)' = WorkBinding(t) /\ GatedOn(t)' = GatedOn(t)
  BY <1>3 DEF WorkTree, WorkRoot, Merged, WorkFound, WorkBinding, GatedOn, git
<1>5. ASSUME NEW c, call' = [call EXCEPT ![t] = c] PROVE call'[t] = c
  BY <1>1, <1>5, CallMoved
<1>6. CASE GateExamine(t)
  <2> DEFINE c == [at |-> "examined"]
  <2>1. call' = [call EXCEPT ![t] = c] /\ workspace[t] # None /\ task[t].state # "COMPLETED"
    BY <1>6 DEF GateExamine, Owned
  <2>2. c \in Calls(t) /\ c.at = "examined"
    BY DEF Calls
  <2> HIDE DEF c
  <2>3. Measured(t)'
    BY <1>5, <2>1, <2>2 DEF Measured, StillAt, Still, At
  <2>4. QED
    BY <1>3, <2>1, <2>2, <2>3, CallStep
<1>7. CASE GateBind(t)
  <2> DEFINE c == [at |-> "gated", still |-> TRUE, binding |-> WorkBinding(t)]
  <2>1. call' = [call EXCEPT ![t] = c] /\ WorkFound(t) /\ call[t] # None
    BY <1>7 DEF GateBind, At, WorkFound, WorkBinding
  <2>2. WorkBinding(t) \in Bindings(t)
    <3>1. WorkTree(t) \in Trees
      BY <1>1, <2>1, NotFound
    <3>2. QED
      BY <3>1 DEF WorkBinding, BindingIn, Bindings, Trees, IntegrationAssumption
  <2>3. c \in Calls(t) /\ c.at = "gated" /\ c.binding = WorkBinding(t)
    BY <2>2 DEF Calls
  <2> HIDE DEF c
  <2>4. Measured(t)'
    BY <1>4, <1>5, <2>1, <2>3 DEF Measured, StillAt, Still, At
  <2>5. QED
    BY <1>2, <1>3, <2>1, <2>3, <2>4, CallStep
<1>8. CASE RecoverProve(t)
  <2> DEFINE c == [at |-> "moved", same |-> TRUE]
  <2>1. call' = [call EXCEPT ![t] = c] /\ workspace[t] # None /\ task[t].state # "COMPLETED"
    BY <1>8 DEF RecoverProve, Owned
  <2>2. c \in Calls(t) /\ c.at = "moved"
    BY DEF Calls
  <2> HIDE DEF c
  <2>3. Measured(t)'
    BY <1>5, <2>1, <2>2 DEF Measured, StillAt, Still, At
  <2>4. QED
    BY <1>3, <2>1, <2>2, <2>3, CallStep
<1>9. CASE RecoverRead(t)
  <2> DEFINE c == [at |-> "read", same |-> call[t].same, still |-> TRUE, tree |-> checkout]
  <2>1. call' = [call EXCEPT ![t] = c] /\ call[t] # None /\ call[t].at = "moved"
    BY <1>9 DEF RecoverRead, At
  <2>2. call[t].same \in BOOLEAN
    BY <1>2, <2>1 DEF Calls
  <2>3. c \in Calls(t) /\ c.at = "read"
    BY <1>2, <2>2 DEF Calls
  <2> HIDE DEF c
  <2>4. Measured(t)'
    BY <1>5, <2>1, <2>3 DEF Measured, StillAt, Still, At
  <2>5. QED
    BY <1>2, <1>3, <2>1, <2>3, <2>4, CallStep
<1>10. CASE RecoverMatch(t)
  <2> DEFINE c == [call[t] EXCEPT !.at = "matched"]
  <2>1. call' = [call EXCEPT ![t] = c] /\ call[t] # None /\ call[t].at = "read" /\ GatedOn(t)
    BY <1>2, <1>10, OneRoot DEF RecoverMatch, At, Gated, GatedOn
  <2>2. c \in Calls(t) /\ c.at = "matched"
    BY <1>2, <2>1 DEF Calls
  <2> HIDE DEF c
  <2>3. Measured(t)'
    BY <1>3, <1>4, <1>5, <2>1, <2>2 DEF Measured, StillAt, Still, At, GatedOn
  <2>4. QED
    BY <1>2, <1>3, <2>1, <2>2, <2>3, CallStep
<1>11. CASE Cut(t)
  <2>1. call' = [call EXCEPT ![t] = None]
    BY <1>11 DEF Cut
  <2>2. Measured(t)'
    BY <1>5, <2>1 DEF Measured, StillAt, Still, At
  <2>3. QED
    BY <1>3, <2>1, <2>2, CallStep
<1>12. CASE CompleteProve(t)
  <2> DEFINE c == [at |-> "proven", still |-> TRUE]
  <2>1. /\ call' = [call EXCEPT ![t] = c] /\ workspace[t] # None /\ task[t].state # "COMPLETED"
        /\ WorkFound(t) /\ task[t].proof = WorkBinding(t)
    BY <1>2, <1>12, OneRoot DEF CompleteProve, Proven
  <2>2. c \in Calls(t) /\ c.at = "proven"
    BY DEF Calls
  <2> HIDE DEF c
  <2>3. Measured(t)'
    BY <1>3, <1>4, <1>5, <2>1, <2>2 DEF Measured, StillAt, Still, At
  <2>4. QED
    BY <1>3, <2>1, <2>2, <2>3, CallStep
<1>13. CASE CompleteCompare(t) \/ CompleteBind(t)
  <2> DEFINE places == {"compared", "bound"}
  <2>1. PICK at \in places : /\ call' = [call EXCEPT ![t] = [call[t] EXCEPT !.at = at]]
                             /\ call[t] # None /\ call[t].at \in {"proven", "compared"}
                             /\ at = "bound" => GatedOn(t)
    BY <1>2, <1>13, OneRoot DEF CompleteCompare, CompleteBind, At, Gated, GatedOn
  <2> DEFINE c == [call[t] EXCEPT !.at = at]
  <2>2. c \in Calls(t) /\ c.at = at /\ c.still = call[t].still
    BY <1>2, <2>1 DEF Calls
  <2> HIDE DEF c
  <2>3. Still(t, {"proven", "compared", "bound"})' =>
          WorkFound(t)' /\ task'[t].proof = WorkBinding(t)'
    BY <1>1, <1>3, <1>4, <1>5, <2>1, <2>2 DEF Measured, Still, c
  <2>4. Measured(t)'
    BY <1>3, <1>4, <1>5, <2>1, <2>2, <2>3 DEF Measured, StillAt, Still, At, c
  <2>5. QED
    BY <1>2, <1>3, <2>1, <2>2, <2>4, CallStep DEF c
<1>14. QED
  BY <1>6, <1>7, <1>8, <1>9, <1>10, <1>11, <1>12, <1>13

\* The calls that end with a record: the gate's goes on to the merge.
LEMMA RecordsKeep ==
  ASSUME IntegrationAssumption, IInv, NEW t \in Tasks,
         GateRecord(t) \/ MergeRecord(t) \/ MergeRecover(t) \/ Complete(t)
  PROVE  IInv'
<1>1. TypeOK /\ Records /\ Together(t) /\ Measured(t)
  BY DEF IInv
<1>2. /\ checkout \in Trees /\ call[t] \in Calls(t) \cup {None} /\ task[t] \in TaskRecords(t)
      /\ task[t].integration \in Integrations(t) \cup {None}
  BY <1>1, Exist
<1>3. /\ UNCHANGED <<git, workspace>> /\ call[t] # None
      /\ upkeep' = [upkeep EXCEPT ![t] = Outdated(@)]
  BY DEF GateRecord, MergeRecord, MergeRecover, Complete, At
<1>4. upkeep' \in [Tasks -> Upkeeps \cup {None}] /\ \A u \in Tasks : UpkeepStays(u)
  BY <1>1, <1>3, UpkeepOutdated
<1>5. workspace[t] # None /\ task[t].state # "COMPLETED"
  BY <1>1, <1>3 DEF Together
<1>6. ASSUME NEW c, call' = [call EXCEPT ![t] = c]
      PROVE  DOMAIN call' = Tasks /\ call'[t] = c /\ \A u \in Tasks : u # t => call'[u] = call[u]
  BY <1>1, <1>6, CallMoved
<1>7. ASSUME NEW r, task' = [task EXCEPT ![t] = r]
      PROVE  DOMAIN task' = Tasks /\ task'[t] = r /\ \A u \in Tasks : u # t => task'[u] = task[u]
  BY <1>1, <1>7, TaskWritten
<1>8. ASSUME NEW r \in TaskRecords(t), task' = [task EXCEPT ![t] = r],
             call' = [call EXCEPT ![t] = None]
      PROVE  IInv'
  <2>1. call'[t] = None
    BY <1>6, <1>8
  <2>2. Measured(t)'
    BY <2>1 DEF Measured, StillAt, Still, At
  <2>3. QED
    BY <1>3, <1>4, <1>5, <1>6, <1>7, <1>8, <2>2, RecordStep
<1>9. CASE GateRecord(t)
  <2> DEFINE i == [binding |-> call[t].binding, merged |-> None]
             r == [task[t] EXCEPT !.integration = i]
             c == [at |-> "recorded", still |-> call[t].still]
  <2>1. /\ call[t].at = "gated"
        /\ task' = [task EXCEPT ![t] = r] /\ call' = [call EXCEPT ![t] = c]
    BY <1>9 DEF GateRecord, At
  <2>2. call[t].binding \in Bindings(t) /\ call[t].still \in BOOLEAN
    BY <1>2, <1>3, <2>1 DEF Calls
  <2>3. i \in Integrations(t) /\ i.binding = call[t].binding /\ i.merged = None
    BY <2>2 DEF Integrations
  <2>4. c \in Calls(t) /\ c.at = "recorded" /\ c.still = call[t].still
    BY <2>2 DEF Calls
  <2> HIDE DEF i, c
  <2>5. r \in TaskRecords(t) /\ r.integration = i /\ r.state = task[t].state
    BY <1>1, <2>3, TaskParts
  <2> HIDE DEF r
  <2>6. call'[t] = c /\ task'[t] = r
    BY <1>6, <1>7, <2>1
  <2>7. StillAt(t, {"recorded", "merged"})' => StillAt(t, {"gated"}) /\ WorkTree(t)' = WorkTree(t)
    <3>1. CASE workspace[t].removed
      <4>1. worktree[t] = None
        BY <1>1, <1>5, <3>1 DEF Together
      <4>2. ~WorkFound(t)'
        BY <1>3, <1>5, <2>3, <2>5, <2>6, <3>1, <4>1 DEF WorkFound, WorkRoot, Merged, git
      <4>3. QED
        BY <4>2 DEF StillAt, Still
    <3>2. CASE ~workspace[t].removed
      <4>1. WorkTree(t)' = WorkTree(t) /\ WorkFound(t)' = WorkFound(t)
        BY <1>3, <1>5, <3>2 DEF WorkTree, WorkFound, WorkRoot, git
      <4>2. QED
        BY <1>3, <2>1, <2>4, <2>6, <4>1 DEF StillAt, Still
    <3>3. QED
      BY <3>1, <3>2
  <2>8. StillAt(t, {"recorded", "merged"})' => GatedOn(t)'
    BY <1>1, <2>3, <2>5, <2>6, <2>7 DEF Measured, GatedOn, WorkBinding, BindingIn,
       IntegrationAssumption
  <2>9. Measured(t)'
    BY <2>4, <2>6, <2>8 DEF Measured, StillAt, Still, At
  <2>10. /\ DOMAIN task' = Tasks /\ \A u \in Tasks : u # t => task'[u] = task[u]
         /\ DOMAIN call' = Tasks /\ \A u \in Tasks : u # t => call'[u] = call[u]
    BY <1>6, <1>7, <2>1
  <2>11. QED
    BY <1>3, <1>4, <1>5, <2>4, <2>5, <2>6, <2>9, <2>10, RecordStep
<1>10. CASE MergeRecord(t) \/ MergeRecover(t)
  <2>1. PICK tree : /\ task' = [task EXCEPT ![t] =
                         [task[t] EXCEPT !.integration = [task[t].integration EXCEPT !.merged = tree]]]
                    /\ call' = [call EXCEPT ![t] = None]
                    /\ tree \in Trees /\ task[t].integration # None
    <3>1. CASE MergeRecord(t)
      BY <1>2, <3>1 DEF MergeRecord
    <3>2. CASE MergeRecover(t)
      <4>1. call[t].tree \in Trees
        BY <1>2, <1>3, <3>2 DEF MergeRecover, At, Calls
      <4>2. task[t].integration # None
        BY <1>1, <3>2 DEF MergeRecover, Measured
      <4>3. QED
        BY <3>2, <4>1, <4>2 DEF MergeRecover
    <3>3. QED
      BY <1>10, <3>1, <3>2
  <2> DEFINE i == [task[t].integration EXCEPT !.merged = tree]
             r == [task[t] EXCEPT !.integration = i]
  <2>2. i \in Integrations(t)
    BY <1>2, <2>1 DEF Integrations
  <2> HIDE DEF i
  <2>3. r \in TaskRecords(t)
    BY <1>1, <2>2, TaskParts
  <2>4. task' = [task EXCEPT ![t] = r]
    BY <2>1 DEF i
  <2> HIDE DEF r
  <2>5. QED
    BY <1>8, <2>1, <2>3, <2>4
<1>11. CASE Complete(t)
  <2>1. /\ task' = [task EXCEPT ![t] = [task[t] EXCEPT !.state = "COMPLETED"]]
        /\ call' = [call EXCEPT ![t] = None]
    BY <1>11 DEF Complete
  <2>2. [task[t] EXCEPT !.state = "COMPLETED"] \in TaskRecords(t)
    BY <1>2 DEF TaskRecords, States
  <2>3. QED
    BY <1>8, <2>1, <2>2
<1>12. QED
  BY <1>9, <1>10, <1>11

\* Histories grow by a commit, are cut back, and are put behind each other.
LEMMA Histories ==
  ASSUME NEW c \in Commits, NEW d \in Commits
  PROVE  /\ \A f \in TreeFiles, data \in Contents : Append(c, [file |-> f, data |-> data]) \in Commits
         /\ Prefixes(c) \subseteq Commits /\ Rebased(c, d) \in Commits
<1>1. Len(c) \in Nat
  BY LenProperties DEF Commits
<1>2. ASSUME NEW f \in TreeFiles, NEW data \in Contents
      PROVE  Append(c, [file |-> f, data |-> data]) \in Commits
  <2>1. [file |-> f, data |-> data] \in Writes
    BY DEF Writes
  <2>2. QED
    BY <2>1, AppendProperties DEF Commits
<1>3. Prefixes(c) \subseteq Commits
  BY <1>1, CommitCut DEF Prefixes
<1>4. Since(c, d) \in Commits
  <2> DEFINE k == Len(LongestCommonPrefix({c, d}))
  <2>1. k \in 0..Len(c)
    BY Parted
  <2>2. Since(c, d) = SubSeq(c, k + 1, Len(c))
    BY DEF Since
  <2> HIDE DEF k
  <2>3. QED
    BY <2>1, <2>2, CommitCut
<1>5. Rebased(c, d) \in Commits
  BY <1>4, ConcatProperties DEF Rebased, Commits
<1>6. QED
  BY <1>2, <1>3, <1>5

\* A step that changes files: the calls under way see it.
LEMMA FileStep ==
  ASSUME IntegrationAssumption, IInv, UNCHANGED task, DOMAIN call' = Tasks,
         \A u \in Tasks :
           \/ call'[u] = Watched(u)
           \/ At(u, "recorded") /\ call'[u] = [Watched(u) EXCEPT !.at = "merged"]
           \/ call'[u] = call[u] /\ WorkTree(u)' = WorkTree(u)
           \/ call'[u] = call[u] /\ call[u] = None,
         primary' \in Commits, checkout' \in Trees, branch' \in [Tasks -> Commits \cup {None}],
         worktree' \in [Tasks -> Trees \cup {None}],
         workspace' \in [Tasks -> Workspaces \cup {None}],
         upkeep' \in [Tasks -> Upkeeps \cup {None}],
         \A u \in Tasks :
           /\ workspace[u] # None => workspace'[u] # None
           /\ workspace'[u] = None => worktree'[u] = None
           /\ workspace'[u] # None => branch'[u] # None
           /\ workspace'[u] # None /\ workspace'[u].removed => worktree'[u] = None
           /\ KeepingAt(u, "removed")' => worktree'[u] = None
           /\ upkeep'[u] # None => workspace'[u] # None
  PROVE  IInv'
<1>1. TypeOK /\ Records /\ \A u \in Tasks : Together(u)
  BY DEF IInv
<1>2. ASSUME NEW u \in Tasks PROVE Follows(u) /\ call'[u] \in Calls(u) \cup {None}
  BY <1>1, CallsFollow DEF Records, TypeOK, Follows
<1>3. TypeOK' /\ Records'
  BY <1>1, <1>2 DEF TypeOK, Records
<1>4. ASSUME NEW u \in Tasks PROVE Together(u)'
  <2>1. call'[u] # None => call[u] # None
    BY <1>2 DEF Follows
  <2>2. QED
    BY <1>1, <2>1 DEF Together
<1>5. QED
  BY <1>2, <1>3, <1>4, StepKeeps

\* What is there stays as it is in the trees of tasks a step does not touch.
FilesTogether(u) ==
  /\ workspace[u] = None => worktree[u] = None
  /\ workspace[u] # None => branch[u] # None
  /\ workspace[u] # None /\ workspace[u].removed => worktree[u] = None
  /\ KeepingAt(u, "removed") => worktree[u] = None
  /\ upkeep[u] # None => workspace[u] # None

LEMMA AreTogether ==
  ASSUME IInv
  PROVE  \A u \in Tasks : FilesTogether(u)
BY DEF IInv, Together, FilesTogether

\* The owner edits and commits; agents edit, commit and reset.
LEMMA EditsKeep ==
  ASSUME IntegrationAssumption, IInv,
         \/ \E f \in TreeFiles, data \in Contents : OwnerEdits(f, data)
         \/ OwnerCommits
         \/ \E t \in Tasks, f \in TreeFiles, data \in Contents : Edit(t, f, data)
         \/ \E t \in Tasks : CommitEdit(t) \/ Reset(t)
  PROVE  IInv'
<1>1. TypeOK /\ Records /\ \A u \in Tasks : FilesTogether(u)
  BY AreTogether DEF IInv
<1>2. /\ primary \in Commits /\ checkout \in Trees /\ branch \in [Tasks -> Commits \cup {None}]
      /\ worktree \in [Tasks -> Trees \cup {None}]
      /\ workspace \in [Tasks -> Workspaces \cup {None}] /\ upkeep \in [Tasks -> Upkeeps \cup {None}]
  BY <1>1 DEF TypeOK
<1>3. UNCHANGED <<workspace, task, upkeep>>
  BY DEF OwnerEdits, OwnerCommits, Edit, CommitEdit, Reset, Watch, calls
<1>4. ASSUME NEW f \in TreeFiles, NEW data \in Contents, NEW tree \in Trees
      PROVE  [tree EXCEPT ![f] = data] \in Trees
  BY DEF Trees
<1>5. ASSUME Watch PROVE DOMAIN call' = Tasks /\ \A u \in Tasks : call'[u] = Watched(u)
  BY <1>5 DEF Watch
<1>6. ASSUME NEW f \in TreeFiles, NEW data \in Contents, OwnerEdits(f, data) PROVE IInv'
  <2>1. checkout' \in Trees /\ UNCHANGED <<primary, branch, worktree>> /\ Watch
    BY <1>2, <1>4, <1>6 DEF OwnerEdits
  <2>2. QED
    BY <1>1, <1>2, <1>3, <1>5, <2>1, FileStep DEF FilesTogether, KeepingAt
<1>7. CASE OwnerCommits
  <2>1. PICK f \in TreeFiles : primary' = Append(primary, [file |-> f, data |-> checkout[f]])
    BY <1>7 DEF OwnerCommits, Drafts
  <2>2. checkout[f] \in Contents
    BY <1>2 DEF Trees
  <2>3. primary' \in Commits
    BY <1>2, <2>1, <2>2, Histories
  <2>4. UNCHANGED <<checkout, branch, worktree, call>>
    BY <1>7 DEF OwnerCommits, calls
  <2>5. \A u \in Tasks : WorkTree(u)' = WorkTree(u)
    BY <1>3, <2>4, WorkSame
  <2>6. QED
    BY <1>1, <1>2, <1>3, <2>3, <2>4, <2>5, FileStep DEF FilesTogether, KeepingAt, Records
<1>8. ASSUME NEW t \in Tasks, NEW f \in TreeFiles, NEW data \in Contents, Edit(t, f, data)
      PROVE  IInv'
  <2>1. UNCHANGED <<primary, branch>> /\ Watch
    BY <1>8 DEF Edit
  <2>2. CASE Root(t) = "worktree"
    <3>1. worktree' = [worktree EXCEPT ![t] = [worktree[t] EXCEPT ![f] = data]] /\ checkout' = checkout
      BY <1>8, <2>2 DEF Edit
    <3>2. worktree[t] # None
      BY <2>2 DEF Root, WorkRoot
    <3>3. [worktree[t] EXCEPT ![f] = data] \in Trees
      BY <1>2, <1>4, <3>2
    <3>4. /\ worktree' \in [Tasks -> Trees \cup {None}]
          /\ \A u \in Tasks : worktree[u] = None => worktree'[u] = None
      BY <1>2, <3>1, <3>2, <3>3
    <3>5. QED
      BY <1>1, <1>2, <1>3, <1>5, <2>1, <3>1, <3>4, FileStep DEF FilesTogether, KeepingAt
  <2>3. CASE Root(t) # "worktree"
    <3>1. checkout' \in Trees /\ worktree' = worktree
      BY <1>2, <1>4, <1>8, <2>3 DEF Edit
    <3>2. QED
      BY <1>1, <1>2, <1>3, <1>5, <2>1, <3>1, FileStep DEF FilesTogether, KeepingAt
  <2>4. QED
    BY <2>2, <2>3
<1>9. ASSUME NEW t \in Tasks, CommitEdit(t) PROVE IInv'
  <2>1. PICK f \in TreeFiles :
          branch' = [branch EXCEPT ![t] = Append(branch[t], [file |-> f, data |-> worktree[t][f]])]
    BY <1>9 DEF CommitEdit
  <2>2. worktree[t] # None /\ UNCHANGED <<primary, checkout, worktree, call>>
    BY <1>9 DEF CommitEdit, calls
  <2>3. branch[t] \in Commits /\ worktree[t][f] \in Contents
    <3>1. branch[t] # None
      BY <1>1, <2>2 DEF FilesTogether
    <3>2. worktree[t] \in Trees
      BY <1>2, <2>2
    <3>3. QED
      BY <1>2, <3>1, <3>2 DEF Trees
  <2> DEFINE c == Append(branch[t], [file |-> f, data |-> worktree[t][f]])
  <2>4. c \in Commits
    BY <2>3, Histories
  <2> HIDE DEF c
  <2>5. c # None
    BY <2>4 DEF IntegrationAssumption
  <2>6. branch' = [branch EXCEPT ![t] = c]
    BY <2>1 DEF c
  <2>7. /\ branch' \in [Tasks -> Commits \cup {None}]
        /\ \A u \in Tasks : branch[u] # None => branch'[u] # None
    BY <1>2, <2>4, <2>5, <2>6
  <2>8. \A u \in Tasks : WorkTree(u)' = WorkTree(u)
    BY <1>3, <2>2, WorkSame
  <2>9. QED
    BY <1>1, <1>2, <1>3, <2>2, <2>7, <2>8, FileStep DEF FilesTogether, KeepingAt, Records
<1>10. ASSUME NEW t \in Tasks, Reset(t) PROVE IInv'
  <2>1. PICK c \in Prefixes(branch[t]) : /\ branch' = [branch EXCEPT ![t] = c]
                                         /\ worktree' = [worktree EXCEPT ![t] = TreeOf(c)]
    BY <1>10 DEF Reset
  <2>2. worktree[t] # None /\ UNCHANGED <<primary, checkout>> /\ Watch
    BY <1>10 DEF Reset
  <2>3. branch[t] \in Commits
    BY <1>1, <1>2, <2>2 DEF FilesTogether
  <2>4. c \in Commits
    BY <2>1, <2>3, Histories
  <2>5. TreeOf(c) \in Trees /\ c # None
    BY <2>4, TreeTypes DEF IntegrationAssumption
  <2>6. /\ worktree' \in [Tasks -> Trees \cup {None}]
        /\ branch' \in [Tasks -> Commits \cup {None}]
        /\ \A u \in Tasks : /\ worktree[u] = None => worktree'[u] = None
                            /\ branch[u] # None => branch'[u] # None
    BY <1>2, <2>1, <2>2, <2>4, <2>5
  <2>7. QED
    BY <1>1, <1>2, <1>3, <1>5, <2>2, <2>6, FileStep DEF FilesTogether, KeepingAt
<1>11. QED
  BY <1>6, <1>7, <1>8, <1>9, <1>10

\* git merges, rebases and removes; the upkeep of a workspace is recorded or cut.
LEMMA GitKeeps ==
  ASSUME IntegrationAssumption, IInv, NEW t \in Tasks,
         \/ CreateWorkspace(t) \/ MergeGit(t) \/ RefreshRebase(t)
         \/ CleanupGit(t) \/ CleanupRecord(t) \/ CutUpkeep(t)
  PROVE  IInv'
<1>1. TypeOK /\ Records /\ \A u \in Tasks : FilesTogether(u)
  BY AreTogether DEF IInv
<1>2. /\ primary \in Commits /\ checkout \in Trees /\ branch \in [Tasks -> Commits \cup {None}]
      /\ worktree \in [Tasks -> Trees \cup {None}]
      /\ workspace \in [Tasks -> Workspaces \cup {None}] /\ upkeep \in [Tasks -> Upkeeps \cup {None}]
  BY <1>1 DEF TypeOK
<1>3. UNCHANGED task
  BY DEF CreateWorkspace, MergeGit, RefreshRebase, CleanupGit, CleanupRecord, CutUpkeep
<1>4. primary # None /\ TreeOf(primary) \in Trees /\ \A tree \in Trees : tree # None
  BY <1>2, TreeTypes DEF IntegrationAssumption
<1>5. Together(t)
  BY DEF IInv
<1>6. CASE CreateWorkspace(t)
  <2> DEFINE w == [base |-> primary, files |-> checkout, removed |-> FALSE]
  <2>1. /\ workspace[t] = None /\ branch' = [branch EXCEPT ![t] = primary]
        /\ worktree' = [worktree EXCEPT ![t] = TreeOf(primary)]
        /\ workspace' = [workspace EXCEPT ![t] = w] /\ UNCHANGED <<primary, checkout, call, upkeep>>
    BY <1>6 DEF CreateWorkspace, calls
  <2>2. w \in Workspaces /\ ~w.removed
    BY <1>2 DEF Workspaces
  <2> HIDE DEF w
  <2>3. w # None
    BY <2>2 DEF IntegrationAssumption
  <2>4. call[t] = None
    BY <1>5, <2>1 DEF Together
  <2>5. /\ branch' \in [Tasks -> Commits \cup {None}] /\ worktree' \in [Tasks -> Trees \cup {None}]
        /\ workspace' \in [Tasks -> Workspaces \cup {None}]
        /\ branch'[t] # None /\ workspace'[t] = w
        /\ \A u \in Tasks : u # t => /\ branch'[u] = branch[u] /\ worktree'[u] = worktree[u]
                                     /\ workspace'[u] = workspace[u]
    BY <1>2, <1>4, <2>1, <2>2
  <2>6. \A u \in Tasks : u # t => WorkTree(u)' = WorkTree(u)
    BY <1>3, <2>1, <2>5, WorkSame
  <2>7. ~KeepingAt(t, "removed")'
    BY <1>1, <2>1 DEF FilesTogether, KeepingAt
  <2>8. QED
    BY <1>1, <1>2, <1>3, <2>1, <2>2, <2>3, <2>4, <2>5, <2>6, <2>7, FileStep
       DEF FilesTogether, KeepingAt, Records
<1>7. CASE MergeGit(t)
  <2>1. /\ At(t, "recorded") /\ Found(t) /\ Clean(t) /\ primary' = branch[t]
        /\ checkout' = [f \in TreeFiles |->
             IF f \in Differing(branch[t]) THEN TreeOf(branch[t])[f] ELSE checkout[f]]
        /\ UNCHANGED <<branch, worktree, workspace, upkeep>>
        /\ call' = [u \in Tasks |-> IF u = t THEN [Watched(t) EXCEPT !.at = "merged"] ELSE Watched(u)]
    BY <1>7 DEF MergeGit
  <2>2. branch[t] \in Commits
    BY <1>1, <1>2, <1>5, <2>1 DEF At, Together
  <2>3. TreeOf(branch[t]) \in Trees
    BY <2>2, TreeTypes
  <2>4. checkout' \in Trees
    BY <1>2, <2>1, <2>3 DEF Trees
  <2>5. QED
    BY <1>1, <1>2, <1>3, <2>1, <2>2, <2>4, FileStep DEF FilesTogether, KeepingAt
<1>8. CASE RefreshRebase(t)
  <2> DEFINE k == [at |-> "rebased", same |-> TRUE, target |-> primary]
             c == Rebased(branch[t], primary)
  <2>1. /\ workspace[t] # None /\ upkeep' = [upkeep EXCEPT ![t] = k]
        /\ UNCHANGED <<primary, checkout, workspace>>
        /\ call' = [u \in Tasks |-> Watched(u)]
        /\ \/ UNCHANGED <<branch, worktree>>
           \/ /\ Root(t) # "primary" /\ Found(t)
              /\ branch' = [branch EXCEPT ![t] = c]
              /\ worktree' = [worktree EXCEPT ![t] = TreeOf(c)]
    BY <1>8 DEF RefreshRebase
  <2>2. k \in Upkeeps /\ k.at = "rebased"
    BY <1>2 DEF Upkeeps
  <2> HIDE DEF k
  <2>3. /\ upkeep' \in [Tasks -> Upkeeps \cup {None}] /\ upkeep'[t] = k
        /\ \A u \in Tasks : u # t => upkeep'[u] = upkeep[u]
    BY <1>2, <2>1, <2>2
  <2>4. c \in Commits
    BY <1>1, <1>2, <2>1, Histories DEF FilesTogether
  <2> HIDE DEF c
  <2>5. TreeOf(c) \in Trees /\ c # None
    BY <2>4, TreeTypes DEF IntegrationAssumption
  <2>6. Root(t) # "primary" /\ Found(t) => worktree[t] # None
    BY DEF Found, Root, WorkRoot
  <2>7. /\ worktree' \in [Tasks -> Trees \cup {None}]
        /\ branch' \in [Tasks -> Commits \cup {None}]
        /\ \A u \in Tasks : /\ worktree[u] = None => worktree'[u] = None
                            /\ branch[u] # None => branch'[u] # None
    BY <1>2, <2>1, <2>4, <2>5, <2>6
  <2>8. \A u \in Tasks : KeepingAt(u, "removed")' => KeepingAt(u, "removed")
    BY <2>2, <2>3 DEF KeepingAt
  <2>9. QED
    BY <1>1, <1>2, <1>3, <2>1, <2>3, <2>7, <2>8, FileStep DEF FilesTogether
<1>9. CASE CleanupGit(t)
  <2> DEFINE k == [at |-> "removed"]
  <2>1. /\ workspace[t] # None /\ upkeep' = [upkeep EXCEPT ![t] = k]
        /\ worktree' = [worktree EXCEPT ![t] = None]
        /\ UNCHANGED <<primary, checkout, branch, workspace>>
        /\ call' = [u \in Tasks |-> Watched(u)]
    BY <1>5, <1>9 DEF CleanupGit, Together
  <2>2. k \in Upkeeps
    BY DEF Upkeeps
  <2> HIDE DEF k
  <2>3. /\ upkeep' \in [Tasks -> Upkeeps \cup {None}]
        /\ worktree' \in [Tasks -> Trees \cup {None}] /\ worktree'[t] = None
        /\ \A u \in Tasks : u # t => upkeep'[u] = upkeep[u] /\ worktree'[u] = worktree[u]
    BY <1>2, <2>1, <2>2
  <2>4. QED
    BY <1>1, <1>2, <1>3, <2>1, <2>3, FileStep DEF FilesTogether, KeepingAt
<1>10. CASE CleanupRecord(t)
  <2> DEFINE w == [workspace[t] EXCEPT !.removed = TRUE]
  <2>1. /\ KeepingAt(t, "removed") /\ workspace' = [workspace EXCEPT ![t] = w]
        /\ upkeep' = [upkeep EXCEPT ![t] = None] /\ UNCHANGED git
        /\ call' = [u \in Tasks |-> Watched(u)]
    BY <1>10 DEF CleanupRecord
  <2>2. worktree[t] = None /\ workspace[t] # None
    BY <1>1, <2>1 DEF FilesTogether, KeepingAt
  <2>3. w \in Workspaces
    <3>1. workspace[t] \in Workspaces
      BY <1>2, <2>2
    <3>2. QED
      BY <3>1 DEF Workspaces
  <2> HIDE DEF w
  <2>4. w # None
    BY <2>3 DEF IntegrationAssumption
  <2>5. /\ workspace' \in [Tasks -> Workspaces \cup {None}] /\ workspace'[t] = w
        /\ upkeep' \in [Tasks -> Upkeeps \cup {None}] /\ upkeep'[t] = None
        /\ \A u \in Tasks : u # t => upkeep'[u] = upkeep[u] /\ workspace'[u] = workspace[u]
    BY <1>2, <2>1, <2>3
  <2>6. QED
    BY <1>1, <1>2, <1>3, <2>1, <2>2, <2>4, <2>5, FileStep DEF FilesTogether, KeepingAt, git
<1>11. CASE CutUpkeep(t)
  <2>1. upkeep' = [upkeep EXCEPT ![t] = None] /\ UNCHANGED <<git, workspace, call>>
    BY <1>11 DEF CutUpkeep
  <2>2. /\ upkeep' \in [Tasks -> Upkeeps \cup {None}]
        /\ \A u \in Tasks : upkeep'[u] = None \/ upkeep'[u] = upkeep[u]
    BY <1>2, <2>1
  <2>3. \A u \in Tasks : WorkTree(u)' = WorkTree(u)
    BY <1>3, <2>1, WorkSame DEF git
  <2>4. QED
    BY <1>1, <1>2, <1>3, <2>1, <2>2, <2>3, FileStep DEF FilesTogether, KeepingAt, git, Records
<1>12. QED
  BY <1>6, <1>7, <1>8, <1>9, <1>10, <1>11

\* The record of a refresh: what a gate had passed on is void.
LEMMA RefreshKeeps ==
  ASSUME IntegrationAssumption, IInv, NEW t \in Tasks, RefreshRecord(t)
  PROVE  IInv'
<1> DEFINE w == [workspace[t] EXCEPT !.base = upkeep[t].target, !.files = checkout]
           r == [task[t] EXCEPT !.integration = None]
<1>1. TypeOK /\ Records /\ Measured(t) /\ \A u \in Tasks : Together(u)
  BY DEF IInv
<1>2. /\ Unlocked /\ KeepingAt(t, "rebased") /\ UNCHANGED git
      /\ task' = [task EXCEPT ![t] = r] /\ workspace' = [workspace EXCEPT ![t] = w]
      /\ call' = [call EXCEPT ![t] = Outdated(call[t])] /\ upkeep' = [upkeep EXCEPT ![t] = None]
  BY DEF RefreshRecord
<1>3. workspace[t] \in Workspaces /\ upkeep[t].target \in Commits /\ checkout \in Trees
  <2>1. upkeep[t] \in Upkeeps \cup {None} /\ workspace[t] \in Workspaces \cup {None}
        /\ checkout \in Trees
    BY <1>1, Exist
  <2>2. workspace[t] # None
    BY <1>1, <1>2 DEF Together, KeepingAt
  <2>3. QED
    BY <1>2, <2>1, <2>2 DEF KeepingAt, Upkeeps
<1>4. w \in Workspaces /\ w.removed = workspace[t].removed
  BY <1>3 DEF Workspaces
<1>5. r \in TaskRecords(t) /\ r.integration = None /\ r.state = task[t].state
  BY <1>1, TaskParts
<1> HIDE DEF w, r
<1>6. w # None /\ workspace[t] # None
  BY <1>3, <1>4 DEF IntegrationAssumption
<1>7. DOMAIN task' = Tasks /\ task'[t] = r /\ \A u \in Tasks : u # t => task'[u] = task[u]
  BY <1>1, <1>2, TaskWritten
<1>8. /\ DOMAIN call' = Tasks /\ call'[t] = Outdated(call[t])
      /\ \A u \in Tasks : u # t => call'[u] = call[u]
  BY <1>1, <1>2, CallMoved
<1>9. /\ workspace' \in [Tasks -> Workspaces \cup {None}] /\ workspace'[t] = w
      /\ upkeep' \in [Tasks -> Upkeeps \cup {None}] /\ upkeep'[t] = None
      /\ \A u \in Tasks : u # t => upkeep'[u] = upkeep[u] /\ workspace'[u] = workspace[u]
  BY <1>1, <1>2, <1>4 DEF TypeOK
<1>10. Outdated(call[t]) \in Calls(t) \cup {None}
       /\ (call[t] = None => Outdated(call[t]) = None)
  BY <1>1, CallsFollow
<1>11. TypeOK' /\ Records'
  BY <1>1, <1>2, <1>5, <1>7, <1>8, <1>9, <1>10 DEF TypeOK, Records, git
<1>12. ASSUME NEW u \in Tasks PROVE Together(u)'
  <2>1. CASE u = t
    <3>1. call'[t] # None => call[t] # None
      BY <1>8, <1>10
    <3>2. QED
      BY <1>1, <1>2, <1>4, <1>5, <1>6, <1>7, <1>9, <2>1, <3>1 DEF Together, KeepingAt, git
  <2>2. CASE u # t
    BY <1>1, <1>2, <1>7, <1>8, <1>9, <2>2 DEF Together, KeepingAt, git
  <2>3. QED
    BY <2>1, <2>2
<1>13. ASSUME NEW u \in Tasks, u # t
       PROVE  /\ Follows(u) /\ task'[u].integration = task[u].integration
              /\ Locking(u) => task'[u].proof = task[u].proof
  <2>1. WorkTree(u)' = WorkTree(u)
    BY <1>2, <1>7, <1>9, <1>13, WorkSame DEF git
  <2>2. QED
    BY <1>1, <1>7, <1>8, <1>13, <2>1, CallsFollow
<1>14. Measured(t)'
  <2>1. CASE call[t] = None
    BY <1>8, <1>10, <2>1 DEF Measured, StillAt, Still, At
  <2>2. CASE call[t] # None
    <3> DEFINE c == Outdated(call[t])
    <3>1. call[t] \in Calls(t)
      BY <1>1, <2>2 DEF TypeOK
    <3>2. /\ c.at = call[t].at /\ (c.at = "matched" => ~c.same)
          /\ c.at = "gated" => c.still = call[t].still /\ c.binding = call[t].binding
      BY <2>2, <3>1, CallOutdated
    <3>3. c.at \notin {"merged", "proven", "compared", "bound"}
      BY <1>2, <2>2, <3>2 DEF Unlocked
    <3> HIDE DEF c
    <3>4. call'[t] = c
      BY <1>8 DEF c
    <3>5. WorkFound(t)' => WorkFound(t) /\ WorkBinding(t)' = WorkBinding(t)
      <4>1. WorkFound(t)' => ~workspace[t].removed
        BY <1>4, <1>5, <1>6, <1>7, <1>9 DEF WorkFound, WorkRoot
      <4>2. ~workspace[t].removed =>
              WorkRoot(t)' = WorkRoot(t) /\ WorkTree(t)' = WorkTree(t)
        BY <1>2, <1>4, <1>6, <1>9 DEF WorkRoot, WorkTree, git
      <4>3. QED
        BY <4>1, <4>2 DEF WorkFound, WorkBinding, BindingIn
    <3>6. QED
      BY <1>1, <1>5, <1>7, <2>2, <3>2, <3>3, <3>4, <3>5 DEF Measured, StillAt, Still, At
  <2>3. QED
    BY <2>1, <2>2
<1>15. QED
  BY <1>11, <1>12, <1>13, <1>14, StepKeeps

-----------------------------------------------------------------------------
\* The theorems

\* There is no workspace yet.
LEMMA InitInvariant == IntegrationAssumption /\ Init => IInv
<1> SUFFICES ASSUME IntegrationAssumption, Init PROVE IInv
  OBVIOUS
<1>1. << >> \in Commits /\ TreeOf(<< >>) \in Trees
  <2>1. << >> \in Commits
    BY DEF Commits
  <2>2. QED
    BY <2>1, TreeTypes
<1>2. TypeOK /\ Records
  BY <1>1 DEF Init, TypeOK, Records, TaskRecords, States
<1>3. ASSUME NEW t \in Tasks PROVE Measured(t) /\ Together(t)
  BY DEF Init, Measured, StillAt, Still, At, Together, KeepingAt
<1>4. QED
  BY <1>2, <1>3 DEF IInv

\* Nothing happens.
LEMMA StutterKeeps ==
  ASSUME IntegrationAssumption, IInv, UNCHANGED vars
  PROVE  IInv'
<1>1. TypeOK /\ Records /\ \A u \in Tasks : Together(u)
  BY DEF IInv
<1>2. TypeOK' /\ Records'
  BY <1>1 DEF TypeOK, Records, vars
<1>3. ASSUME NEW u \in Tasks PROVE Together(u)'
  BY <1>1 DEF Together, KeepingAt, vars
<1>4. ASSUME NEW u \in Tasks PROVE Follows(u)
  <2>1. WorkTree(u)' = WorkTree(u) /\ call'[u] = call[u]
    BY WorkSame DEF vars
  <2>2. QED
    BY <1>1, <2>1, CallsFollow
<1>5. QED
  BY <1>2, <1>3, <1>4, StepKeeps DEF vars

\* Every step keeps the invariant.
LEMMA NextInvariant == IntegrationAssumption /\ IInv /\ [Next]_vars => IInv'
<1> SUFFICES ASSUME IntegrationAssumption, IInv, [Next]_vars PROVE IInv'
  OBVIOUS
<1>1. CASE UNCHANGED vars
  BY <1>1, StutterKeeps
<1>2. CASE \/ \E f \in TreeFiles, data \in Contents : OwnerEdits(f, data)
           \/ OwnerCommits
  BY <1>2, EditsKeep
<1>3. ASSUME NEW t \in Tasks,
             \/ \E f \in TreeFiles, data \in Contents : Edit(t, f, data)
             \/ CommitEdit(t) \/ Reset(t)
      PROVE  IInv'
  BY <1>3, EditsKeep
<1>4. ASSUME NEW t \in Tasks,
             \/ CreateWorkspace(t) \/ MergeGit(t) \/ RefreshRebase(t)
             \/ CleanupGit(t) \/ CleanupRecord(t) \/ CutUpkeep(t)
      PROVE  IInv'
  BY <1>4, GitKeeps
<1>5. ASSUME NEW t \in Tasks,
             \/ Claim(t) \/ Release(t) \/ Invalidate(t) \/ Ready(t)
             \/ \E passed \in BOOLEAN : Verify(t, passed)
      PROVE  IInv'
  BY <1>5, WritesKeep
<1>6. ASSUME NEW t \in Tasks,
             \/ GateExamine(t) \/ GateBind(t) \/ RecoverProve(t) \/ RecoverRead(t)
             \/ RecoverMatch(t) \/ Cut(t)
             \/ CompleteProve(t) \/ CompleteCompare(t) \/ CompleteBind(t)
      PROVE  IInv'
  BY <1>6, LooksKeep
<1>7. ASSUME NEW t \in Tasks,
             GateRecord(t) \/ MergeRecord(t) \/ MergeRecover(t) \/ Complete(t)
      PROVE  IInv'
  BY <1>7, RecordsKeep
<1>8. ASSUME NEW t \in Tasks, RefreshRecord(t) PROVE IInv'
  BY <1>8, RefreshKeeps
<1>9. QED
  BY <1>1, <1>2, <1>3, <1>4, <1>5, <1>6, <1>7, <1>8 DEF Next

\* What calls know of trees and records stays true, whoever edits, resets, is cut or writes.
THEOREM CallsKnow ==
  ASSUME IntegrationAssumption
  PROVE  Spec => []IInv
<1>1. IInv /\ [Next]_vars => IInv'
  BY NextInvariant
<1>2. Init => IInv
  BY InitInvariant
<1>3. QED
  BY <1>1, <1>2, PTL DEF Spec

\* Commits, trees and records keep their types.
THEOREM IntegrationTypes ==
  ASSUME IntegrationAssumption
  PROVE  Spec => []TypeOK
<1>1. IInv => TypeOK
  BY DEF IInv
<1>2. QED
  BY <1>1, CallsKnow, PTL

\* The merge that is recorded, or recovered, is of the tree the gate measured.
LEMMA MergesAsGated ==
  ASSUME IntegrationAssumption, IInv, [Next]_vars, NEW u \in Tasks,
         task'[u].integration # task[u].integration, Merged(u)', call[u].still
  PROVE  BindingIn(u, task'[u].integration.merged) = task'[u].integration.binding
<1>1. TypeOK /\ Records /\ \A t \in Tasks : task[t] \in TaskRecords(t)
  BY DEF IInv, TypeOK
<1>2. Measured(u) /\ Together(u)
  BY DEF IInv
<1>3. ASSUME NEW t \in Tasks, NEW r, r.integration = task[t].integration,
             task' = [task EXCEPT ![t] = r]
      PROVE  FALSE
  BY <1>1, <1>3 DEF Records
<1>4. ASSUME NEW t \in Tasks, NEW s \in States,
             task' = [task EXCEPT ![t] = [task[t] EXCEPT !.state = s]]
      PROVE  FALSE
  BY <1>1, <1>3, <1>4, TaskParts
<1>5. ASSUME NEW t \in Tasks, Claim(t) \/ Release(t) \/ Complete(t) \/ Invalidate(t) \/ Ready(t)
      PROVE  FALSE
  BY <1>4, <1>5 DEF Claim, Release, Complete, Invalidate, Ready, WriteTask, States
<1>6. ASSUME NEW t \in Tasks, NEW passed \in BOOLEAN, Verify(t, passed)
      PROVE  FALSE
  <2> DEFINE p == IF passed THEN Binding(t) ELSE None
  <2>1. task' = [task EXCEPT ![t] = [task[t] EXCEPT !.state = "VERIFYING", !.proof = p]]
    BY <1>6 DEF Verify, WriteTask
  <2> HIDE DEF p
  <2>2. [task[t] EXCEPT !.state = "VERIFYING", !.proof = p].integration = task[t].integration
    BY <1>1 DEF TaskRecords
  <2>3. QED
    BY <1>3, <2>1, <2>2
<1>7. ASSUME NEW t \in Tasks, NEW i \in Integrations(t) \cup {None},
             task' = [task EXCEPT ![t] = [task[t] EXCEPT !.integration = i]]
      PROVE  u = t /\ task'[u].integration = i
  <2>1. [task[t] EXCEPT !.integration = i].integration = i
    BY <1>1, TaskParts
  <2>2. QED
    BY <1>1, <1>7, <2>1 DEF Records
<1>8. ASSUME NEW t \in Tasks, RefreshRecord(t) PROVE FALSE
  <2>1. task' = [task EXCEPT ![t] = [task[t] EXCEPT !.integration = None]]
    BY <1>8 DEF RefreshRecord
  <2>2. QED
    BY <1>7, <2>1 DEF Merged
<1>9. ASSUME NEW t \in Tasks, GateRecord(t) PROVE FALSE
  <2> DEFINE i == [binding |-> call[t].binding, merged |-> None]
  <2>1. task' = [task EXCEPT ![t] = [task[t] EXCEPT !.integration = i]]
    BY <1>9 DEF GateRecord
  <2>2. call[t].binding \in Bindings(t)
    BY <1>1, <1>9 DEF GateRecord, At, TypeOK, Calls
  <2>3. i \in Integrations(t) /\ i.merged = None
    BY <2>2 DEF Integrations
  <2> HIDE DEF i
  <2>4. QED
    BY <1>7, <2>1, <2>3 DEF Merged
<1>10. PICK t \in Tasks : MergeRecord(t) \/ MergeRecover(t)
  BY <1>5, <1>6, <1>8, <1>9 DEF Next, vars, OwnerEdits, OwnerCommits, CreateWorkspace, Edit,
     CommitEdit, Reset, GateExamine, GateBind, MergeGit, RecoverProve, RecoverRead, RecoverMatch,
     Cut, RefreshRebase, CleanupGit, CleanupRecord, CutUpkeep, CompleteProve, CompleteCompare,
     CompleteBind
<1>11. PICK tree \in Trees :
         /\ task' = [task EXCEPT ![t] =
              [task[t] EXCEPT !.integration = [task[t].integration EXCEPT !.merged = tree]]]
         /\ task[t].integration # None /\ tree = Tree(t) /\ Found(t)
         /\ call[t] # None /\ call[t].at \in {"merged", "matched"}
         /\ call[t].at = "matched" => call[t].same
  <2>1. CASE MergeRecord(t)
    <3>1. checkout \in Trees
      BY <1>1 DEF TypeOK
    <3>2. QED
      BY <2>1, <3>1 DEF MergeRecord, At
  <2>2. CASE MergeRecover(t)
    <3>1. call[t].tree \in Trees
      BY <1>1, <2>2 DEF MergeRecover, At, TypeOK, Calls
    <3>2. task[t].integration # None
      BY <2>2 DEF MergeRecover, At, IInv, Measured
    <3>3. QED
      BY <2>2, <3>1, <3>2 DEF MergeRecover, At
  <2>3. QED
    BY <1>10, <2>1, <2>2
<1> DEFINE i == [task[t].integration EXCEPT !.merged = tree]
<1>12. i \in Integrations(t) /\ i.merged = tree /\ i.binding = task[t].integration.binding
  <2>1. task[t].integration \in Integrations(t)
    BY <1>1, <1>11, TaskParts
  <2>2. QED
    BY <2>1 DEF Integrations
<1> HIDE DEF i
<1>13. u = t /\ task'[u].integration = i
  BY <1>7, <1>11, <1>12 DEF i
<1>14. Tree(t) = WorkTree(t) /\ WorkFound(t)
  BY <1>2, <1>11, <1>13, OneRoot DEF Together
<1>15. GatedOn(t)
  BY <1>2, <1>11, <1>13, <1>14 DEF Measured, StillAt, Still
<1>16. QED
  BY <1>11, <1>12, <1>13, <1>14, <1>15 DEF GatedOn, WorkBinding

\* What is recorded as merged is what the gate was passed on, also where the merge is
\* recovered after git and the database were cut apart (control/workspaces.py,
\* merge_workspace).
THEOREM MergedAsGatedAlways ==
  ASSUME IntegrationAssumption
  PROVE  Spec => MergedAsGated
<1>1. IInv /\ [Next]_vars =>
        \A t \in Tasks :
          task'[t].integration # task[t].integration /\ Merged(t)' /\ call[t].still =>
            BindingIn(t, task'[t].integration.merged) = task'[t].integration.binding
  BY MergesAsGated
<1>2. QED
  BY <1>1, CallsKnow, PTL DEF Spec, MergedAsGated

\* Only complete() makes a task COMPLETED, and there the proof is bound to the primary tree.
LEMMA CompletesInPrimary ==
  ASSUME IntegrationAssumption, IInv, [Next]_vars, NEW u \in Tasks,
         task[u].state # "COMPLETED", task'[u].state = "COMPLETED", call[u].still
  PROVE  task[u].proof = BindingIn(u, checkout)
<1>1. TypeOK /\ Records /\ \A t \in Tasks : task[t] \in TaskRecords(t)
  BY DEF IInv, TypeOK
<1>2. ASSUME NEW t \in Tasks, NEW r, r.state # "COMPLETED" \/ r.state = task[t].state,
             task' = [task EXCEPT ![t] = r]
      PROVE  FALSE
  BY <1>1, <1>2 DEF Records
<1>3. ASSUME NEW t \in Tasks, NEW s \in States \ {"COMPLETED"},
             task' = [task EXCEPT ![t] = [task[t] EXCEPT !.state = s]]
      PROVE  FALSE
  BY <1>1, <1>2, <1>3, TaskParts
<1>4. ASSUME NEW t \in Tasks, Claim(t) \/ Release(t) \/ Invalidate(t) \/ Ready(t) PROVE FALSE
  BY <1>3, <1>4 DEF Claim, Release, Invalidate, Ready, WriteTask, States
<1>5. ASSUME NEW t \in Tasks, NEW passed \in BOOLEAN, Verify(t, passed) PROVE FALSE
  <2> DEFINE p == IF passed THEN Binding(t) ELSE None
  <2>1. task' = [task EXCEPT ![t] = [task[t] EXCEPT !.state = "VERIFYING", !.proof = p]]
    BY <1>5 DEF Verify, WriteTask
  <2> HIDE DEF p
  <2>2. [task[t] EXCEPT !.state = "VERIFYING", !.proof = p].state = "VERIFYING"
    BY <1>1 DEF TaskRecords
  <2>3. QED
    BY <1>2, <2>1, <2>2
<1>6. ASSUME NEW t \in Tasks,
             GateRecord(t) \/ MergeRecord(t) \/ MergeRecover(t) \/ RefreshRecord(t)
      PROVE  FALSE
  <2>1. ASSUME NEW i PROVE [task[t] EXCEPT !.integration = i].state = task[t].state
    BY <1>1 DEF TaskRecords
  <2>2. \E i : task' = [task EXCEPT ![t] = [task[t] EXCEPT !.integration = i]]
    BY <1>6 DEF GateRecord, MergeRecord, MergeRecover, RefreshRecord
  <2>3. QED
    BY <1>2, <2>1, <2>2
<1>7. PICK t \in Tasks : Complete(t)
  BY <1>4, <1>5, <1>6 DEF Next, vars, OwnerEdits, OwnerCommits, CreateWorkspace, Edit,
     CommitEdit, Reset, GateExamine, GateBind, MergeGit, RecoverProve, RecoverRead, RecoverMatch,
     Cut, RefreshRebase, CleanupGit, CleanupRecord, CutUpkeep, CompleteProve, CompleteCompare,
     CompleteBind
<1>8. u = t
  BY <1>1, <1>7 DEF Complete, Records
<1>9. Still(t, {"bound"}) /\ Held(t)
  BY <1>7, <1>8 DEF Complete, At, Still
<1>10. task[t].proof = WorkBinding(t) /\ task[t].integration.binding = WorkBinding(t)
  BY <1>9 DEF IInv, Measured, Still, StillAt, GatedOn
<1>11. QED
  BY <1>8, <1>9, <1>10 DEF Held

\* A task completes only on what the primary repository holds (control/verification.py,
\* complete).
THEOREM CompletedInPrimaryAlways ==
  ASSUME IntegrationAssumption
  PROVE  Spec => CompletedInPrimary
<1>1. IInv /\ [Next]_vars =>
        \A t \in Tasks :
          task[t].state # "COMPLETED" /\ task'[t].state = "COMPLETED" /\ call[t].still =>
            task[t].proof = BindingIn(t, checkout)
  BY CompletesInPrimary
<1>2. QED
  BY <1>1, CallsKnow, PTL DEF Spec, CompletedInPrimary
=============================================================================
