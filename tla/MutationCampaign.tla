-------------------------- MODULE MutationCampaign --------------------------
(***************************************************************************)
(* The mutation campaigns over the assurance engine                        *)
(* (scripts/assurance_mutation.py).  A campaign gives every mutant to a    *)
(* worker with a copy of the project, which runs the tests on it; its      *)
(* report can be reviewed (dispose), and resumed by a later campaign that  *)
(* runs only what the report leaves alive and counts the rest as killed.   *)
(* The project is edited all the while: a campaign reads the sources to    *)
(* plan, to check the report it resumes, for each copy, and once more for  *)
(* the digest of its own report.                                           *)
(*                                                                         *)
(* Every version of the sources has as many mutants, each known by its     *)
(* position; several can share one.  Which of them the tests notice is     *)
(* left open, so that tests can be added, weakened and flaky.              *)
(***************************************************************************)
EXTENDS Integers, FiniteSets

CONSTANTS Mutants,
          Position,   \* mutant -> where it is
          Versions,   \* contents of the modules under test
          Copies,     \* the copies of the project, one for each worker
          MaxEvents,  \* campaigns, changes and reviews (bound)
          None        \* absent record, absent digest

CampaignAssumption ==
  /\ MaxEvents \in Nat /\ Mutants # {} /\ IsFiniteSet(Mutants) /\ IsFiniteSet(Versions)
  /\ None \notin Mutants /\ None \notin Versions

VARIABLES
  sources,   \* the modules under test, as they are
  reviewed,  \* position -> how many survivors a reviewed disposition accepts
  campaign,  \* the campaign in progress, or None
  copy,      \* copy -> the mutants its files hold
  running,   \* copy -> the mutant a worker tests in it, or None
  report,    \* the last report, or None
  measured,  \* <<version, mutant>>: seen killed, alone in a copy of that version
  events

vars == <<sources, reviewed, campaign, copy, running, report, measured, events>>

Positions == {Position[m] : m \in Mutants}

\* `evaluated`: the mutants it ran (its counts by module).  `whole` (for the properties):
\* every read of the sources found the same version, and so in the campaigns it resumes; none
\* of these was limited, had been reviewed or had no digest; and it was not reviewed twice.
Report == [sources: Versions \cup {None}, mutants: Nat, killed: Nat,
           evaluated: SUBSET Mutants, unresolved: SUBSET Mutants, survived: SUBSET Mutants,
           accepted: SUBSET Mutants, partial: BOOLEAN, status: {"PASS", "FAIL"},
           whole: BOOLEAN]

TypeOK ==
  /\ sources \in Versions /\ events \in 0..MaxEvents
  /\ measured \subseteq Versions \X Mutants
  /\ reviewed \in [Positions -> Nat]
  /\ copy \in [Copies -> SUBSET Mutants]
  /\ running \in [Copies -> Mutants \cup {None}]
  /\ report \in Report \cup {None}

\* A full report from before digests were recorded.
Undigested(unresolved, survived) ==
  [sources |-> None, mutants |-> Cardinality(Mutants),
   killed |-> Cardinality(Mutants \ unresolved), evaluated |-> Mutants,
   unresolved |-> unresolved, survived |-> survived, accepted |-> {}, partial |-> FALSE,
   status |-> IF unresolved = {} THEN "PASS" ELSE "FAIL", whole |-> FALSE]

Init ==
  /\ sources \in Versions
  /\ reviewed = [k \in Positions |-> 0]
  /\ campaign = None
  /\ copy = [w \in Copies |-> {}]
  /\ running = [w \in Copies |-> None]
  /\ report \in {None} \cup
       UNION {{Undigested(unresolved, survived) : survived \in SUBSET unresolved} :
                unresolved \in SUBSET Mutants}
  /\ measured = {}
  /\ events = 0

Event == events < MaxEvents /\ events' = events + 1

-----------------------------------------------------------------------------
\* A campaign (run)

\* Of the report it resumes the mutants of the sources it finds are planned.
Plan(previous) ==
  /\ Event /\ campaign = None
  /\ campaign' = [phase |-> "planned", previous |-> previous, of |-> sources, same |-> TRUE,
                  copied |-> {}, work |-> {}, todo |-> {}, results |-> {}, partial |-> FALSE]
  /\ copy' = [w \in Copies |-> {}]
  /\ running' = [w \in Copies |-> None]
  /\ UNCHANGED <<sources, reviewed, report, measured>>

\* The sources are read again, perhaps after an edit.
SameStill == campaign.same /\ sources = campaign.of

\* Faulty variant: any report over as many mutants may be resumed.
SameNumber(r) == r.mutants = Cardinality(Mutants)

\* The report must be over the same mutants: by its digest or, when it has none, by as many
\* run in every module.
Resumable(r) ==
  /\ r.mutants = Cardinality(Mutants)
  /\ IF r.sources # None THEN r.sources = sources ELSE r.evaluated = Mutants

\* The mutants at the positions a report leaves alive.
LeftAlive(r) == {m \in Mutants : Position[m] \in {Position[n] : n \in r.unresolved}}

Planned(previous) == IF previous = None THEN Mutants ELSE LeftAlive(previous)

\* `chosen`: what --only and --limit leave of the work.
Choose(chosen) ==
  /\ campaign # None /\ campaign.phase = "planned"
  /\ campaign.previous # None => Resumable(campaign.previous)
  /\ chosen \subseteq Planned(campaign.previous)
  /\ campaign' = [campaign EXCEPT
       !.phase = "copying", !.work = chosen, !.todo = chosen,
       !.partial = (chosen # Planned(campaign.previous)), !.same = SameStill]
  /\ UNCHANGED <<sources, reviewed, copy, running, report, measured, events>>

\* A worker's copy is made of the project as it is.
CopyProject(w) ==
  /\ campaign # None /\ campaign.phase = "copying" /\ w \notin campaign.copied
  /\ campaign' = [campaign EXCEPT !.copied = @ \cup {w}, !.same = SameStill]
  /\ UNCHANGED <<sources, reviewed, copy, running, report, measured, events>>

\* The unmutated modules, rebuilt in the first copy, pass and are copied there again.
Baseline ==
  /\ campaign # None /\ campaign.phase = "copying" /\ campaign.copied = Copies
  /\ campaign' = [campaign EXCEPT !.phase = "testing", !.same = SameStill]
  /\ UNCHANGED <<sources, reviewed, copy, running, report, measured, events>>

\* They do not pass: the report has nothing to resume.
BaselineFails ==
  /\ campaign # None /\ campaign.phase = "copying" /\ campaign.copied = Copies
  /\ campaign' = None /\ report' = None
  /\ UNCHANGED <<sources, reviewed, copy, running, measured, events>>

\* A worker takes a copy nobody uses and writes the mutant into it.
Take(w, m) ==
  /\ campaign # None /\ campaign.phase = "testing" /\ m \in campaign.todo
  /\ running[w] = None
  /\ campaign' = [campaign EXCEPT !.todo = @ \ {m}]
  /\ copy' = [copy EXCEPT ![w] = @ \cup {m}]
  /\ running' = [running EXCEPT ![w] = m]
  /\ UNCHANGED <<sources, reviewed, report, measured, events>>

\* Faulty variant: the original is written back only when the tests end in time.
Restored(w, outcome) == IF outcome = "TIMEOUT" THEN copy[w] ELSE copy[w] \ {running[w]}

\* The original is written back however the tests end.
WrittenBack(w, outcome) == copy[w] \ {running[w]}

\* The tests fail, pass or run out of time.
Judge(w, outcome) ==
  /\ campaign # None /\ running[w] # None
  /\ campaign' = [campaign EXCEPT !.results = @ \cup {<<running[w], outcome>>}]
  /\ copy' = [copy EXCEPT ![w] = WrittenBack(w, outcome)]
  /\ running' = [running EXCEPT ![w] = None]
  /\ measured' = IF outcome = "KILLED" /\ copy[w] = {running[w]} /\ campaign.same
                 THEN measured \cup {<<campaign.of, running[w]>>} ELSE measured
  /\ UNCHANGED <<sources, reviewed, report, events>>

With(outcome) == {r[1] : r \in {q \in campaign.results : q[2] = outcome}}

\* Resumed, the mutants that were not run again count as killed.
Carried ==
  IF campaign.previous # None THEN Cardinality(Mutants) - Cardinality(campaign.work) ELSE 0

\* The digest of the report is of the sources as they are now.
Finish ==
  /\ campaign # None /\ campaign.phase = "testing"
  /\ campaign.todo = {} /\ \A w \in Copies : running[w] = None
  /\ LET unresolved == With("SURVIVED") \cup With("TIMEOUT") IN
     report' = [sources |-> sources, mutants |-> Cardinality(campaign.work) + Carried,
                killed |-> Cardinality(With("KILLED")) + Carried,
                evaluated |-> campaign.work,
                unresolved |-> unresolved, survived |-> With("SURVIVED"), accepted |-> {},
                partial |-> campaign.partial,
                status |-> IF unresolved = {} THEN "PASS" ELSE "FAIL",
                whole |-> /\ SameStill
                          /\ campaign.previous # None =>
                               /\ campaign.previous.whole /\ campaign.previous.accepted = {}
                               /\ ~campaign.partial]
  /\ campaign' = None
  /\ UNCHANGED <<sources, reviewed, copy, running, measured, events>>

\* Killed, or the report it resumes is refused: what was measured is in the journal, and
\* nothing reads that back.
Interrupt ==
  /\ campaign # None
  /\ campaign' = None
  /\ UNCHANGED <<sources, reviewed, copy, running, report, measured, events>>

-----------------------------------------------------------------------------
\* Review (dispose)

\* Survivors, never timeouts, are subtracted: of each position as many as its disposition
\* says, and one that finds fewer is stale.
Dispose ==
  /\ Event /\ report # None /\ report.sources = sources
  /\ \E accepted \in SUBSET (report.unresolved \cap report.survived) :
       LET Of(set, k) == Cardinality({m \in set : Position[m] = k})
           matched == [k \in Positions |->
             LET n == Of(report.unresolved \cap report.survived, k)
             IN IF n < reviewed[k] THEN n ELSE reviewed[k]]
       IN /\ \A k \in Positions : Of(accepted, k) = matched[k]
          /\ report' = [report EXCEPT
               !.unresolved = @ \ accepted, !.accepted = accepted,
               !.whole = @ /\ report.accepted = {},
               !.status = IF report.unresolved \subseteq accepted /\ matched = reviewed
                          THEN "PASS" ELSE "FAIL"]
  /\ UNCHANGED <<sources, reviewed, campaign, copy, running, measured>>

\* A reviewer changes a disposition.
Review(k, n) ==
  /\ Event /\ reviewed[k] # n
  /\ reviewed' = [reviewed EXCEPT ![k] = n]
  /\ UNCHANGED <<sources, campaign, copy, running, report, measured>>

\* The sources are edited, or put back, at any time.
ChangeSources(version) ==
  /\ Event /\ sources # version
  /\ sources' = version
  /\ UNCHANGED <<reviewed, campaign, copy, running, report, measured>>

-----------------------------------------------------------------------------
Next ==
  \/ \E previous \in {None, report} : Plan(previous)
  \/ \E chosen \in SUBSET Mutants : Choose(chosen)
  \/ Baseline \/ BaselineFails
  \/ \E w \in Copies :
       \/ CopyProject(w)
       \/ \E m \in Mutants : Take(w, m)
       \/ \E outcome \in {"KILLED", "SURVIVED", "TIMEOUT"} : Judge(w, outcome)
  \/ Finish \/ Interrupt \/ Dispose
  \/ \E k \in Positions, n \in 0..2 : Review(k, n)
  \/ \E version \in Versions : ChangeSources(version)

Spec == Init /\ [][Next]_vars

-----------------------------------------------------------------------------
\* Invariants

\* The mutants seen killed in copies of a version.
MeasuredOn(version) == {m \in Mutants : <<version, m>> \in measured}

\* A report counts as killed no more mutants than tests were seen to kill on the sources of
\* its digest, each alone in its copy, and passes only if every other one was accepted:
\* neither workers side by side, nor edits before, between and after campaigns, nor a resumed
\* campaign make up kills, as long as the report is whole.
ReportsMeasured ==
  report # None /\ report.whole =>
    /\ report.killed <= Cardinality(MeasuredOn(report.sources))
    /\ report.status = "PASS" /\ ~report.partial =>
         Cardinality(MeasuredOn(report.sources)) + Cardinality(report.accepted)
           >= Cardinality(Mutants)

-----------------------------------------------------------------------------
\* What the script says

\* "the carried-over kills are exactly those at other positions" than those a previous
\* campaign left alive: every kill of a report was measured.
CarriedKillsMeasured ==
  report # None /\ report.sources # None =>
    report.killed <= Cardinality(MeasuredOn(report.sources))

\* "Each disposition must match exactly as many survivors as it says": a report that passes
\* accounts for each mutant as killed or accepted.
PassAccountsForAll ==
  report # None /\ report.status = "PASS" /\ ~report.partial =>
    report.killed + Cardinality(report.accepted) = report.mutants
=============================================================================
