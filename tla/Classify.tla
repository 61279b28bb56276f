------------------------------ MODULE Classify ------------------------------
(***************************************************************************)
(* The COFOG loader (`orchestrator classify`): each invocation reads the   *)
(* facts in scope and their assignments, plans what to append, appends it  *)
(* in a second transaction, and reconciles the resulting view in two more  *)
(* statements, while documents are ingested, reviewers assign codes by     *)
(* hand and other invocations of the loader run.                           *)
(***************************************************************************)
EXTENDS Views, Sequences

CONSTANTS
    Documents,      \* what may be ingested: [facts, asg], its assignments by the source
    Scope,          \* the jurisdiction, year and flow the loader is run for
    Loaders,        \* the invocations of the loader
    Mappings,       \* the mapping files: sets of entries [scheme, category, code, basis]
    HumanCodes,     \* COFOG codes reviewers assign
    MaxHuman        \* bound: rows reviewers append

\* "unmapped" as a cofogCode, and the target scheme.
UnmappedCode == 0
Cofog == "cofog"

Entry == [scheme : {"acq", "dept"}, category : Nat \ {0}, code : Nat, basis : STRING]

FactPool == UNION {d.facts : d \in Documents}
SourceRows == UNION {d.asg : d \in Documents}
FactIds == {f.id : f \in FactPool}
Bases == {e.basis : e \in UNION Mappings} \cup {a.basis : a \in SourceRows} \cup {"reviewer"}

SchemeOrder(s) == IF s = "acq" THEN 1 ELSE 2

ASSUME FactPoolAssumption ==
    /\ IsFiniteSet(FactPool)
    /\ \A f, g \in FactPool : f.id = g.id => f = g
    /\ \A f \in FactPool : f.amount \in Int
ASSUME SourceAssumption ==
    /\ IsFiniteSet(SourceRows)
    /\ SourceRows \subseteq [fact : FactIds, scheme : {"acq", "dept"}, code : Nat \ {0},
                             by : {"source"}, basis : STRING, version : {1}]
    /\ \A d \in Documents : \A a \in d.asg : \E f \in d.facts : f.id = a.fact
ASSUME MappingAssumption ==
    \A m \in Mappings :
        /\ m \subseteq Entry
        /\ \A d, e \in m : d.scheme = e.scheme /\ d.category = e.category => d = e
ASSUME MaxHumanAssumption == MaxHuman \in Nat
ASSUME HumanCodesAssumption == HumanCodes \subseteq Nat \ {0}

VARIABLES
    facts,      \* committed fiscal_fact rows
    asg,        \* committed classification_assignment rows
    pc,         \* pc[l]: how far an invocation has come
    mapping,    \* mapping[l]: the file it was given
    plan,       \* plan[l]: the rows it decided to append
    counted,    \* counted[l]: reconcile's independent count and sum
    outcome,    \* outcome[l]: how it ended: ok, or exit 1 on an error or a mismatch
    clean,      \* history: nothing was written since l planned, but by l
    overtaken   \* history: the rule rows, planned or committed, whose fact the source
                \* has coded again since a loader decided on them

vars == <<facts, asg, pc, mapping, plan, counted, outcome, clean, overtaken>>

-----------------------------------------------------------------------------
InFact(f) == {a \in asg : a.fact = f.id}

\* Mutant of Candidates: entries reviewed as unmapped are assigned too.
CandidatesUnmappedToo(f, m) ==
    {e \in m : \E a \in InFact(f) : a.scheme = e.scheme /\ a.code = e.category}

\* The mapped entries that match a source assignment of f, of any version.
Candidates(f, m) ==
    {e \in m : e.code # UnmappedCode /\
               \E a \in InFact(f) : a.scheme = e.scheme /\ a.code = e.category}

\* The first candidate ORDER BY src_scheme, source_code.
Winner(C) ==
    CHOOSE e \in C : \A d \in C :
        \/ SchemeOrder(e.scheme) < SchemeOrder(d.scheme)
        \/ e.scheme = d.scheme /\ e.category <= d.category

\* Mutant of Ambiguous: the first candidate wins whatever the others say.
AmbiguousNever(C) == FALSE

Ambiguous(C) == \E d, e \in C : d.code # e.code

Assigned(f) == Versions(asg, f, Cofog) # {}

LatestVersion(f) == IF Assigned(f) THEN Latest(asg, f, Cofog).version ELSE 0

\* Mutant of LatestMatches: no comparison with the latest row.
LatestMatchesNever(f, w) == FALSE

LatestMatches(f, w) ==
    Assigned(f) /\ Latest(asg, f, Cofog).code = w.code /\ Latest(asg, f, Cofog).basis = w.basis

LatestIsHuman(f) == Assigned(f) /\ Latest(asg, f, Cofog).by = "human"

\* Mutant of RuleRow: every assignment is version 1.
RuleRowVersionOne(f, w) ==
    [fact |-> f.id, scheme |-> Cofog, code |-> w.code, by |-> "rule", basis |-> w.basis, version |-> 1]

RuleRow(f, w) ==
    [fact |-> f.id, scheme |-> Cofog, code |-> w.code, by |-> "rule", basis |-> w.basis,
     version |-> LatestVersion(f) + 1]

\* Facts the loader appends a row for: they have a candidate, all candidates
\* agree, and the latest row is neither a reviewer's nor already the winner's.
ToAssign(m) ==
    {f \in InScope(facts, Scope) :
        LET C == Candidates(f, m)
        IN  C # {} /\ ~ Ambiguous(C) /\ ~ LatestIsHuman(f) /\ ~ LatestMatches(f, Winner(C))}

BuildPlan(m) == {RuleRow(f, Winner(Candidates(f, m))) : f \in ToAssign(m)}

\* assignment_id (D21): a row with the same fact, scheme, code and version is
\* the same row, whatever its basis.
AssignmentID(a) == <<a.fact, a.scheme, a.code, a.version>>

\* INSERT ... ON CONFLICT (assignment_id) DO NOTHING.
InsertNew(A, P) == A \cup {p \in P : \A a \in A : AssignmentID(a) # AssignmentID(p)}

CountAndSum == [count |-> Cardinality(InScope(facts, Scope)), amount |-> AmountOf(InScope(facts, Scope))]

\* Reconciliation.Reconciles: the view against the count and sum read before it.
Reconciles(c) ==
    LET v == ViewByScheme(facts, asg, Scope, Cofog)
        mapped == SumFunction([n \in DOMAIN v.nodes \ {Unclassified} |-> v.nodes[n].amount])
    IN  /\ v.total = c.amount
        /\ v.count = c.count
        /\ mapped + v.unmapped = v.total

-----------------------------------------------------------------------------
NothingCounted == [count |-> 0, amount |-> 0]

Init ==
    /\ facts = {}
    /\ asg = {}
    /\ pc = [l \in Loaders |-> "idle"]
    /\ mapping = [l \in Loaders |-> {}]
    /\ plan = [l \in Loaders |-> {}]
    /\ counted = [l \in Loaders |-> NothingCounted]
    /\ outcome = [l \in Loaders |-> "none"]
    /\ clean = [l \in Loaders |-> FALSE]
    /\ overtaken = {}

Goto(l, stage) == pc' = [pc EXCEPT ![l] = stage]

WrittenBy(W) == clean' = [l \in Loaders |-> clean[l] /\ l \in W]

\* The rows a loader has appended or is about to append.
RuleRows == {a \in asg : a.by = "rule"} \cup UNION {plan[l] : l \in Loaders}

\* An ingest transaction commits a document (Ingest): facts and assignments are
\* upserted each under a key of its own, so a document that restates a stored fact
\* under another source code adds an assignment to it.  One that brings nothing new
\* is a stuttering step.
Publish(d) ==
    /\ \A f \in d.facts : f.supersedes = Null \/ \E g \in facts \cup d.facts : g.id = f.supersedes
    /\ facts' = facts \cup d.facts
    /\ asg' = InsertNew(asg, d.asg)
    /\ <<facts, asg>>' # <<facts, asg>>
    /\ overtaken' = overtaken \cup {p \in RuleRows : \E a \in asg' \ asg : a.fact = p.fact}
    /\ WrittenBy({})
    /\ UNCHANGED <<pc, mapping, plan, counted, outcome>>

\* A reviewer appends a row above the fact's latest version.
Review(f, c) ==
    /\ Cardinality({a \in asg : a.by = "human"}) < MaxHuman
    /\ asg' = asg \cup {[fact |-> f.id, scheme |-> Cofog, code |-> c, by |-> "human",
                         basis |-> "reviewer", version |-> LatestVersion(f) + 1]}
    /\ WrittenBy({})
    /\ UNCHANGED <<facts, pc, mapping, plan, counted, outcome, overtaken>>

\* The loader is started with a mapping file.
Start(l) ==
    /\ pc[l] = "idle"
    /\ \E m \in Mappings : mapping' = [mapping EXCEPT ![l] = m]
    /\ Goto(l, "plan")
    /\ UNCHANGED <<facts, asg, plan, counted, outcome, clean, overtaken>>

\* buildPlan: one statement reads facts and assignments.  A dry run, or an
\* empty plan, goes straight to reconciliation.
Plan(l) ==
    /\ pc[l] = "plan"
    /\ \E dryRun \in BOOLEAN :
          LET P == BuildPlan(mapping[l])
          IN  /\ plan' = [plan EXCEPT ![l] = IF dryRun THEN {} ELSE P]
              /\ Goto(l, IF dryRun \/ P = {} THEN "count" ELSE "insert")
              /\ clean' = [clean EXCEPT ![l] = ~ dryRun]
              /\ overtaken' = IF dryRun THEN overtaken ELSE overtaken \ P
    /\ UNCHANGED <<facts, asg, mapping, counted, outcome>>

\* The process exits, and what it had read is gone.
Ends(l, o) ==
    /\ Goto(l, "done")
    /\ outcome' = [outcome EXCEPT ![l] = o]
    /\ mapping' = [mapping EXCEPT ![l] = {}]
    /\ plan' = [plan EXCEPT ![l] = {}]
    /\ counted' = [counted EXCEPT ![l] = NothingCounted]

\* insertPlan: the planned rows in one transaction; when the reply to COMMIT is
\* lost they are there and the invocation still fails.
Insert(l) ==
    /\ pc[l] = "insert"
    /\ asg' = InsertNew(asg, plan[l])
    /\ WrittenBy({l})
    /\ \/ /\ Goto(l, "count")
          /\ plan' = [plan EXCEPT ![l] = {}]
          /\ UNCHANGED <<mapping, counted, outcome>>
       \/ Ends(l, "error")
    /\ UNCHANGED <<facts, overtaken>>

\* reconcile, first statement: count and sum of the current facts.
CountFacts(l) ==
    /\ pc[l] = "count"
    /\ counted' = [counted EXCEPT ![l] = CountAndSum]
    /\ Goto(l, "view")
    /\ UNCHANGED <<facts, asg, mapping, plan, outcome, clean, overtaken>>

\* reconcile, second statement: the view; classifyMain exits 1 on a mismatch.
ReadView(l) ==
    /\ pc[l] = "view"
    /\ Ends(l, IF Reconciles(counted[l]) THEN "ok" ELSE "mismatch")
    /\ clean' = [clean EXCEPT ![l] = FALSE]
    /\ UNCHANGED <<facts, asg, overtaken>>

\* A statement fails, or the process is killed, before it takes effect.
Fail(l) ==
    /\ pc[l] \in {"plan", "insert", "count", "view"}
    /\ Ends(l, "error")
    /\ clean' = [clean EXCEPT ![l] = FALSE]
    /\ UNCHANGED <<facts, asg, overtaken>>

Next ==
    \/ \E d \in Documents : Publish(d)
    \/ \E f \in facts, c \in HumanCodes : Review(f, c)
    \/ \E l \in Loaders :
          Start(l) \/ Plan(l) \/ Insert(l) \/ CountFacts(l) \/ ReadView(l) \/ Fail(l)

Spec == Init /\ [][Next]_vars

-----------------------------------------------------------------------------
(***************************************************************************)
(* Properties.                                                             *)
(***************************************************************************)
CofogRows == {a \in asg : a.scheme = Cofog}

RuleRowType == [fact : FactIds, scheme : {Cofog}, code : Nat \ {0}, by : {"rule"},
                basis : Bases, version : Nat \ {0}]

TypeOK ==
    /\ facts \subseteq FactPool
    /\ asg \subseteq [fact : FactIds, scheme : {"acq", "dept", Cofog}, code : Nat \ {0},
                      by : {"source", "rule", "human"}, basis : Bases, version : Nat \ {0}]
    /\ \A a \in asg : a.by = "rule" => a \in RuleRowType
    /\ pc \in [Loaders -> {"idle", "plan", "insert", "count", "view", "done"}]
    /\ mapping \in [Loaders -> Mappings \cup {{}}]
    /\ DOMAIN plan = Loaders
    /\ \A l \in Loaders : plan[l] \subseteq RuleRowType
    /\ outcome \in [Loaders -> {"none", "ok", "error", "mismatch"}]
    /\ clean \in [Loaders -> BOOLEAN]
    /\ overtaken \subseteq RuleRowType

\* Hard Rule 5: every row the loader appended restates an entry some mapping
\* file has for a category the government gave the fact, and unless the source has
\* coded the fact again since the loader decided (also between its plan and its
\* insert), that file's entries for the fact's categories agree on the code.
NeverInvented ==
    \A a \in CofogRows : a.by = "rule" =>
        \E f \in facts, m \in Mappings :
            /\ f.id = a.fact
            /\ \E e \in Candidates(f, m) : e.code = a.code /\ e.basis = a.basis
            /\ a \in overtaken \/ \A d \in Candidates(f, m) : d.code = a.code

\* Re-applying an unchanged mapping inserts nothing (D21, D28), also when the
\* two applications overlap: a fact gets the same reviewed entry again only
\* after something else was the latest.
ReapplyInsertsNothing ==
    \A a, b \in CofogRows :
        a.by = "rule" /\ b.by = "rule" /\ a.fact = b.fact /\ a.version < b.version
          /\ a.code = b.code /\ a.basis = b.basis
        => \E c \in CofogRows :
              c.fact = a.fact /\ c # a /\ c.version >= a.version /\ c.version < b.version

\* A loader that ran while nothing else was written has applied its mapping:
\* each fact whose mapped categories agree has their entry as its latest row,
\* unless a reviewer's row stands there, whatever versions came before.
MappingTakesEffect ==
    \A l \in Loaders :
        clean[l] /\ pc[l] \in {"count", "view"} =>
            \A f \in InScope(facts, Scope) :
                LET C == Candidates(f, mapping[l])
                IN  C # {} /\ ~ Ambiguous(C) => LatestIsHuman(f) \/ LatestMatches(f, Winner(C))

\* D24: the view drops nothing and counts nothing twice, whatever versions and
\* ties the assignments hold: a loader fails to reconcile only when facts were
\* published between its two statements.
ViewDropsNothing ==
    [][\A l \in Loaders :
          pc[l] = "view" /\ counted[l] = CountAndSum => outcome'[l] # "mismatch"]_vars

\* classify.go: "A fact whose latest cofog assignment was made by a human is
\* never overridden by this loader."
HumanIsKept ==
    [][\A f \in facts : LatestIsHuman(f) => LatestIsHuman(f)']_vars

\* queries.go: a view node's drill-down mirrors the view, listing the facts the
\* node counts.
DrillDownMirrorsView ==
    LET v == ViewByScheme(facts, asg, Scope, Cofog)
    IN  \A c \in DOMAIN v.nodes :
            Cardinality(ListFacts(facts, asg, Scope, Cofog, c)) = v.nodes[c].count
=============================================================================
