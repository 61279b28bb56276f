-------------------------------- MODULE Leads --------------------------------
(***************************************************************************)
(* The leads workbench (D30): `leads run` screens a partition of the store *)
(* for concentrated vendors and inserts draft leads; `leads set-status`    *)
(* appends a reviewer's word on a lead; the site shows the leads whose     *)
(* latest word is "published".  Invocations run concurrently.              *)
(*                                                                         *)
(* A lead is [id, group, payee, facts, claim]: its evidence is the facts   *)
(* of one payee in one group, <<department, acquisition type>>; its claim  *)
(* is the figures of its body.                                             *)
(***************************************************************************)
EXTENDS Store

CONSTANTS
    Partition,      \* [jur, year] the rule is run over
    Dept, Acq,      \* the rule's two schemes
    MinGroupTotal, MinFactCount, MinGroupVendors, MinSharePercent,  \* thresholds
    Unsayable,      \* the payees whose name holds a banned term
    Runs,           \* invocations of `leads run`
    Calls           \* invocations of `leads set-status`

ASSUME ThresholdAssumption ==
    /\ MinGroupTotal \in Nat \ {0} /\ MinFactCount \in Nat \ {0}
    /\ MinGroupVendors \in Nat /\ MinSharePercent \in 0..100

ASSUME CallsAssumption == IsFiniteSet(Calls)

VARIABLES
    leads,      \* the rows of lead
    events,     \* the rows of lead_event: [call, lead, status, at, tie]
    clock,      \* the database's clock
    run,        \* run[r]: how far a rule run has come
    drafts,     \* drafts[r]: the leads it is about to insert
    ranAt,      \* history, ranAt[r]: what was committed when its query ran
    pc,         \* pc[c]: how far a set-status has come
    asked,      \* asked[c]: its lead and status
    stamp,      \* stamp[c]: now() of its transaction
    before      \* history, before[c]: the calls that had returned when it began

runner == <<run, drafts, ranAt>>
review == <<pc, asked, stamp, before>>
vars == <<committed, leads, events, clock, runner, review>>

NoLead == <<>>
Statuses == {"reviewed", "published", "dismissed"}

-----------------------------------------------------------------------------
(***************************************************************************)
(* The rule ca_vendor_concentration_department_category_v1.                *)
(***************************************************************************)
\* Mutant of RuleFacts: corrected facts stay in.
RuleFactsUncorrected(F) ==
    {f \in F : /\ f.jur = Partition.jur /\ f.year = Partition.year /\ f.flow = "spending"
               /\ f.grain \in {"transaction", "award"}}

RuleFacts(F) ==
    {f \in InScope(F, [jur |-> Partition.jur, year |-> Partition.year, flow |-> "spending"]) :
        f.grain \in {"transaction", "award"}}

\* Facts with a code in both schemes, each with its latest.
Joined(F, A) == {f \in RuleFacts(F) : Versions(A, f, Dept) # {} /\ Versions(A, f, Acq) # {}}

Group(F, A, g) == {f \in Joined(F, A) : <<CodeOf(A, f, Dept), CodeOf(A, f, Acq)>> = g}

\* Mutants of LeadId: the evidence is not, or the claim is also, part of the key.
LeadIdBySubject(g, p, evidence, claim) == <<g, p>>
LeadIdByClaim(g, p, evidence, claim) == <<g, p, evidence, claim>>

\* leadID: rule identity, subject and the evidence.
LeadId(g, p, evidence, claim) == <<g, p, evidence>>

Lead(F, A, g, p) ==
    LET group == Group(F, A, g)
        vendor == {f \in group : f.payee = p}
        evidence == {f.id : f \in vendor}
        claim == [vendorAmount |-> AmountOf(vendor), groupAmount |-> AmountOf(group),
                  groupVendors |-> Cardinality(PayeesOf(group))]
    IN  [id |-> LeadId(g, p, evidence, claim), group |-> g, payee |-> p, facts |-> evidence, claim |-> claim]

Concentrated(l) ==
    /\ l.claim.groupAmount >= MinGroupTotal
    /\ Cardinality(l.facts) >= MinFactCount
    /\ l.claim.groupVendors >= MinGroupVendors
    /\ 100 * l.claim.vendorAmount >= MinSharePercent * l.claim.groupAmount

\* The leads the rule finds.
Matches(F, A) ==
    LET groups == {<<CodeOf(A, f, Dept), CodeOf(A, f, Acq)>> : f \in Joined(F, A)}
    IN  {l \in UNION {{Lead(F, A, g, p) : p \in PayeesOf(Group(F, A, g))} : g \in groups} : Concentrated(l)}

-----------------------------------------------------------------------------
(***************************************************************************)
(* The status of a lead, and what is public.                               *)
(***************************************************************************)
EventsOf(l) == {e \in events : e.lead = l.id}

\* Mutant of LastEvent: the order of event ids, which are random.
LastEventById(E) == CHOOSE e \in E : \A d \in E : d.tie <= e.tie

\* ORDER BY created_at DESC, event_id DESC LIMIT 1.
LastEvent(E) == CHOOSE e \in E : \A d \in E : d.at < e.at \/ (d.at = e.at /\ d.tie <= e.tie)

\* statusCTE, which list and inspect show.
Status(l) == IF EventsOf(l) = {} THEN "draft" ELSE LastEvent(EventsOf(l)).status

\* PublishedLeads, which /v1/leads shows.
Public == {l \in leads : EventsOf(l) # {} /\ LastEvent(EventsOf(l)).status = "published"}

-----------------------------------------------------------------------------
Init ==
    /\ committed = {}
    /\ leads = {} /\ events = {}
    /\ clock = 0
    /\ run = [r \in Runs |-> "query"]
    /\ drafts = [r \in Runs |-> {}]
    /\ ranAt = [r \in Runs |-> {}]
    /\ pc = [c \in Calls |-> "inspect"]
    /\ asked = [c \in Calls |-> [lead |-> NoLead, status |-> "none"]]
    /\ stamp = [c \in Calls |-> 0]
    /\ before = [c \in Calls |-> {}]

Commit(x) ==
    /\ StoreCommit(x)
    /\ UNCHANGED <<leads, events, clock, runner, review>>

-----------------------------------------------------------------------------
\* Run, first half: the rule's one statement.  A banned term in one generated text
\* fails the run; without a match there is nothing to insert.
RuleQuery(r) ==
    /\ run[r] = "query"
    /\ LET found == Matches(Facts, Asg)
       IN  IF \E l \in found : l.payee \in Unsayable
           THEN run' = [run EXCEPT ![r] = "failed"] /\ UNCHANGED <<drafts, ranAt>>
           ELSE /\ drafts' = [drafts EXCEPT ![r] = found]
                /\ ranAt' = [ranAt EXCEPT ![r] = committed]
                /\ run' = [run EXCEPT ![r] = IF found = {} THEN "done" ELSE "insert"]
    /\ UNCHANGED <<committed, leads, events, clock, review>>

\* Mutant of InsertDrafts: without ON CONFLICT, and without the key that would object.
InsertDraftsAnyway(r) ==
    /\ run[r] = "insert"
    /\ leads' = leads \cup drafts[r]
    /\ run' = [run EXCEPT ![r] = "done"]
    /\ UNCHANGED <<committed, events, clock, drafts, ranAt, review>>

\* Run, second half: one transaction, ON CONFLICT (lead_id) DO NOTHING.
InsertDrafts(r) ==
    /\ run[r] = "insert"
    /\ leads' = leads \cup {d \in drafts[r] : \A l \in leads : l.id # d.id}
    /\ run' = [run EXCEPT ![r] = "done"]
    /\ UNCHANGED <<committed, events, clock, drafts, ranAt, review>>

\* A statement fails, or the process is killed: a transaction that began is undone.
RunFails(r) ==
    /\ run[r] \in {"query", "insert"}
    /\ run' = [run EXCEPT ![r] = "failed"]
    /\ drafts' = [drafts EXCEPT ![r] = {}]
    /\ ranAt' = [ranAt EXCEPT ![r] = {}]
    /\ UNCHANGED <<committed, leads, events, clock, review>>

-----------------------------------------------------------------------------
Returned == {c \in Calls : pc[c] = "done"}

\* SetStatus: the lead is inspected and, to be published, has to have fact links and
\* wording that can be shown.
Inspect(c) ==
    /\ pc[c] = "inspect"
    /\ \E l \in leads, s \in Statuses :
          /\ asked' = [asked EXCEPT ![c] = [lead |-> l.id, status |-> s]]
          /\ pc' = [pc EXCEPT ![c] =
                IF s = "published" /\ (l.facts = {} \/ l.payee \in Unsayable) THEN "failed" ELSE "begin"]
    /\ before' = [before EXCEPT ![c] = Returned]
    /\ UNCHANGED <<committed, leads, events, clock, runner, stamp>>

\* The INSERT begins: created_at will be this moment.
BeginInsert(c) ==
    /\ pc[c] = "begin"
    /\ stamp' = [stamp EXCEPT ![c] = clock]
    /\ pc' = [pc EXCEPT ![c] = "commit"]
    /\ UNCHANGED <<committed, leads, events, clock, runner, asked, before>>

\* It commits, under a random event id.  No call that begins after this one has
\* returned has its created_at.
AppendEvent(c) ==
    /\ pc[c] = "commit"
    /\ \E i \in 1..Cardinality(Calls) :
          /\ \A e \in events : e.tie # i
          /\ events' = events \cup {[call |-> c, lead |-> asked[c].lead, status |-> asked[c].status,
                                     at |-> stamp[c], tie |-> i]}
    /\ clock' = clock + 1
    /\ pc' = [pc EXCEPT ![c] = "done"]
    /\ UNCHANGED <<committed, leads, runner, asked, stamp, before>>

\* A statement fails, or the process is killed.
CallFails(c) ==
    /\ pc[c] \in {"inspect", "begin", "commit"}
    /\ pc' = [pc EXCEPT ![c] = "failed"]
    /\ UNCHANGED <<committed, leads, events, clock, runner, asked, stamp, before>>

Next ==
    \/ \E x \in Transactions : Commit(x)
    \/ \E r \in Runs : RuleQuery(r) \/ InsertDrafts(r) \/ RunFails(r)
    \/ \E c \in Calls : Inspect(c) \/ BeginInsert(c) \/ AppendEvent(c) \/ CallFails(c)

Spec == Init /\ [][Next]_vars

-----------------------------------------------------------------------------
(***************************************************************************)
(* Properties.                                                             *)
(***************************************************************************)
TypeOK ==
    /\ committed \subseteq Transactions
    /\ \A l, m \in leads : l.id = m.id => l = m
    /\ \A e \in events :
          /\ e.call \in Returned /\ e.lead = asked[e.call].lead /\ e.status = asked[e.call].status
          /\ e.at = stamp[e.call] /\ e.tie \in 1..Cardinality(Calls)
          /\ \E l \in leads : l.id = e.lead
    /\ clock \in Nat
    /\ run \in [Runs -> {"query", "insert", "done", "failed"}]
    /\ DOMAIN drafts = Runs
    /\ ranAt \in [Runs -> SUBSET Transactions]
    /\ pc \in [Calls -> {"inspect", "begin", "commit", "done", "failed"}]
    /\ DOMAIN asked = Calls
    /\ stamp \in [Calls -> Nat]
    /\ before \in [Calls -> SUBSET Calls]

\* "A lead's current status is its latest event", to the reviewers and to the public:
\* the status shown is the word of a call that no other call followed, whatever calls
\* overlapped, and whatever was said since is shown.
LastWordStands ==
    \A l \in leads :
        /\ EventsOf(l) # {} =>
              \E e \in EventsOf(l) :
                  /\ Status(l) = e.status
                  /\ \A d \in EventsOf(l) : e.call \notin before[d.call]
        /\ l \in Public <=> Status(l) = "published"

\* "Unchanged evidence re-inserts nothing and changed evidence yields a new draft":
\* what a run found has one lead afterwards, of that very evidence, however many
\* runs over however changed a store there were.
Evidence(l) == <<l.group, l.payee, l.facts>>

EvidenceHasOneLead ==
    /\ \A r \in Runs : run[r] = "done" =>
          \A m \in Matches(FactsOf(ranAt[r]), AsgOf(ranAt[r])) : \E l \in leads : Evidence(l) = Evidence(m)
    /\ \A l, m \in leads : Evidence(l) = Evidence(m) => l = m

\* No lead counts a fact and its correction, though it stays when the correction
\* comes later, and none is about an unsayable name.
EvidenceIsConsistent ==
    \A l \in leads :
        /\ l.payee \notin Unsayable
        /\ \A f, g \in Facts : f.id \in l.facts /\ g.id \in l.facts => g.supersedes # f.id

\* leads.go, leadID: "a lead names one reviewable claim about one body of evidence":
\* the figures a run finds are those of the lead its evidence has.
ClaimIsCurrent ==
    \A r \in Runs : run[r] = "done" =>
        \A m \in Matches(FactsOf(ranAt[r]), AsgOf(ranAt[r])) :
            \E l \in leads : Evidence(l) = Evidence(m) /\ l.claim = m.claim
=============================================================================
