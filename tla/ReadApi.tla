------------------------------ MODULE ReadApi ------------------------------
(***************************************************************************)
(* Readers of the public site while transactions commit and exports run: a *)
(* drill-down page (page.tsx) asks /view for its node and /v1/facts for a  *)
(* page of the node's facts, in parallel, and links to the next page as    *)
(* long as the node counts more facts than were shown.                     *)
(***************************************************************************)
EXTENDS Export

CONSTANTS
    Readers,        \* people who page through a node
    Nodes,          \* the nodes they choose from: [dim, code]
    PageSize,       \* PAGE_SIZE of the page
    DefaultLimit,   \* the limits of /v1/facts
    MaxLimit,
    IdRank          \* IdRank[i]: the place of fact_id i among all

ASSUME LimitsAssumption ==
    /\ PageSize \in Nat \ {0} /\ DefaultLimit \in Nat \ {0} /\ MaxLimit \in Nat
    /\ PageSize <= MaxLimit
ASSUME RankAssumption ==
    /\ \A f \in FactPool : IdRank[f.id] \in Nat
    /\ \A f, g \in FactPool : f # g => IdRank[f.id] # IdRank[g.id]

NoNode == "none"

VARIABLES
    stage,      \* stage[r]: how far a reader has come
    node,       \* node[r]: the node the reader pages through
    offset,     \* offset[r]: of the page asked for
    count,      \* count[r]: factCount of the node, once /view has answered
    page,       \* page[r]: the facts of the page, once /v1/facts has answered
    got,        \* got[r]: which of the two have answered
    shown,      \* history, shown[r]: the facts shown so far
    start,      \* history, start[r]: the facts of the node when the reader began
    steady      \* history: since then, no fact left the node and no page load
                \* had a commit between its two answers

loading == <<offset, count, page, got>>
history == <<shown, start, steady>>
readers == <<stage, node, loading, history>>

-----------------------------------------------------------------------------
\* Mutant of Clamp: the limit asked for is ignored.
ClampToDefault(n) == DefaultLimit

\* clampLimit.
Clamp(n) == IF n <= 0 THEN DefaultLimit ELSE IF n > MaxLimit THEN MaxLimit ELSE n

\* /view, for either kind of scheme.
View(dim) ==
    IF dim = "payee" THEN ViewByPayee(Facts, PayeesOf(Facts), Scope)
    ELSE ViewByScheme(Facts, Asg, Scope, dim)

\* The facts /v1/facts lists for a node once the transactions T have committed.
NodeFactsAfter(T, n) ==
    IF n.dim = "payee" THEN ListPayeeFacts(FactsOf(T), Scope, n.code)
    ELSE ListFacts(FactsOf(T), AsgOf(T), Scope, n.dim, n.code)

NodeFacts(n) == NodeFactsAfter(committed, n)

\* ORDER BY amount DESC, fact_id.
Before(f, g) == f.amount > g.amount \/ (f.amount = g.amount /\ IdRank[f.id] < IdRank[g.id])

\* LIMIT limit OFFSET from.
Page(S, limit, from) ==
    {f \in S : Cardinality({g \in S : Before(g, f)}) \in from..(from + limit - 1)}

-----------------------------------------------------------------------------
ReadApiInit ==
    /\ Init
    /\ stage = [r \in Readers |-> "idle"]
    /\ node = [r \in Readers |-> NoNode]
    /\ offset = [r \in Readers |-> 0]
    /\ count = [r \in Readers |-> 0]
    /\ page = [r \in Readers |-> {}]
    /\ got = [r \in Readers |-> {}]
    /\ shown = [r \in Readers |-> {}]
    /\ start = [r \in Readers |-> {}]
    /\ steady = [r \in Readers |-> TRUE]

\* The page of a node is opened at its first facts.
OpenNode(r) ==
    /\ stage[r] = "idle"
    /\ \E n \in Nodes :
          /\ node' = [node EXCEPT ![r] = n]
          /\ start' = [start EXCEPT ![r] = NodeFacts(n)]
    /\ stage' = [stage EXCEPT ![r] = "load"]
    /\ UNCHANGED <<loading, shown, steady>>

\* Mutant of ShowPage: the last page is taken to be the first that is not full.
ShowPageUntilShort(r, S, n) ==
    /\ shown' = [shown EXCEPT ![r] = @ \cup S]
    /\ got' = [got EXCEPT ![r] = {}]
    /\ IF Cardinality(S) > PageSize
       THEN offset' = [offset EXCEPT ![r] = @ + PageSize] /\ UNCHANGED stage
       ELSE stage' = [stage EXCEPT ![r] = "done"] /\ UNCHANGED offset

\* Both have answered: the page is shown, and its Next link followed (hasNext).
ShowPage(r, S, n) ==
    /\ shown' = [shown EXCEPT ![r] = @ \cup S]
    /\ got' = [got EXCEPT ![r] = {}]
    /\ IF offset[r] + Cardinality(S) < n
       THEN offset' = [offset EXCEPT ![r] = @ + PageSize] /\ UNCHANGED stage
       ELSE stage' = [stage EXCEPT ![r] = "done"] /\ UNCHANGED offset

Waits(r, answer) == got' = [got EXCEPT ![r] = @ \cup {answer}] /\ UNCHANGED <<stage, offset, shown>>

\* /view answers; a node that is not in it is a 404.
ReadView(r) ==
    /\ stage[r] = "load" /\ "view" \notin got[r]
    /\ LET nodes == View(node[r].dim).nodes
           c == node[r].code
       IN  IF c \notin DOMAIN nodes
           THEN stage' = [stage EXCEPT ![r] = "notFound"] /\ UNCHANGED <<loading, shown>>
           ELSE /\ count' = [count EXCEPT ![r] = nodes[c].count]
                /\ UNCHANGED page
                /\ IF "facts" \in got[r] THEN ShowPage(r, page[r], nodes[c].count) ELSE Waits(r, "view")
    /\ UNCHANGED <<node, start, steady>>

\* /v1/facts answers.
ReadFacts(r) ==
    /\ stage[r] = "load" /\ "facts" \notin got[r]
    /\ LET S == Page(NodeFacts(node[r]), Clamp(PageSize), offset[r])
       IN  /\ page' = [page EXCEPT ![r] = S]
           /\ UNCHANGED count
           /\ IF "view" \in got[r] THEN ShowPage(r, S, count[r]) ELSE Waits(r, "facts")
    /\ UNCHANGED <<node, start, steady>>

\* The store and the exporter take a step; the readers' histories are kept.
StoreStep ==
    /\ Next
    /\ steady' = [r \in Readers |->
          steady[r] /\ (committed' = committed \/
             (got[r] = {} /\ (stage[r] = "load" => NodeFacts(node[r]) \subseteq NodeFactsAfter(committed', node[r]))))]
    /\ UNCHANGED <<stage, node, loading, shown, start>>

ReadApiNext ==
    \/ StoreStep
    \/ \E r \in Readers : (OpenNode(r) \/ ReadView(r) \/ ReadFacts(r)) /\ UNCHANGED vars

ReadApiSpec == ReadApiInit /\ [][ReadApiNext]_<<vars, readers>>

-----------------------------------------------------------------------------
(***************************************************************************)
(* Properties.                                                             *)
(***************************************************************************)
\* One version per fact in the scheme of node n: n then counts what its drill-down lists.
OneVersion(n) ==
    \A a, b \in Asg : a.scheme = n.dim /\ b.scheme = n.dim /\ a.fact = b.fact => a = b

\* A reader who follows Next to the end has been shown every fact that was in the
\* node all along, also when facts were added between two pages: only a fact that
\* leaves the node, or a commit during a page load, can hide another.
PagerMissesNothing ==
    \A r \in Readers :
        stage[r] = "done" /\ steady[r] /\ OneVersion(node[r]) => start[r] \subseteq shown[r]

Scopes == {[jur |-> f.jur, year |-> f.year, flow |-> f.flow] : f \in Facts}
Schemes == {Scheme} \cup {a.scheme : a \in Asg}

SpendingOnly(S) == \A f \in S : f.flow = "spending"

PayeeNodesAreListed(s) ==
    \A p \in PayeesOf(Facts) :
        LET paid == ListPayeeFacts(Facts, s, p)
        IN  paid # {} => ViewByPayee(Facts, PayeesOf(Facts), s).nodes[p]
                            = [count |-> Cardinality(paid), amount |-> AmountOf(paid)]

\* Among what a node's drill-down lists is every fact the node counts.
TreesAgree(s) ==
    \A scheme \in Schemes :
        LET v == ViewByScheme(Facts, Asg, s, scheme)
            byPayee == ViewByPayee(Facts, PayeesOf(Facts), s)
        IN  /\ v.total = byPayee.total
            /\ v.count = byPayee.count
            /\ \A c \in DOMAIN v.nodes :
                  v.nodes[c].count
                    = Cardinality({f \in ListFacts(Facts, Asg, s, scheme, c) : CodeOf(Asg, f, scheme) = c})

\* No fact was given the code in two versions.
CodedOnce(scheme, code) ==
    LET coded == {a \in Asg : a.scheme = scheme /\ a.code = code}
    IN  \A a, b \in coded : a.fact = b.fact => a = b

ComparisonIsListed(s) ==
    \A scheme \in Schemes : \A code \in {a.code : a \in Asg} :
        CodedOnce(scheme, code)
          => Compare(Facts, Asg, scheme, code, s.jur).count
               = SumFunction([t \in {u \in Scopes : u.jur = s.jur} |->
                                Cardinality(ListFacts(Facts, Asg, t, scheme, code))])

\* For a payee that the government paid and was not paid by.
CrossCutAddsUp(s) ==
    \A p \in PayeesOf(Facts) :
        SpendingOnly({f \in Current(Facts) : f.payee = p /\ f.year = s.year})
          => EntityFlows(Facts, Asg, p, s.year, Scheme).total
               = SumFunction([t \in {u \in Scopes : u.year = s.year} |-> AmountOf(ListPayeeFacts(Facts, t, p))])

\* For a jurisdiction and year whose facts are all spending.
CoverageIsOfTree(s) ==
    LET all == {f \in Current(Facts) : f.jur = s.jur /\ f.year = s.year}
    IN  SpendingOnly(all) =>
          CoverageNumerator(Facts, s.jur, s.year) + AmountOf({f \in all : f.grain = "aggregate"})
            = ViewByScheme(Facts, Asg, [s EXCEPT !.flow = "spending"], Scheme).total

\* The queries over one store agree, whatever versions its assignments have: the
\* trees of a scope, by payee and by each scheme, count the same facts once; a node's
\* drill-down lists what it counts; a comparison counts what the drill-downs of a
\* jurisdiction list; a payee's cross-cut by department and the coverage numerator
\* add up to nodes and trees.  The last two know no flow (FlowsAreSpending) and are
\* held to it only where there is no revenue.
QueriesAgree ==
    \A s \in Scopes :
        PayeeNodesAreListed(s) /\ TreesAgree(s) /\ ComparisonIsListed(s) /\ CrossCutAddsUp(s) /\ CoverageIsOfTree(s)

\* queries.go: "EntityFlows is one entity's spending broken down by department":
\* what it totals is spending, and no other flow.
FlowsAreSpending ==
    \A p \in PayeesOf(Facts) : \A year \in {f.year : f \in Facts} :
        EntityFlows(Facts, Asg, p, year, Scheme).total
          = AmountOf({f \in Current(Facts) : f.payee = p /\ f.year = year /\ f.flow = "spending"})
=============================================================================
