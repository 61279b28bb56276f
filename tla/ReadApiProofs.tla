--------------------------- MODULE ReadApiProofs ---------------------------
(***************************************************************************)
(* Theorems about module ReadApi, for whatever transactions commit, any    *)
(* number of readers, whatever nodes they page through and whatever the    *)
(* page size.  The pager's argument is about places: a fact's place in its *)
(* node is the number of facts before it, which only grows as facts are    *)
(* added, so what was ahead of a reader stays ahead.                       *)
(***************************************************************************)
EXTENDS ReadApi, ExportProofs

\* The place of f among the facts S, counted from 0.
PlaceIn(S, f) == Cardinality({g \in S : Before(g, f)})

ReadersTyped ==
    /\ stage \in [Readers -> {"idle", "load", "notFound", "done"}]
    /\ offset \in [Readers -> Nat]
    /\ steady \in [Readers -> BOOLEAN]
    /\ DOMAIN node = Readers /\ DOMAIN count = Readers /\ DOMAIN page = Readers
    /\ DOMAIN got = Readers /\ DOMAIN shown = Readers /\ DOMAIN start = Readers
    /\ \A r \in Readers : stage[r] = "idle" => got[r] = {} /\ offset[r] = 0

\* What has answered is still so.
PageIsTrue(r) == "facts" \in got[r] => page[r] = Page(NodeFacts(node[r]), PageSize, offset[r])

CountCovers(r) ==
    "view" \in got[r] /\ OneVersion(node[r]) => count[r] \in Nat /\ Cardinality(NodeFacts(node[r])) <= count[r]

\* The facts the node had all along and that were not shown are still to come.
RestIsAhead(r) ==
    /\ start[r] \subseteq NodeFacts(node[r])
    /\ \A f \in start[r] \ shown[r] : offset[r] <= PlaceIn(NodeFacts(node[r]), f)

LoadsSteadily ==
    \A r \in Readers : stage[r] = "load" /\ steady[r] => PageIsTrue(r) /\ CountCovers(r) /\ RestIsAhead(r)

ReadInv == IInv /\ ReadersTyped /\ LoadsSteadily /\ PagerMissesNothing

-----------------------------------------------------------------------------
(***************************************************************************)
(* Pages.                                                                  *)
(***************************************************************************)
\* Facts are ordered by amount and rank, without ties.
LEMMA BeforeIsTotal ==
  /\ \A f \in FactPool : ~ Before(f, f)
  /\ \A f, g \in FactPool : f # g => Before(f, g) \/ Before(g, f)
  /\ \A f, g, h \in FactPool : Before(f, g) /\ Before(g, h) => Before(f, h)
  <1> DEFINE a == [f \in FactPool |-> f.amount]
             k == [f \in FactPool |-> IdRank[f.id]]
  <1>1. \A f \in FactPool : a[f] \in Int /\ k[f] \in Nat
    BY TransactionsAssumption, RankAssumption
  <1>2. \A f, g \in FactPool : f # g => k[f] # k[g]
    BY RankAssumption
  <1>3. \A f, g \in FactPool : Before(f, g) <=> a[f] > a[g] \/ (a[f] = a[g] /\ k[f] < k[g])
    BY DEF Before
  <1> HIDE DEF a, k
  <1>4. \A f \in FactPool : ~ Before(f, f)
    BY <1>1, <1>3
  <1>5. \A f, g \in FactPool : f # g => Before(f, g) \/ Before(g, f)
    BY <1>1, <1>2, <1>3
  <1>6. \A f, g, h \in FactPool : Before(f, g) /\ Before(g, h) => Before(f, h)
    BY <1>1, <1>3
  <1>7. QED
    BY <1>4, <1>5, <1>6

\* Sets of facts are finite, and so are their parts.
LEMMA PoolIsFinite ==
  ASSUME NEW S \in SUBSET FactPool
  PROVE  IsFiniteSet(S) /\ Cardinality(S) \in Nat /\ \A T \in SUBSET S : Cardinality(T) <= Cardinality(S)
  BY TransactionsAssumption, FS_Subset, FS_CardinalityType

\* A place is a number below the size of the set, and no two facts share one.
LEMMA PlacesDiffer ==
  ASSUME NEW S \in SUBSET FactPool
  PROVE  /\ \A f \in S : PlaceIn(S, f) \in Nat /\ PlaceIn(S, f) < Cardinality(S)
         /\ \A f, g \in S : f # g => PlaceIn(S, f) # PlaceIn(S, g)
  <1> DEFINE ahead(f) == {g \in S : Before(g, f)}
  <1>1. \A f \in S : IsFiniteSet(ahead(f)) /\ Cardinality(ahead(f)) \in Nat
    <2>1. \A f \in S : ahead(f) \in SUBSET FactPool
      OBVIOUS
    <2> HIDE DEF ahead
    <2>2. QED
      BY <2>1, PoolIsFinite
  <1>2. ASSUME NEW f \in S, NEW T \in SUBSET S, ahead(f) \cup {f} \subseteq T
        PROVE  Cardinality(ahead(f)) < Cardinality(T)
    <2>1. f \notin ahead(f)
      BY BeforeIsTotal
    <2>2. Cardinality(ahead(f) \cup {f}) = Cardinality(ahead(f)) + 1
      <3> HIDE DEF ahead
      <3>1. QED
        BY <1>1, <2>1, FS_AddElement
    <2>3. T \in SUBSET FactPool /\ ahead(f) \cup {f} \in SUBSET T
      BY <1>2
    <2>4. Cardinality(ahead(f) \cup {f}) <= Cardinality(T) /\ Cardinality(T) \in Nat
      <3> HIDE DEF ahead
      <3>1. QED
        BY <2>3, PoolIsFinite
    <2>5. Cardinality(ahead(f)) \in Nat
      BY <1>1
    <2> HIDE DEF ahead
    <2>6. QED
      BY <2>2, <2>4, <2>5
  <1>3. ASSUME NEW f \in S PROVE PlaceIn(S, f) \in Nat /\ PlaceIn(S, f) < Cardinality(S)
    <2>1. Cardinality(ahead(f)) < Cardinality(S)
      BY <1>2
    <2>2. QED
      BY <1>1, <2>1 DEF PlaceIn
  <1>4. ASSUME NEW f \in S, NEW g \in S, Before(f, g) PROVE PlaceIn(S, f) < PlaceIn(S, g)
    <2>1. ahead(f) \cup {f} \subseteq ahead(g)
      BY <1>4, BeforeIsTotal
    <2>2. Cardinality(ahead(f)) < Cardinality(ahead(g))
      BY <1>2, <2>1
    <2>3. QED
      BY <2>2 DEF PlaceIn
  <1>5. ASSUME NEW f \in S, NEW g \in S, f # g PROVE PlaceIn(S, f) # PlaceIn(S, g)
    <2>1. Before(f, g) \/ Before(g, f)
      BY <1>5, BeforeIsTotal
    <2>2. PlaceIn(S, f) < PlaceIn(S, g) \/ PlaceIn(S, g) < PlaceIn(S, f)
      BY <1>4, <2>1
    <2>3. QED
      BY <1>3, <2>2
  <1>6. QED
    BY <1>3, <1>5

\* More facts, later places.
LEMMA PlacesGrow ==
  ASSUME NEW T \in SUBSET FactPool, NEW S \in SUBSET T, NEW f
  PROVE  PlaceIn(S, f) \in Nat /\ PlaceIn(T, f) \in Nat /\ PlaceIn(S, f) <= PlaceIn(T, f)
  <1> DEFINE s == {g \in S : Before(g, f)}
             t == {g \in T : Before(g, f)}
  <1>1. s \in SUBSET t /\ t \in SUBSET FactPool /\ s \in SUBSET FactPool
    OBVIOUS
  <1>2. Cardinality(s) \in Nat /\ Cardinality(t) \in Nat /\ Cardinality(s) <= Cardinality(t)
    <2> HIDE DEF s, t
    <2>1. QED
      BY <1>1, PoolIsFinite
  <1>3. QED
    BY <1>2 DEF PlaceIn

\* A page has at most PageSize facts, and what the pages so far leave out comes
\* after it.
LEMMA PageFacts ==
  ASSUME NEW S \in SUBSET FactPool, NEW o \in Nat
  PROVE  /\ Page(S, PageSize, o) \subseteq S
         /\ Cardinality(Page(S, PageSize, o)) \in Nat
         /\ Cardinality(Page(S, PageSize, o)) <= PageSize
         /\ \A f \in S \ Page(S, PageSize, o) : o <= PlaceIn(S, f) => o + PageSize <= PlaceIn(S, f)
  <1> DEFINE P == Page(S, PageSize, o)
             I == o..(o + PageSize - 1)
             p == [f \in P |-> PlaceIn(S, f)]
  <1>1. P = {f \in S : PlaceIn(S, f) \in I}
    BY DEF Page, PlaceIn
  <1>2. P \subseteq S /\ P \in SUBSET FactPool
    BY <1>1
  <1>3. PageSize \in Nat \ {0}
    BY LimitsAssumption
  <1>4. IsFiniteSet(I) /\ Cardinality(I) = PageSize
    <2>1. o + PageSize - 1 \in Int /\ ~ (o > o + PageSize - 1) /\ (o + PageSize - 1) - o + 1 = PageSize
      BY <1>3
    <2>2. QED
      BY <2>1, FS_Interval
  <1>5. p \in Injection(P, I)
    <2>1. p \in [P -> I]
      BY <1>1
    <2>2. \A f, g \in P : f # g => PlaceIn(S, f) # PlaceIn(S, g)
      BY <1>1, PlacesDiffer
    <2>3. \A f, g \in P : p[f] = p[g] => f = g
      BY <2>2
    <2>4. QED
      BY <2>1, <2>3 DEF Injection, IsInjective
  <1>6. Cardinality(P) <= Cardinality(I)
    <2> HIDE DEF p, P, I
    <2>1. QED
      BY <1>4, <1>5, FS_Injection
  <1>7. Cardinality(P) \in Nat
    BY <1>2, PoolIsFinite
  <1>8. ASSUME NEW f \in S \ P, o <= PlaceIn(S, f) PROVE o + PageSize <= PlaceIn(S, f)
    <2>1. PlaceIn(S, f) \in Nat
      BY PlacesDiffer
    <2>2. PlaceIn(S, f) \notin I
      BY <1>1, <1>8
    <2>3. QED
      BY <1>3, <1>8, <2>1, <2>2
  <1>9. QED
    BY <1>2, <1>4, <1>6, <1>7, <1>8

\* The page asked for is the page the site shows.
LEMMA ClampIsPageSize == Clamp(PageSize) = PageSize
  BY LimitsAssumption DEF Clamp

-----------------------------------------------------------------------------
(***************************************************************************)
(* Nodes.                                                                  *)
(***************************************************************************)
\* A node's facts are facts of the store.
LEMMA NodeFactsTyped ==
  ASSUME NEW T \in SUBSET Transactions, NEW n
  PROVE  NodeFactsAfter(T, n) \in SUBSET FactPool
  <1>1. FactsOf(T) \subseteq FactPool
    BY FactsAreFinite
  <1>2. NodeFactsAfter(T, n) \subseteq FactsOf(T)
    BY DEF NodeFactsAfter, ListPayeeFacts, ListFacts, InScope, Current
  <1>3. QED
    BY <1>1, <1>2

\* Where each fact has one version in its scheme, a node of the view counts at least
\* the facts its drill-down lists.
LEMMA NodeCountCovers ==
  ASSUME committed \in SUBSET Transactions, NEW n, OneVersion(n), n.code \in DOMAIN View(n.dim).nodes
  PROVE  /\ View(n.dim).nodes[n.code].count \in Nat
         /\ Cardinality(NodeFacts(n)) <= View(n.dim).nodes[n.code].count
  <1> DEFINE c == n.code
             S == InScope(Facts, Scope)
             v == View(n.dim)
             counted == IF n.dim = "payee"
                        THEN {f \in S : c = IF f.payee \in PayeesOf(Facts) THEN f.payee ELSE Unclassified}
                        ELSE {f \in S : CodeOf(Asg, f, n.dim) = c}
  <1>1. IsFiniteSet(Facts) /\ Facts \subseteq FactPool /\ \A f \in Facts : f.amount \in Int
    BY FactsAreFinite DEF Facts
  <1>2. S \subseteq Facts
    BY DEF InScope, Current
  <1>3. v.nodes[c].count = Cardinality(counted)
    <2>1. CASE n.dim = "payee"
      <3>1. v = ViewByPayee(Facts, PayeesOf(Facts), Scope)
        BY <2>1 DEF View
      <3>2. v.nodes[c].count = Cardinality(FactsAtNode(Facts, PayeesOf(Facts), Scope, c))
        <4>1. c \in DOMAIN v.nodes
          OBVIOUS
        <4> DEFINE entities == PayeesOf(Facts)
        <4> HIDE DEF v, c, entities
        <4>2. v = ViewByPayee(Facts, entities, Scope)
          BY <3>1 DEF entities
        <4>3. v.nodes[c].count = Cardinality(FactsAtNode(Facts, entities, Scope, c))
          BY <1>1, <4>1, <4>2, ViewByPayeeCountsAll
        <4>4. QED
          BY <4>3 DEF entities
      <3>3. FactsAtNode(Facts, PayeesOf(Facts), Scope, c) = counted
        BY <2>1 DEF FactsAtNode
      <3>4. QED
        BY <3>2, <3>3
    <2>2. CASE n.dim # "payee"
      <3>1. v = ViewByScheme(Facts, Asg, Scope, n.dim)
        BY <2>2 DEF View
      <3>2. v.nodes[c].count = Cardinality({f \in S : CodeOf(Asg, f, n.dim) = c})
        <4>1. c \in DOMAIN v.nodes
          OBVIOUS
        <4> HIDE DEF v, c
        <4>2. QED
          BY <1>1, <3>1, <4>1, ViewBySchemeCountsAll
      <3>3. QED
        BY <2>2, <3>2
    <2>3. QED
      BY <2>1, <2>2
  <1>4. NodeFacts(n) \subseteq counted
    <2>1. CASE n.dim = "payee"
      <3>1. NodeFacts(n) = ListPayeeFacts(Facts, Scope, c)
        BY <2>1 DEF NodeFacts, NodeFactsAfter, Facts
      <3>2. QED
        BY <1>2, <2>1, <3>1 DEF ListPayeeFacts, PayeesOf
    <2>2. CASE n.dim # "payee"
      <3>1. NodeFacts(n) = ListFacts(Facts, Asg, Scope, n.dim, c)
        BY <2>2 DEF NodeFacts, NodeFactsAfter, Facts, Asg
      <3>2. \A a \in Asg : a.code \in Int /\ a.version \in Int
        <4>1. Asg \subseteq AsgPool
          BY FactsGrow DEF Asg, AsgPool
        <4>2. QED
          BY <4>1, TransactionsAssumption
      <3>3. \A a, b \in Asg : a.scheme = n.dim /\ b.scheme = n.dim /\ a.fact = b.fact => a = b
        BY DEF OneVersion
      <3>4. ListFacts(Facts, Asg, Scope, n.dim, c) \subseteq {f \in S : CodeOf(Asg, f, n.dim) = c}
        <4> HIDE DEF c
        <4>1. QED
          BY <3>2, <3>3, ListedFactsAreCounted
      <3>5. QED
        BY <2>2, <3>1, <3>4
    <2>3. QED
      BY <2>1, <2>2
  <1>5. counted \in SUBSET FactPool
    BY <1>1, <1>2
  <1>6. Cardinality(counted) \in Nat /\ Cardinality(NodeFacts(n)) <= Cardinality(counted)
    <2> HIDE DEF counted
    <2>1. QED
      BY <1>4, <1>5, PoolIsFinite
  <1>7. QED
    BY <1>3, <1>6

-----------------------------------------------------------------------------
(***************************************************************************)
(* The steps.                                                              *)
(***************************************************************************)
\* A step of the store changes nothing of the readers but steady.
LEMMA OneVersionGrows ==
  ASSUME committed \subseteq committed', NEW r, node'[r] = node[r], OneVersion(node[r])'
  PROVE  OneVersion(node[r])
  <1>1. Asg \subseteq Asg'
    BY DEF Asg, AsgOf
  <1>2. QED
    BY <1>1 DEF OneVersion

LEMMA StoreStepKeeps ==
  ASSUME ReadInv, StoreStep, committed \subseteq committed', committed' \subseteq Transactions
  PROVE  ReadersTyped' /\ LoadsSteadily' /\ PagerMissesNothing'
  <1>1. UNCHANGED <<stage, node, offset, count, page, got, shown, start>>
    BY DEF StoreStep, loading
  <1>2. steady' = [r \in Readers |->
          steady[r] /\ (committed' = committed \/
             (got[r] = {} /\ (stage[r] = "load" => NodeFacts(node[r]) \subseteq NodeFactsAfter(committed', node[r]))))]
    BY DEF StoreStep
  <1>3. ReadersTyped'
    BY <1>1, <1>2 DEF ReadInv, ReadersTyped
  <1>4. \A n : NodeFacts(n)' = NodeFactsAfter(committed', n)
    BY DEF NodeFacts, NodeFactsAfter
  <1>5. ASSUME NEW r \in Readers, stage'[r] = "load", steady'[r]
        PROVE  PageIsTrue(r)' /\ CountCovers(r)' /\ RestIsAhead(r)'
    <2>1. stage[r] = "load" /\ steady[r] /\ PageIsTrue(r) /\ CountCovers(r) /\ RestIsAhead(r)
      BY <1>1, <1>2, <1>5 DEF ReadInv, LoadsSteadily
    <2>2. committed' = committed
          \/ (got[r] = {} /\ NodeFacts(node[r]) \subseteq NodeFactsAfter(committed', node[r]))
      BY <1>2, <1>5, <2>1
    <2>3. CASE committed' = committed
      <3>1. OneVersion(node[r])' = OneVersion(node[r]) /\ NodeFacts(node[r])' = NodeFacts(node[r])
        BY <1>1, <2>3 DEF OneVersion, Asg, NodeFacts
      <3>2. PageIsTrue(r)' /\ CountCovers(r)'
        BY <1>1, <2>1, <3>1 DEF PageIsTrue, CountCovers
      <3>3. RestIsAhead(r)'
        BY <1>1, <2>1, <3>1 DEF RestIsAhead
      <3>4. QED
        BY <3>2, <3>3
    <2>4. CASE got[r] = {} /\ NodeFacts(node[r]) \subseteq NodeFactsAfter(committed', node[r])
      <3>1. PageIsTrue(r)' /\ CountCovers(r)'
        BY <1>1, <2>4 DEF PageIsTrue, CountCovers
      <3> DEFINE S == NodeFacts(node[r])
                 T == NodeFactsAfter(committed', node[r])
      <3>2. T \in SUBSET FactPool /\ S \in SUBSET T
        BY <2>4, NodeFactsTyped
      <3>3. \A f : PlaceIn(S, f) \in Nat /\ PlaceIn(T, f) \in Nat /\ PlaceIn(S, f) <= PlaceIn(T, f)
        <4> HIDE DEF S, T
        <4>1. QED
          BY <3>2, PlacesGrow
      <3>4. offset[r] \in Nat
        BY DEF ReadInv, ReadersTyped
      <3>5. start[r] \subseteq T /\ \A f \in start[r] \ shown[r] : offset[r] <= PlaceIn(T, f)
        <4>1. start[r] \subseteq S /\ \A f \in start[r] \ shown[r] : offset[r] <= PlaceIn(S, f)
          BY <2>1 DEF RestIsAhead
        <4> HIDE DEF S, T
        <4>2. QED
          BY <3>2, <3>3, <3>4, <4>1
      <3>6. NodeFacts(node[r])' = T
        BY <1>1, <1>4
      <3>7. RestIsAhead(r)'
        <4> HIDE DEF T
        <4>1. QED
          BY <1>1, <3>5, <3>6 DEF RestIsAhead, PlaceIn, Before
      <3>8. QED
        BY <3>1, <3>7
    <2>5. QED
      BY <2>2, <2>3, <2>4
  <1>6. PagerMissesNothing'
    <2>1. SUFFICES ASSUME NEW r \in Readers, stage'[r] = "done", steady'[r], OneVersion(node[r])'
                   PROVE  start'[r] \subseteq shown'[r]
      BY DEF PagerMissesNothing
    <2>2. stage[r] = "done" /\ steady[r]
      BY <1>1, <1>2, <2>1
    <2>3. OneVersion(node[r])
      BY <1>1, <2>1, OneVersionGrows
    <2>4. QED
      BY <1>1, <2>2, <2>3 DEF ReadInv, PagerMissesNothing
  <1>7. QED
    BY <1>3, <1>5, <1>6 DEF LoadsSteadily

\* Nothing of reader q changes.
SameReader(q) ==
    /\ stage'[q] = stage[q] /\ node'[q] = node[q] /\ offset'[q] = offset[q] /\ count'[q] = count[q]
    /\ page'[q] = page[q] /\ got'[q] = got[q] /\ shown'[q] = shown[q] /\ start'[q] = start[q]
    /\ steady'[q] = steady[q]

\* The invariants of one reader.
ReaderOK(q) ==
    /\ stage[q] = "load" /\ steady[q] => PageIsTrue(q) /\ CountCovers(q) /\ RestIsAhead(q)
    /\ stage[q] = "done" /\ steady[q] /\ OneVersion(node[q]) => start[q] \subseteq shown[q]

LEMMA ReadersOK ==
  /\ ReadInv => \A q \in Readers : ReaderOK(q)
  /\ (\A q \in Readers : ReaderOK(q)) => LoadsSteadily /\ PagerMissesNothing
  BY DEF ReadInv, ReaderOK, LoadsSteadily, PagerMissesNothing

\* A reader nobody touches keeps them while the store does not move.
LEMMA SameReaderOK ==
  ASSUME NEW q \in Readers, ReaderOK(q), SameReader(q), UNCHANGED committed
  PROVE  ReaderOK(q)'
  <1>1. OneVersion(node[q])' = OneVersion(node[q]) /\ NodeFacts(node[q])' = NodeFacts(node[q])
    BY DEF OneVersion, Asg, NodeFacts, SameReader
  <1>2. PageIsTrue(q)' = PageIsTrue(q) /\ CountCovers(q)' = CountCovers(q) /\ RestIsAhead(q)' = RestIsAhead(q)
    <2>1. PageIsTrue(q)' = PageIsTrue(q)
      BY <1>1 DEF PageIsTrue, SameReader
    <2>2. CountCovers(q)' = CountCovers(q)
      BY <1>1 DEF CountCovers, SameReader
    <2>3. RestIsAhead(q)' = RestIsAhead(q)
      BY <1>1 DEF RestIsAhead, SameReader
    <2>4. QED
      BY <2>1, <2>2, <2>3
  <1>3. QED
    BY <1>1, <1>2 DEF ReaderOK, SameReader

\* A reader opens a node at its first facts.
LEMMA OpenNodeStep ==
  ASSUME ReadInv, NEW r \in Readers, OpenNode(r), UNCHANGED vars
  PROVE  ReadersTyped' /\ \A q \in Readers : ReaderOK(q)'
  <1>1. stage[r] = "idle" /\ got[r] = {} /\ offset[r] = 0
    BY DEF OpenNode, ReadInv, ReadersTyped
  <1>2. PICK n \in Nodes : node' = [node EXCEPT ![r] = n] /\ start' = [start EXCEPT ![r] = NodeFacts(n)]
    BY DEF OpenNode
  <1>3. stage' = [stage EXCEPT ![r] = "load"] /\ UNCHANGED <<offset, count, page, got, shown, steady>>
    BY DEF OpenNode, loading
  <1>4. UNCHANGED committed /\ committed \in SUBSET Transactions
    BY DEF vars, ReadInv, IInv, TypeOK
  <1>5. ReadersTyped'
    BY <1>1, <1>2, <1>3 DEF ReadInv, ReadersTyped
  <1>6. ASSUME NEW q \in Readers, q # r PROVE ReaderOK(q)'
    <2>1. SameReader(q)
      BY <1>2, <1>3, <1>6 DEF SameReader, ReadInv, ReadersTyped
    <2>2. QED
      BY <1>4, <2>1, ReadersOK, SameReaderOK
  <1>7. ReaderOK(r)'
    <2>1. stage'[r] = "load" /\ node'[r] = n /\ start'[r] = NodeFacts(n) /\ got'[r] = {} /\ offset'[r] = 0
      BY <1>1, <1>2, <1>3 DEF ReadInv, ReadersTyped
    <2>2. NodeFacts(n)' = NodeFacts(n)
      BY <1>4 DEF NodeFacts
    <2>3. \A f : 0 <= PlaceIn(NodeFacts(n), f)
      <3>1. NodeFacts(n) \in SUBSET FactPool
        BY <1>4, NodeFactsTyped DEF NodeFacts
      <3>2. \A f : PlaceIn(NodeFacts(n), f) \in Nat
        BY <3>1, PlacesGrow
      <3>3. QED
        BY <3>2
    <2>4. RestIsAhead(r)'
      BY <2>1, <2>2, <2>3 DEF RestIsAhead, PlaceIn, Before
    <2>5. PageIsTrue(r)' /\ CountCovers(r)'
      BY <2>1 DEF PageIsTrue, CountCovers
    <2>6. QED
      BY <2>1, <2>4, <2>5 DEF ReaderOK
  <1>8. QED
    BY <1>5, <1>6, <1>7

\* A page is shown: what the node had all along is on it, was shown before, or is
\* still ahead; and it is the last one only if nothing is.
LEMMA ShowPageStep ==
  ASSUME ReadInv, NEW r \in Readers, stage[r] = "load", NEW S, NEW n, ShowPage(r, S, n),
         UNCHANGED <<committed, node, start, steady>>,
         steady[r] => S = Page(NodeFacts(node[r]), PageSize, offset[r]),
         steady[r] /\ OneVersion(node[r]) => n \in Nat /\ Cardinality(NodeFacts(node[r])) <= n
  PROVE  ReaderOK(r)'
  <1> DEFINE N == NodeFacts(node[r])
             o == offset[r]
  <1>1. /\ o \in Nat /\ committed \in SUBSET Transactions
        /\ stage \in [Readers -> {"idle", "load", "notFound", "done"}] /\ offset \in [Readers -> Nat]
        /\ DOMAIN got = Readers /\ DOMAIN shown = Readers
    BY DEF ReadInv, ReadersTyped, IInv, TypeOK
  <1>2. shown'[r] = shown[r] \cup S /\ got'[r] = {}
    BY <1>1 DEF ShowPage
  <1>3. SUFFICES ASSUME steady[r] PROVE ReaderOK(r)'
    BY DEF ReaderOK
  <1>4. start[r] \subseteq N /\ \A f \in start[r] \ shown[r] : o <= PlaceIn(N, f)
    BY <1>3 DEF ReadInv, LoadsSteadily, RestIsAhead
  <1>5. N \in SUBSET FactPool
    BY <1>1, NodeFactsTyped DEF NodeFacts
  <1>6. S = Page(N, PageSize, o)
    BY <1>3
  <1>7. /\ Cardinality(S) \in Nat /\ Cardinality(S) <= PageSize
        /\ \A f \in N \ S : o <= PlaceIn(N, f) => o + PageSize <= PlaceIn(N, f)
    <2> HIDE DEF N, o
    <2>1. QED
      BY <1>1, <1>5, <1>6, PageFacts
  <1>8. \A f \in start[r] \ shown'[r] : f \in N /\ o + PageSize <= PlaceIn(N, f)
    <2> HIDE DEF N, o
    <2>1. QED
      BY <1>2, <1>4, <1>7
  <1>9. OneVersion(node[r])' = OneVersion(node[r]) /\ NodeFacts(node[r])' = N
    BY DEF OneVersion, Asg, NodeFacts
  <1>10. CASE o + Cardinality(S) < n
    <2>1. offset'[r] = o + PageSize /\ stage'[r] = "load"
      BY <1>1, <1>10 DEF ShowPage
    <2>2. PageIsTrue(r)' /\ CountCovers(r)'
      BY <1>2 DEF PageIsTrue, CountCovers
    <2>3. RestIsAhead(r)'
      <3> HIDE DEF N, o
      <3>1. QED
        BY <1>4, <1>8, <1>9, <2>1 DEF RestIsAhead, PlaceIn, Before
    <2>4. QED
      BY <2>1, <2>2, <2>3 DEF ReaderOK
  <1>11. CASE ~ (o + Cardinality(S) < n)
    <2>1. stage'[r] = "done"
      BY <1>1, <1>11 DEF ShowPage
    <2>2. ASSUME OneVersion(node[r])', NEW f \in start[r] \ shown'[r] PROVE FALSE
      <3>1. n \in Nat /\ Cardinality(N) <= n
        BY <1>3, <1>9, <2>2
      <3>2. PlaceIn(N, f) \in Nat /\ PlaceIn(N, f) < Cardinality(N) /\ Cardinality(N) \in Nat
        <4>1. f \in N
          BY <1>8, <2>2
        <4> HIDE DEF N
        <4>2. QED
          BY <1>5, <4>1, PlacesDiffer, PoolIsFinite
      <3>3. o + PageSize <= PlaceIn(N, f)
        BY <1>8, <2>2
      <3>4. PageSize \in Nat
        BY LimitsAssumption
      <3> HIDE DEF N, o
      <3>5. QED
        BY <1>1, <1>7, <1>11, <3>1, <3>2, <3>3, <3>4
    <2>3. QED
      BY <2>1, <2>2 DEF ReaderOK
  <1>12. QED
    BY <1>10, <1>11

\* An answer is kept until the other one comes.
LEMMA WaitStep ==
  ASSUME ReadInv, NEW r \in Readers, stage[r] = "load", NEW answer, Waits(r, answer),
         UNCHANGED <<committed, node, start, steady>>,
         steady[r] => PageIsTrue(r)' /\ CountCovers(r)'
  PROVE  ReaderOK(r)'
  <1>1. UNCHANGED <<stage, offset, shown>>
    BY DEF Waits
  <1>2. NodeFacts(node[r])' = NodeFacts(node[r])
    BY DEF NodeFacts
  <1>3. steady[r] => RestIsAhead(r)'
    BY <1>1, <1>2 DEF ReadInv, LoadsSteadily, RestIsAhead, PlaceIn, Before
  <1>4. QED
    BY <1>1, <1>3 DEF ReaderOK

\* What ShowPage and Waits do to the types, and to the readers they are not about.
LEMMA AnswerEffect ==
  ASSUME ReadInv, NEW r \in Readers, stage[r] = "load",
         UNCHANGED <<committed, node, start, steady>>,
         DOMAIN count' = Readers, \A q \in Readers \ {r} : count'[q] = count[q],
         DOMAIN page' = Readers, \A q \in Readers \ {r} : page'[q] = page[q],
         \/ \E S, n : ShowPage(r, S, n)
         \/ \E answer : Waits(r, answer)
         \/ stage' = [stage EXCEPT ![r] = "notFound"] /\ UNCHANGED <<offset, got, shown>>
  PROVE  ReadersTyped' /\ \A q \in Readers \ {r} : SameReader(q)
  <1>1. ReadersTyped
    BY DEF ReadInv
  <1>2. PageSize \in Nat
    BY LimitsAssumption
  <1>3. /\ stage' = stage \/ \E x \in {"notFound", "done"} : stage' = [stage EXCEPT ![r] = x]
        /\ offset' = offset \/ offset' = [offset EXCEPT ![r] = offset[r] + PageSize]
        /\ got' = got \/ \E x : got' = [got EXCEPT ![r] = x]
        /\ shown' = shown \/ \E x : shown' = [shown EXCEPT ![r] = x]
    <2>1. ASSUME NEW S, NEW n, ShowPage(r, S, n)
          PROVE  /\ stage' = stage \/ stage' = [stage EXCEPT ![r] = "done"]
                 /\ offset' = offset \/ offset' = [offset EXCEPT ![r] = offset[r] + PageSize]
                 /\ got' = [got EXCEPT ![r] = {}]
                 /\ shown' = [shown EXCEPT ![r] = shown[r] \cup S]
      <3>1. /\ got' = [got EXCEPT ![r] = {}]
            /\ shown' = [shown EXCEPT ![r] = shown[r] \cup S]
        BY <2>1 DEF ShowPage
      <3>2. \/ offset' = [offset EXCEPT ![r] = offset[r] + PageSize] /\ stage' = stage
            \/ stage' = [stage EXCEPT ![r] = "done"] /\ offset' = offset
        BY <2>1 DEF ShowPage
      <3>3. QED
        BY <3>1, <3>2
    <2>2. ASSUME NEW answer, Waits(r, answer)
          PROVE  /\ stage' = stage /\ offset' = offset /\ shown' = shown
                 /\ got' = [got EXCEPT ![r] = got[r] \cup {answer}]
      BY <2>2 DEF Waits
    <2>3. CASE \E S, n : ShowPage(r, S, n)
      BY <2>1, <2>3
    <2>4. CASE \E answer : Waits(r, answer)
      BY <2>2, <2>4
    <2>5. CASE stage' = [stage EXCEPT ![r] = "notFound"] /\ UNCHANGED <<offset, got, shown>>
      BY <2>5
    <2>6. QED
      BY <2>3, <2>4, <2>5
  <1>4. /\ stage' \in [Readers -> {"idle", "load", "notFound", "done"}] /\ stage'[r] # "idle"
        /\ \A q \in Readers \ {r} : stage'[q] = stage[q]
    BY <1>1, <1>3 DEF ReadersTyped
  <1>5. offset' \in [Readers -> Nat] /\ \A q \in Readers \ {r} : offset'[q] = offset[q]
    BY <1>1, <1>2, <1>3 DEF ReadersTyped
  <1>6. /\ DOMAIN got' = Readers /\ \A q \in Readers \ {r} : got'[q] = got[q]
        /\ DOMAIN shown' = Readers /\ \A q \in Readers \ {r} : shown'[q] = shown[q]
    BY <1>1, <1>3 DEF ReadersTyped
  <1>7. ReadersTyped'
    BY <1>1, <1>4, <1>5, <1>6 DEF ReadersTyped
  <1>8. QED
    BY <1>4, <1>5, <1>6, <1>7 DEF SameReader

\* /view answers.
LEMMA ReadViewStep ==
  ASSUME ReadInv, NEW r \in Readers, ReadView(r), UNCHANGED vars
  PROVE  ReadersTyped' /\ \A q \in Readers : ReaderOK(q)'
  <1> DEFINE nodes == View(node[r].dim).nodes
             c == node[r].code
             k == nodes[c].count
  <1>1. stage[r] = "load" /\ "view" \notin got[r] /\ UNCHANGED <<node, start, steady>>
    BY DEF ReadView
  <1>2. UNCHANGED committed /\ committed \in SUBSET Transactions
    BY DEF vars, ReadInv, IInv, TypeOK
  <1>3. DOMAIN count = Readers /\ DOMAIN page = Readers /\ DOMAIN stage = Readers /\ DOMAIN got = Readers
    BY DEF ReadInv, ReadersTyped
  <1>4. ASSUME ReadersTyped', \A q \in Readers \ {r} : SameReader(q), ReaderOK(r)'
        PROVE  ReadersTyped' /\ \A q \in Readers : ReaderOK(q)'
    <2>1. ASSUME NEW q \in Readers, q # r PROVE ReaderOK(q)'
      BY <1>2, <1>4, <2>1, ReadersOK, SameReaderOK
    <2>2. QED
      BY <1>4, <2>1
  <1>5. CASE c \notin DOMAIN nodes
    <2>1. stage' = [stage EXCEPT ![r] = "notFound"] /\ UNCHANGED <<offset, count, page, got, shown>>
      BY <1>5 DEF ReadView, loading
    <2>2. ReadersTyped' /\ \A q \in Readers \ {r} : SameReader(q)
      BY <1>1, <1>2, <1>3, <2>1, AnswerEffect
    <2>3. ReaderOK(r)'
      BY <1>3, <2>1 DEF ReaderOK
    <2>4. QED
      BY <1>4, <2>2, <2>3
  <1>6. CASE c \in DOMAIN nodes
    <2>1. /\ count' = [count EXCEPT ![r] = k] /\ page' = page
          /\ IF "facts" \in got[r] THEN ShowPage(r, page[r], k) ELSE Waits(r, "view")
      BY <1>6 DEF ReadView
    <2>2. DOMAIN count' = Readers /\ count'[r] = k /\ \A q \in Readers \ {r} : count'[q] = count[q]
      BY <1>3, <2>1
    <2>3. ReadersTyped' /\ \A q \in Readers \ {r} : SameReader(q)
      <3>1. (\E S, n : ShowPage(r, S, n)) \/ (\E answer : Waits(r, answer))
        BY <2>1
      <3>2. DOMAIN page' = Readers /\ \A q \in Readers \ {r} : page'[q] = page[q]
        BY <1>3, <2>1
      <3>3. QED
        BY <1>1, <1>2, <2>2, <3>1, <3>2, AnswerEffect
    <2>4. OneVersion(node[r]) => k \in Nat /\ Cardinality(NodeFacts(node[r])) <= k
      BY <1>2, <1>6, NodeCountCovers
    <2>5. CASE "facts" \in got[r]
      <3>1. steady[r] => page[r] = Page(NodeFacts(node[r]), PageSize, offset[r])
        BY <1>1, <2>5 DEF ReadInv, LoadsSteadily, PageIsTrue
      <3>2. ShowPage(r, page[r], k)
        BY <2>1, <2>5
      <3>3. ReaderOK(r)'
        <4> HIDE DEF k
        <4>1. QED
          BY <1>1, <1>2, <2>4, <3>1, <3>2, ShowPageStep
      <3>4. QED
        BY <1>4, <2>3, <3>3
    <2>6. CASE "facts" \notin got[r]
      <3>1. Waits(r, "view")
        BY <2>1, <2>6
      <3>2. got'[r] = got[r] \cup {"view"}
        BY <1>3, <3>1 DEF Waits
      <3>3. PageIsTrue(r)'
        BY <2>6, <3>2 DEF PageIsTrue
      <3>4. OneVersion(node[r])' = OneVersion(node[r]) /\ NodeFacts(node[r])' = NodeFacts(node[r])
        BY <1>1, <1>2 DEF OneVersion, Asg, NodeFacts
      <3>5. CountCovers(r)'
        <4> HIDE DEF k
        <4>1. QED
          BY <1>1, <2>2, <2>4, <3>4 DEF CountCovers
      <3>6. ReaderOK(r)'
        BY <1>1, <1>2, <3>1, <3>3, <3>5, WaitStep
      <3>7. QED
        BY <1>4, <2>3, <3>6
    <2>7. QED
      BY <2>5, <2>6
  <1>7. QED
    BY <1>5, <1>6

\* /v1/facts answers.
LEMMA ReadFactsStep ==
  ASSUME ReadInv, NEW r \in Readers, ReadFacts(r), UNCHANGED vars
  PROVE  ReadersTyped' /\ \A q \in Readers : ReaderOK(q)'
  <1> DEFINE S == Page(NodeFacts(node[r]), PageSize, offset[r])
  <1>1. stage[r] = "load" /\ "facts" \notin got[r] /\ UNCHANGED <<node, start, steady>>
    BY DEF ReadFacts
  <1>2. UNCHANGED committed
    BY DEF vars
  <1>3. DOMAIN count = Readers /\ DOMAIN page = Readers /\ DOMAIN got = Readers
    BY DEF ReadInv, ReadersTyped
  <1>4. /\ page' = [page EXCEPT ![r] = S] /\ count' = count
        /\ IF "view" \in got[r] THEN ShowPage(r, S, count[r]) ELSE Waits(r, "facts")
    BY ClampIsPageSize DEF ReadFacts
  <1>5. DOMAIN page' = Readers /\ page'[r] = S /\ \A q \in Readers \ {r} : page'[q] = page[q]
    BY <1>3, <1>4
  <1>6. ReadersTyped' /\ \A q \in Readers \ {r} : SameReader(q)
    <2>1. (\E T, n : ShowPage(r, T, n)) \/ (\E answer : Waits(r, answer))
      BY <1>4
    <2>2. DOMAIN count' = Readers /\ \A q \in Readers \ {r} : count'[q] = count[q]
      BY <1>3, <1>4
    <2>3. QED
      BY <1>1, <1>2, <1>5, <2>1, <2>2, AnswerEffect
  <1>7. ReaderOK(r)'
    <2>1. CASE "view" \in got[r]
      <3>1. steady[r] /\ OneVersion(node[r]) => count[r] \in Nat /\ Cardinality(NodeFacts(node[r])) <= count[r]
        BY <1>1, <2>1 DEF ReadInv, LoadsSteadily, CountCovers
      <3>2. ShowPage(r, S, count[r])
        BY <1>4, <2>1
      <3>3. steady[r] => S = Page(NodeFacts(node[r]), PageSize, offset[r])
        OBVIOUS
      <3> HIDE DEF S
      <3>4. QED
        BY <1>1, <1>2, <3>1, <3>2, <3>3, ShowPageStep
    <2>2. CASE "view" \notin got[r]
      <3>1. Waits(r, "facts")
        BY <1>4, <2>2
      <3>2. got'[r] = got[r] \cup {"facts"} /\ offset' = offset
        BY <1>3, <3>1 DEF Waits
      <3>3. CountCovers(r)'
        BY <2>2, <3>2 DEF CountCovers
      <3>4. NodeFacts(node[r])' = NodeFacts(node[r])
        BY <1>1, <1>2 DEF NodeFacts
      <3>5. PageIsTrue(r)'
        BY <1>5, <3>2, <3>4 DEF PageIsTrue, Page, Before
      <3>6. QED
        BY <1>1, <1>2, <3>1, <3>3, <3>5, WaitStep
    <2>3. QED
      BY <2>1, <2>2
  <1>8. ASSUME NEW q \in Readers, q # r PROVE ReaderOK(q)'
    BY <1>2, <1>6, <1>8, ReadersOK, SameReaderOK
  <1>9. QED
    BY <1>6, <1>7, <1>8

-----------------------------------------------------------------------------
(***************************************************************************)
(* The invariant, and the theorems.                                        *)
(***************************************************************************)
LEMMA ReadInvInit == ReadApiInit => ReadInv
  <1> SUFFICES ASSUME ReadApiInit PROVE ReadInv
    OBVIOUS
  <1>1. IInv
    BY InvInit DEF ReadApiInit
  <1>2. ReadersTyped
    BY DEF ReadApiInit, ReadersTyped
  <1>3. LoadsSteadily /\ PagerMissesNothing
    BY DEF ReadApiInit, LoadsSteadily, PagerMissesNothing
  <1>4. QED
    BY <1>1, <1>2, <1>3 DEF ReadInv

LEMMA ReadInvStep == ReadInv /\ [ReadApiNext]_<<vars, readers>> => ReadInv'
  <1> SUFFICES ASSUME ReadInv, [ReadApiNext]_<<vars, readers>> PROVE ReadInv'
    OBVIOUS
  <1>1. CASE StoreStep
    <2>1. Next
      BY <1>1 DEF StoreStep
    <2>2. IInv'
      BY <2>1, InvStep DEF ReadInv
    <2>3. committed \subseteq committed'
      BY <2>1 DEF Next, Commit, StoreCommit, Read, Upload, Register, Fail
    <2>4. committed' \subseteq Transactions
      BY <2>2 DEF IInv, TypeOK
    <2>5. QED
      BY <1>1, <2>2, <2>3, <2>4, StoreStepKeeps DEF ReadInv
  <1>2. ASSUME UNCHANGED vars PROVE IInv'
    BY <1>2, InvStep DEF ReadInv
  <1>3. ASSUME NEW r \in Readers, OpenNode(r) \/ ReadView(r) \/ ReadFacts(r), UNCHANGED vars PROVE ReadInv'
    <2>1. ReadersTyped' /\ \A q \in Readers : ReaderOK(q)'
      BY <1>3, OpenNodeStep, ReadViewStep, ReadFactsStep
    <2>2. LoadsSteadily' /\ PagerMissesNothing'
      BY <2>1 DEF ReaderOK, LoadsSteadily, PagerMissesNothing
    <2>3. QED
      BY <1>2, <1>3, <2>1, <2>2 DEF ReadInv
  <1>4. CASE UNCHANGED <<vars, readers>>
    <2>1. UNCHANGED vars /\ UNCHANGED <<stage, node, offset, count, page, got, shown, start, steady>>
      BY <1>4 DEF readers, loading, history
    <2>2. ReadersTyped'
      BY <2>1 DEF ReadInv, ReadersTyped
    <2>3. \A q \in Readers : ReaderOK(q)'
      <3>1. \A q \in Readers : SameReader(q)
        BY <2>1 DEF SameReader
      <3>2. UNCHANGED committed
        BY <2>1 DEF vars
      <3>3. QED
        BY <3>1, <3>2, ReadersOK, SameReaderOK
    <2>4. LoadsSteadily' /\ PagerMissesNothing'
      BY <2>3 DEF ReaderOK, LoadsSteadily, PagerMissesNothing
    <2>5. QED
      BY <1>2, <2>1, <2>2, <2>4 DEF ReadInv
  <1>5. QED
    BY <1>1, <1>3, <1>4 DEF ReadApiNext

\* The inductive invariant of readers and exports together.
THEOREM ReadInvariance == ReadApiSpec => []ReadInv
  BY ReadInvInit, ReadInvStep, PTL DEF ReadApiSpec

\* Readers change nothing: with them or without, the store and its exports behave
\* alike, so what holds of exports holds while the site is read.
THEOREM ReadersOnlyRead == ReadApiSpec => Spec
  <1>1. ReadApiInit => Init
    BY DEF ReadApiInit
  <1>2. [ReadApiNext]_<<vars, readers>> => [Next]_vars
    BY DEF ReadApiNext, StoreStep
  <1>3. QED
    BY <1>1, <1>2, PTL DEF ReadApiSpec, Spec

\* What is proved of exports alone is so while readers page through the site.
COROLLARY ExportsWhileRead ==
  ReadApiSpec => [](TypeOK /\ ExportIsClosed /\ DuckMirrorsStore /\ RegisteredIsFetchable
                    /\ LaterExportsHoldMore)
  BY ReadersOnlyRead, TypeCorrect, ExportsAreClosed, DuckMirrorsTheStore, ExportsAreFetchable,
     LaterExportsGrow, PTL

\* A reader who pages to the end has seen every fact that was there all along,
\* however many were added meanwhile, and whatever the page size.
THEOREM PagersMissNothing == ReadApiSpec => []PagerMissesNothing
  <1>1. ReadInv => PagerMissesNothing
    BY DEF ReadInv
  <1>2. QED
    BY <1>1, ReadInvariance, PTL

-----------------------------------------------------------------------------
(***************************************************************************)
(* The queries over one store.                                             *)
(***************************************************************************)
ScopeOf(f) == [jur |-> f.jur, year |-> f.year, flow |-> f.flow]

\* The scopes of the facts are finitely many, and a scope's facts are those that are
\* in it.
LEMMA ScopesFacts ==
  ASSUME committed \in SUBSET Transactions
  PROVE  /\ IsFiniteSet(Facts) /\ \A f \in Facts : f \in FactPool /\ f.amount \in Int
         /\ IsFiniteSet(Scopes) /\ \A f \in Facts : ScopeOf(f) \in Scopes
         /\ \A t \in Scopes : \A f \in Current(Facts) : f \in InScope(Facts, t) <=> ScopeOf(f) = t
  <1>1. IsFiniteSet(Facts) /\ Facts \subseteq FactPool /\ \A f \in Facts : f.amount \in Int
    BY FactsAreFinite DEF Facts
  <1> DEFINE b == [f \in Facts |-> ScopeOf(f)]
  <1>2. Scopes = {ScopeOf(f) : f \in Facts}
    BY DEF Scopes, ScopeOf
  <1>3. b \in Surjection(Facts, Scopes)
    BY <1>2 DEF Surjection
  <1>4. IsFiniteSet(Scopes)
    <2> HIDE DEF b
    <2>1. QED
      BY <1>1, <1>3, FS_Surjection
  <1>5. ASSUME NEW t \in Scopes, NEW f \in Current(Facts)
        PROVE  f \in InScope(Facts, t) <=> ScopeOf(f) = t
    <2>1. PICK g \in Facts : t = [jur |-> g.jur, year |-> g.year, flow |-> g.flow]
      BY DEF Scopes
    <2>2. t.jur = g.jur /\ t.year = g.year /\ t.flow = g.flow
      BY <2>1
    <2>3. ScopeOf(f) = t <=> f.jur = t.jur /\ f.year = t.year /\ f.flow = t.flow
      BY <2>1, <2>2 DEF ScopeOf
    <2>4. QED
      BY <2>3 DEF InScope
  <1>6. QED
    BY <1>1, <1>2, <1>4, <1>5

\* Amounts by scope add up: a set of current facts, whose scopes are among K, is the
\* union of what it has in each.
LEMMA AmountByScope ==
  ASSUME committed \in SUBSET Transactions, NEW S \in SUBSET Current(Facts),
         NEW K \in SUBSET Scopes, \A f \in S : ScopeOf(f) \in K,
         NEW h, DOMAIN h = K, \A t \in K : h[t] = AmountOf({f \in S : ScopeOf(f) = t})
  PROVE  SumFunction(h) = AmountOf(S)
  <1> DEFINE key == [f \in S |-> ScopeOf(f)]
  <1>1. S \subseteq Facts
    BY DEF Current
  <1>2. IsFiniteSet(S) /\ IsFiniteSet(K) /\ \A f \in S : f.amount \in Int
    BY <1>1, ScopesFacts, FS_Subset
  <1>3. key \in [S -> K]
    OBVIOUS
  <1>4. \A t \in K : Group(S, key, t) = {f \in S : ScopeOf(f) = t}
    BY DEF Group
  <1>5. \A t \in K : h[t] = AmountOf(Group(S, key, t))
    <2> HIDE DEF key
    <2>1. QED
      BY <1>4
  <1>6. QED
    <2> HIDE DEF key
    <2>1. QED
      BY <1>2, <1>3, <1>5, AmountOfGroups

\* A payee's cross-cut of a year is what its nodes list, over all scopes of the year.
LEMMA FlowsAddUp ==
  ASSUME committed \in SUBSET Transactions, NEW p, NEW year
  PROVE  EntityFlows(Facts, Asg, p, year, Scheme).total
           = SumFunction([t \in {u \in Scopes : u.year = year} |-> AmountOf(ListPayeeFacts(Facts, t, p))])
  <1> DEFINE S == {f \in Current(Facts) : f.payee = p /\ f.year = year}
             K == {u \in Scopes : u.year = year}
             h == [t \in K |-> AmountOf(ListPayeeFacts(Facts, t, p))]
  <1>1. EntityFlows(Facts, Asg, p, year, Scheme).total = AmountOf(S)
    BY ScopesFacts, EntityFlowsCountAll
  <1>2. S \in SUBSET Current(Facts) /\ K \in SUBSET Scopes
    OBVIOUS
  <1>3. \A f \in S : ScopeOf(f) \in K
    <2>1. SUFFICES ASSUME NEW f \in S PROVE ScopeOf(f) \in Scopes /\ ScopeOf(f).year = year
      OBVIOUS
    <2>2. f \in Facts
      BY DEF Current
    <2>3. ScopeOf(f).year = f.year
      BY DEF ScopeOf
    <2>4. QED
      BY <2>2, <2>3, ScopesFacts
  <1>4. ASSUME NEW t \in K PROVE ListPayeeFacts(Facts, t, p) = {f \in S : ScopeOf(f) = t}
    <2>1. \A f \in Current(Facts) : f \in InScope(Facts, t) <=> ScopeOf(f) = t
      BY ScopesFacts
    <2>2. \A f \in InScope(Facts, t) : f \in Current(Facts) /\ f.year = year
      BY DEF InScope
    <2>3. QED
      BY <2>1, <2>2 DEF ListPayeeFacts
  <1>5. DOMAIN h = K /\ \A t \in K : h[t] = AmountOf({f \in S : ScopeOf(f) = t})
    <2>1. \A t \in K : AmountOf(ListPayeeFacts(Facts, t, p)) = AmountOf({f \in S : ScopeOf(f) = t})
      <3> HIDE DEF S, K
      <3>1. QED
        BY <1>4, Zenon
    <2>2. QED
      BY <2>1
  <1>6. SumFunction(h) = AmountOf(S)
    <2> HIDE DEF h, S, K
    <2>1. QED
      BY <1>2, <1>3, <1>5, AmountByScope
  <1>7. QED
    BY <1>1, <1>6

\* The comparison of a jurisdiction counts what the drill-downs of its scopes list.
LEMMA ComparisonAddsUp ==
  ASSUME committed \in SUBSET Transactions, NEW scheme, NEW code, code # Unclassified,
         CodedOnce(scheme, code), NEW jur
  PROVE  Compare(Facts, Asg, scheme, code, jur).count
           = SumFunction([t \in {u \in Scopes : u.jur = jur} |->
                            Cardinality(ListFacts(Facts, Asg, t, scheme, code))])
  <1> DEFINE S == EverCoded(Facts, Asg, scheme, code, jur)
             K == {u \in Scopes : u.jur = jur}
             key == [f \in S |-> ScopeOf(f)]
             h == [t \in K |-> Cardinality(ListFacts(Facts, Asg, t, scheme, code))]
  <1>1. Compare(Facts, Asg, scheme, code, jur).count = Cardinality(S)
    <2>1. \A a, b \in Asg : a.scheme = scheme /\ a.code = code /\ b.scheme = scheme /\ b.code = code
                              /\ a.fact = b.fact => a = b
      BY DEF CodedOnce
    <2>2. QED
      BY <2>1, ScopesFacts, ComparisonCounts
  <1>2. S \subseteq Facts /\ \A f \in S : f \in Current(Facts) /\ f.jur = jur
    BY DEF EverCoded, Current
  <1>3. IsFiniteSet(S) /\ IsFiniteSet(K)
    <2> HIDE DEF S
    <2>1. QED
      BY <1>2, ScopesFacts, FS_Subset
  <1>4. key \in [S -> K]
    <2>1. ASSUME NEW f \in S PROVE ScopeOf(f) \in Scopes /\ ScopeOf(f).jur = jur
      <3>1. ScopeOf(f).jur = f.jur
        BY DEF ScopeOf
      <3>2. QED
        BY <1>2, <3>1, ScopesFacts
    <2>2. QED
      BY <2>1
  <1>5. ASSUME NEW t \in K PROVE ListFacts(Facts, Asg, t, scheme, code) = Group(S, key, t)
    <2>1. \A f \in Current(Facts) : f \in InScope(Facts, t) <=> ScopeOf(f) = t
      BY ScopesFacts
    <2>2. \A f \in InScope(Facts, t) : f \in Current(Facts) /\ f.jur = jur
      BY DEF InScope
    <2>3. ListFacts(Facts, Asg, t, scheme, code)
            = {f \in InScope(Facts, t) : \E a \in Versions(Asg, f, scheme) : a.code = code}
      BY DEF ListFacts
    <2>4. Group(S, key, t) = {f \in S : ScopeOf(f) = t}
      BY DEF Group
    <2>5. QED
      BY <2>1, <2>2, <2>3, <2>4 DEF EverCoded
  <1>6. \A t \in K : h[t] = Cardinality(Group(S, key, t))
    <2>1. \A t \in K : Cardinality(ListFacts(Facts, Asg, t, scheme, code)) = Cardinality(Group(S, key, t))
      <3> HIDE DEF S, K, key
      <3>1. QED
        BY <1>5, Zenon
    <2>2. QED
      BY <2>1
  <1>7. SumFunction(h) = Cardinality(S)
    <2>1. DOMAIN h = K
      OBVIOUS
    <2> HIDE DEF S, K, key, h
    <2>2. QED
      BY <1>3, <1>4, <1>6, <2>1, SizeOfGroups
  <1>8. QED
    BY <1>1, <1>7

\* Where all facts of a partition are spending, the spending tree counts the coverage
\* numerator and the aggregate facts.
LEMMA CoverageAddsUp ==
  ASSUME committed \in SUBSET Transactions, NEW s
  PROVE  CoverageIsOfTree(s)
  <1> DEFINE t == [s EXCEPT !.flow = "spending"]
             S == {f \in Current(Facts) : f.jur = s.jur /\ f.year = s.year}
             E == {f \in Current(Facts) : f.jur = s.jur /\ f.year = s.year /\ f.grain \in {"transaction", "award"}}
             G == {f \in S : f.grain = "aggregate"}
  <1>1. SUFFICES ASSUME SpendingOnly(S)
                 PROVE  CoverageNumerator(Facts, s.jur, s.year) + AmountOf(G)
                          = ViewByScheme(Facts, Asg, t, Scheme).total
    BY DEF CoverageIsOfTree
  <1>2. S = InScope(Facts, t)
    BY <1>1 DEF SpendingOnly, InScope
  <1>3. ViewByScheme(Facts, Asg, t, Scheme).total = AmountOf(InScope(Facts, t))
    <2> HIDE DEF t
    <2>1. QED
      BY ScopesFacts, ViewBySchemeCountsAll
  <1>4. S \subseteq Facts /\ \A f \in Facts : f \in FactPool /\ f.amount \in Int
    BY ScopesFacts DEF Current
  <1>5. S = E \cup G /\ E \cap G = {}
    <2>1. \A f \in S : f.grain \in {"transaction", "award", "aggregate"}
      BY <1>4, TransactionsAssumption
    <2>2. QED
      BY <2>1
  <1>6. AmountOf(E \cup G) = AmountOf(E) + AmountOf(G)
    <2>1. IsFiniteSet(Facts) /\ E \subseteq Facts /\ G \subseteq Facts
      BY <1>4, ScopesFacts
    <2>2. IsFiniteSet(E) /\ IsFiniteSet(G) /\ \A f \in E \cup G : f.amount \in Int
      <3> HIDE DEF E, G
      <3>1. QED
        BY <1>4, <2>1, FS_Subset
    <2> HIDE DEF E, G
    <2>3. QED
      BY <1>5, <2>2, AmountOfUnion
  <1>7. CoverageNumerator(Facts, s.jur, s.year) = AmountOf(E)
    BY DEF CoverageNumerator
  <1>8. QED
    <2> HIDE DEF S, E, G, t
    <2>1. QED
      BY <1>2, <1>3, <1>5, <1>6, <1>7, Zenon

\* The trees of a scope count the same facts, and their drill-downs list them.
LEMMA TreesAreOne ==
  ASSUME committed \in SUBSET Transactions, NEW s
  PROVE  TreesAgree(s)
  <1> DEFINE byPayee == ViewByPayee(Facts, PayeesOf(Facts), s)
  <1>1. IsFiniteSet(Facts) /\ \A f \in Facts : f.amount \in Int
    BY ScopesFacts
  <1>2. IsFiniteSet(Asg) /\ \A a \in Asg : a.code \in Nat \ {Unclassified} /\ a.version \in Nat
    <2>1. Asg \subseteq AsgPool
      BY FactsGrow DEF Asg, AsgPool
    <2>2. QED
      BY <2>1, TransactionsAssumption, FS_Subset
  <1>3. byPayee.total = AmountOf(InScope(Facts, s)) /\ byPayee.count = Cardinality(InScope(Facts, s))
    <2> DEFINE entities == PayeesOf(Facts)
    <2> HIDE DEF entities, byPayee
    <2>1. byPayee = ViewByPayee(Facts, entities, s)
      BY DEF byPayee, entities
    <2>2. QED
      BY <1>1, <2>1, ViewByPayeeCountsAll
  <1>4. ASSUME NEW scheme
        PROVE  LET v == ViewByScheme(Facts, Asg, s, scheme)
               IN  /\ v.total = byPayee.total
                   /\ v.count = byPayee.count
                   /\ \A c \in DOMAIN v.nodes :
                         v.nodes[c].count = Cardinality({f \in ListFacts(Facts, Asg, s, scheme, c) :
                                                            CodeOf(Asg, f, scheme) = c})
    <2> DEFINE v == ViewByScheme(Facts, Asg, s, scheme)
    <2> HIDE DEF byPayee, v
    <2>1. v = ViewByScheme(Facts, Asg, s, scheme)
      BY DEF v
    <2>2. v.total = byPayee.total /\ v.count = byPayee.count
      BY <1>1, <1>3, <2>1, ViewBySchemeCountsAll
    <2>3. \A c \in DOMAIN v.nodes :
             v.nodes[c].count = Cardinality({f \in ListFacts(Facts, Asg, s, scheme, c) :
                                                CodeOf(Asg, f, scheme) = c})
      BY <1>1, <1>2, <2>1, NodesAreListed
    <2>4. QED
      BY <2>2, <2>3 DEF v
  <1>5. QED
    BY <1>4 DEF TreesAgree

\* Whatever has committed, the queries tell one story: trees, nodes, drill-downs,
\* comparisons, cross-cuts and coverage add up to each other, with no fact counted
\* twice or lost, as far as each of them may be held to it.
THEOREM QueriesTellOneStory == ReadApiSpec => []QueriesAgree
  <1>1. ASSUME committed \in SUBSET Transactions, NEW s \in Scopes
        PROVE  PayeeNodesAreListed(s) /\ TreesAgree(s) /\ ComparisonIsListed(s) /\ CrossCutAddsUp(s)
                 /\ CoverageIsOfTree(s)
    <2>1. PayeeNodesAreListed(s)
      <3>1. ASSUME NEW p \in PayeesOf(Facts), ListPayeeFacts(Facts, s, p) # {}
            PROVE  ViewByPayee(Facts, PayeesOf(Facts), s).nodes[p]
                     = [count |-> Cardinality(ListPayeeFacts(Facts, s, p)),
                        amount |-> AmountOf(ListPayeeFacts(Facts, s, p))]
        <4>1. p \in PayeesOf(Facts) \ {Unclassified}
          BY DEF PayeesOf
        <4>2. QED
          BY <1>1, <3>1, <4>1, ScopesFacts, ViewByPayeeCountsAll
      <3>2. QED
        BY <3>1 DEF PayeeNodesAreListed
    <2>2. ComparisonIsListed(s)
      <3>1. \A code \in {a.code : a \in Asg} : code # Unclassified
        <4>1. Asg \subseteq AsgPool
          BY <1>1, FactsGrow DEF Asg, AsgPool
        <4>2. QED
          BY <4>1, TransactionsAssumption
      <3>2. QED
        BY <1>1, <3>1, ComparisonAddsUp DEF ComparisonIsListed
    <2>3. CrossCutAddsUp(s)
      BY <1>1, FlowsAddUp DEF CrossCutAddsUp
    <2>4. QED
      BY <1>1, <2>1, <2>2, <2>3, TreesAreOne, CoverageAddsUp
  <1>2. ReadInv => QueriesAgree
    BY <1>1 DEF ReadInv, IInv, TypeOK, QueriesAgree
  <1>3. QED
    BY <1>2, ReadInvariance, PTL
=============================================================================
