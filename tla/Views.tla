------------------------------- MODULE Views -------------------------------
(***************************************************************************)
(* The read queries of the Outlays store, over a set F of fiscal_fact rows *)
(* and a set A of classification_assignment rows.                          *)
(*                                                                         *)
(* A fact is [id, jur, year, flow, grain, amount, payee, supersedes]; an   *)
(* assignment is [fact, scheme, code, by, basis, version].  Codes and      *)
(* payees are positive numbers, codes ordered as the queries order their   *)
(* text; a payee is Unclassified where the column is NULL; amounts are in  *)
(* minor units; a scope is [jur, year, flow].                              *)
(***************************************************************************)
EXTENDS Integers, FiniteSets, Functions

\* "__unclassified__" and SQL NULL.
Unclassified == 0
Null == "null"

AmountOf(S) == SumFunction([f \in S |-> f.amount])

-----------------------------------------------------------------------------
\* Facts no other fact, of whatever partition, supersedes.
Current(F) == {f \in F : \A s \in F : s.supersedes # f.id}

InScope(F, scope) ==
    {f \in Current(F) : f.jur = scope.jur /\ f.year = scope.year /\ f.flow = scope.flow}

Versions(A, f, scheme) == {a \in A : a.fact = f.id /\ a.scheme = scheme}

\* a comes before b in ORDER BY version DESC, code.
Precedes(a, b) == a.version > b.version \/ (a.version = b.version /\ a.code < b.code)

\* The row DISTINCT ON keeps: nothing else of the fact and scheme precedes it.
Latest(A, f, scheme) ==
    CHOOSE a \in Versions(A, f, scheme) : \A b \in Versions(A, f, scheme) : ~ Precedes(b, a)

CodeOf(A, f, scheme) ==
    IF Versions(A, f, scheme) = {} THEN Unclassified ELSE Latest(A, f, scheme).code

-----------------------------------------------------------------------------
\* Mutant of JoinedFacts: without DISTINCT ON, a fact is joined to every version.
JoinedVersions(F, A, scope, scheme) ==
    UNION {{[fact |-> f, code |-> a.code, amount |-> f.amount] : a \in Versions(A, f, scheme)} :
              f \in InScope(F, scope)}

\* The rows of LEFT JOIN asg that ViewByScheme groups: each fact with the code
\* it is counted under.
JoinedFacts(F, A, scope, scheme) ==
    {[fact |-> f, code |-> CodeOf(A, f, scheme), amount |-> f.amount] : f \in InScope(F, scope)}

\* A view from the rows it groups: count and sum per code, their total, and the
\* unclassified node's amount.
ViewOf(joined) ==
    LET codes == {j.code : j \in joined}
        node(c) == {j \in joined : j.code = c}
    IN  [nodes |-> [c \in codes |-> [count |-> Cardinality(node(c)), amount |-> AmountOf(node(c))]],
         total |-> SumFunction([c \in codes |-> AmountOf(node(c))]),
         count |-> SumFunction([c \in codes |-> Cardinality(node(c))]),
         unmapped |-> AmountOf(node(Unclassified))]

ViewByScheme(F, A, scope, scheme) == ViewOf(JoinedFacts(F, A, scope, scheme))

\* The payee tree, over the entity rows at hand: a payee without one is counted
\* as unclassified.
ViewByPayee(F, entities, scope) ==
    ViewOf({[fact |-> f, code |-> IF f.payee \in entities THEN f.payee ELSE Unclassified,
             amount |-> f.amount] : f \in InScope(F, scope)})

\* The facts /v1/facts lists behind the node (scheme, code).
ListFacts(F, A, scope, scheme, code) ==
    IF code = Unclassified
    THEN {f \in InScope(F, scope) : Versions(A, f, scheme) = {}}
    ELSE {f \in InScope(F, scope) : \E a \in Versions(A, f, scheme) : a.code = code}

\* ... and behind a payee node.
ListPayeeFacts(F, scope, code) == {f \in InScope(F, scope) : f.payee = code}

\* /v1/entities/{id}/flows: what an entity was paid in a year, by department,
\* whatever the jurisdiction and the flow.
EntityFlows(F, A, entity, year, scheme) ==
    ViewOf({[fact |-> f, code |-> CodeOf(A, f, scheme), amount |-> f.amount] :
              f \in {g \in Current(F) : g.payee = entity /\ g.year = year}})

\* The numerator of /v1/{jur}/{year}/coverage.
CoverageNumerator(F, jur, year) ==
    AmountOf({f \in Current(F) : f.jur = jur /\ f.year = year /\ f.grain \in {"transaction", "award"}})

\* /v1/compare for one jurisdiction: current facts joined to their assignments.
Compare(F, A, scheme, code, jur) ==
    LET joined == {[fact |-> f, row |-> a, amount |-> f.amount] :
                      f \in {g \in Current(F) : g.jur = jur},
                      a \in {b \in A : b.scheme = scheme /\ b.code = code}}
        matching == {j \in joined : j.row.fact = j.fact.id}
    IN  [count |-> Cardinality(matching), amount |-> AmountOf(matching)]
=============================================================================
