-------------------------------- MODULE Store --------------------------------
(***************************************************************************)
(* The facts and assignments of the store as its readers see them: whole   *)
(* transactions, each visible to every statement that starts after it      *)
(* committed.  Modules Ingest and Classify say how they come about.        *)
(***************************************************************************)
EXTENDS Views

CONSTANT Transactions   \* what may commit: [facts, asg], a document or a loader's batch

FactsOf(T) == UNION {x.facts : x \in T}
AsgOf(T) == UNION {x.asg : x \in T}

FactPool == FactsOf(Transactions)
AsgPool == AsgOf(Transactions)

ASSUME TransactionsAssumption ==
    /\ IsFiniteSet(FactPool) /\ IsFiniteSet(AsgPool)
    /\ \A f, g \in FactPool : f.id = g.id => f = g
    /\ \A f \in FactPool :
          f.payee \in Nat /\ f.amount \in Int /\ f.grain \in {"transaction", "award", "aggregate"}
    /\ \A a \in AsgPool : a.code \in Nat \ {Unclassified} /\ a.version \in Nat

VARIABLE committed  \* the transactions committed so far

Facts == FactsOf(committed)
Asg == AsgOf(committed)

\* entity and classification_code: Ingest writes them in the transaction whose
\* rows refer to them.
PayeesOf(F) == {f.payee : f \in F} \ {Unclassified}
CodesOf(A) == {<<a.scheme, a.code>> : a \in A}

\* A transaction commits: what its rows refer to is in it or committed before.
StoreCommit(x) ==
    /\ x \notin committed
    /\ LET ids == {f.id : f \in FactsOf(committed \cup {x})}
       IN  /\ \A f \in x.facts : f.supersedes \in ids \cup {Null}
           /\ \A a \in x.asg : a.fact \in ids
    /\ committed' = committed \cup {x}
=============================================================================
