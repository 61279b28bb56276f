----------------------------- MODULE MCReadApi -----------------------------
(***************************************************************************)
(* An instance of ReadApi and Export for TLC: a document with two facts of *)
(* one payee, a second one with a correction, a fact of a new payee and a  *)
(* fact of another jurisdiction, and a later one with two more facts of    *)
(* the first payee, one of them revenue, together with a first code and a  *)
(* revised one for what came before.                                       *)
(***************************************************************************)
EXTENDS ReadApi, TLC

CONSTANTS e1, e2

MCScope == [jur |-> "us-ca", year |-> "2014-15", flow |-> "spending"]

MCFact(i, n, p, s) ==
    [id |-> i, jur |-> IF i = "f7" THEN "us-wa" ELSE "us-ca", year |-> "2014-15",
     flow |-> IF i = "f6" THEN "revenue" ELSE "spending", grain |-> IF i = "f3" THEN "aggregate" ELSE "award",
     amount |-> n, payee |-> p, supersedes |-> s]

MCVersion(f, s, c, v) ==
    [fact |-> f, scheme |-> s, code |-> c, by |-> "source", basis |-> "b", version |-> v]
MCAsg(f, s, c) == MCVersion(f, s, c, 1)

First ==
    [facts |-> {MCFact("f1", 1, 1, Null), MCFact("f4", 3, 1, Null)},
     asg |-> {MCAsg("f1", "dept", 1), MCAsg("f4", "dept", 2)}]
Second ==
    [facts |-> {MCFact("f2", 2, 1, "f1"), MCFact("f3", 3, 2, Null), MCFact("f7", 4, 1, Null)},
     asg |-> {MCAsg("f2", "dept", 1), MCAsg("f3", "dept", 2)}]
Third ==
    [facts |-> {MCFact("f5", 3, 1, Null), MCFact("f6", 7, 1, Null)},
     asg |-> {MCAsg("f5", "dept", 2), MCVersion("f4", "cofog", 4, 1), MCVersion("f4", "cofog", 5, 2)}]

MCTransactions == {First, Second, Third}

MCRank == [i \in {"f1", "f2", "f3", "f4", "f5", "f6", "f7"} |->
              CASE i = "f1" -> 1 [] i = "f2" -> 2 [] i = "f3" -> 3 [] i = "f4" -> 5 [] i = "f5" -> 4 [] i = "f6" -> 6
                [] i = "f7" -> 7]

MCNodes == {[dim |-> "payee", code |-> 1], [dim |-> "dept", code |-> 2]}

\* Readers and exports share nothing but the store, so either readers or exports
\* are at work in a behaviour.
ReadersOrExports ==
    \/ \A r \in Readers : stage[r] = "idle"
    \/ \A e \in Exports : pc[e] = "read" /\ at[e] = 1

ExportSymmetry == Permutations(Exports)
=============================================================================
