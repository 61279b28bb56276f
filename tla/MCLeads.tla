------------------------------ MODULE MCLeads ------------------------------
(***************************************************************************)
(* An instance of Leads for TLC: a document in which one vendor of two has *)
(* most of a group, a second document that corrects one of its facts, a    *)
(* third one that adds a fact of the other vendor and two of a vendor      *)
(* whose name holds a banned term, and a batch that moves a fact to the    *)
(* group of those two.                                                     *)
(***************************************************************************)
EXTENDS Leads, TLC

CONSTANTS r1, r2, c1, c2

MCPartition == [jur |-> "us-ca", year |-> "2014-15"]

MCFact(i, n, p, s) ==
    [id |-> i, jur |-> "us-ca", year |-> "2014-15", flow |-> "spending", grain |-> "award",
     amount |-> n, payee |-> p, supersedes |-> s]

MCAsg(f, s, c, v) == [fact |-> f, scheme |-> s, code |-> c, by |-> "source", basis |-> "b", version |-> v]

Coded(i, d) == {MCAsg(i, "dept", d, 1), MCAsg(i, "acq", 1, 1)}

First ==
    [facts |-> {MCFact("f1", 4, 1, Null), MCFact("f2", 4, 1, Null), MCFact("f3", 2, 2, Null)},
     asg |-> Coded("f1", 1) \cup Coded("f2", 1) \cup Coded("f3", 1)]
Correction == [facts |-> {MCFact("f4", 5, 1, "f1")}, asg |-> Coded("f4", 1)]
Competitor ==
    [facts |-> {MCFact("f5", 3, 2, Null), MCFact("f6", 5, 3, Null), MCFact("f7", 3, 3, Null)},
     asg |-> Coded("f5", 1) \cup Coded("f6", 2) \cup Coded("f7", 2)]
Recode == [facts |-> {}, asg |-> {MCAsg("f3", "dept", 2, 2)}]

MCTransactions == {First, Correction, Competitor, Recode}

LeadsSymmetry == Permutations(Runs) \cup Permutations(Calls)
=============================================================================
