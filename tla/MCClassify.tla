----------------------------- MODULE MCClassify -----------------------------
(***************************************************************************)
(* Instances of Classify for TLC: a fact with a department and an          *)
(* acquisition type, a correction of it in another department, and a later *)
(* document that puts the correction in the first department too; files    *)
(* that change an entry's code, withdraw an entry, or map both schemes so  *)
(* that categories agree on a code, on another basis, or disagree.         *)
(***************************************************************************)
EXTENDS Classify, TLC

CONSTANTS l1, l2, l3

MCScope == [jur |-> "us-ca", year |-> "2014-15", flow |-> "spending"]

MCFact(i, n, s) ==
    [id |-> i, jur |-> "us-ca", year |-> "2014-15", flow |-> "spending", grain |-> "transaction",
     amount |-> n, payee |-> Unclassified, supersedes |-> s]

Src(f, s, c) ==
    [fact |-> f, scheme |-> s, code |-> c, by |-> "source", basis |-> "source", version |-> 1]

\* A fact, a correction of it in another department, and a document that restates
\* the correction under the first department.
Original == [facts |-> {MCFact("f1", 1, Null)}, asg |-> {Src("f1", "dept", 1), Src("f1", "acq", 1)}]
Correction == [facts |-> {MCFact("f2", 2, "f1")}, asg |-> {Src("f2", "dept", 2), Src("f2", "acq", 1)}]
Restated == [facts |-> {MCFact("f2", 2, "f1")}, asg |-> {Src("f2", "dept", 1)}]

MCDocuments == {Original, Correction, Restated}

\* Two uncorrected facts of one department.
SameDepartment ==
    {[facts |-> {MCFact(i, 1, Null)}, asg |-> {Src(i, "dept", 1)}] : i \in {"f1", "f3"}}

E(s, c, n, b) == [scheme |-> s, category |-> c, code |-> n, basis |-> b]

\* The reviewed file, and one with a change of code and a withdrawn entry.
Reviewed == {E("dept", 1, 4, "d1"), E("dept", 2, 1, "d2"), E("acq", 1, UnmappedCode, "a1")}
Recoded == {E("dept", 1, 5, "d1 new"), E("dept", 2, UnmappedCode, "d2 none")}

\* Both schemes mapped: the categories of f1 agree, on another basis than before;
\* those of f2 do not.
BothSchemes == {E("dept", 1, 4, "d1"), E("dept", 2, 1, "d2"), E("acq", 1, 4, "a1")}

MCMappings == {Reviewed, Recoded, BothSchemes}

LoaderSymmetry == Permutations(Loaders)
=============================================================================
