------------------------------ MODULE MCIngest ------------------------------
(***************************************************************************)
(* Instances of Ingest for TLC: two fiscal years backfilled at once whose  *)
(* documents share a vendor pair, named in opposite orders, and a source   *)
(* file; one document is re-fetched with a changed file, one is invalid,   *)
(* one names an entity it does not carry, one lacks its .bin.              *)
(***************************************************************************)
EXTENDS Ingest

CONSTANTS y1, y2, s1, s2, e1, e2, c1, f1, f2, f3

It(t, k, R) == [table |-> t, key |-> k, refs |-> R]

Doc(I, B, v) == [items |-> I, bins |-> B, valid |-> v]

Vendor(e) == It("entity", e, {})
Snap(s) == It("snap", s, {})
Fact(f, s, e) == It("fact", f, {<<"snap", s>>, <<"entity", e>>})

MCKeys == {s1, s2, e1, e2, c1, f1, f2, f3}

\* Year y1: a first publication and a corrected one (f3 supersedes f1), and a
\* document whose fact names an entity it does not carry.
First == Doc(<<Snap(s1), Vendor(e1), Vendor(e2), Fact(f1, s1, e1)>>, {s1}, TRUE)

Corrected ==
    Doc(<<Snap(s1), Vendor(e1), Fact(f1, s1, e1),
          It("fact", f3, {<<"snap", s1>>, <<"fact", f1>>})>>, {s1}, TRUE)

Dangling == Doc(<<Snap(s1), Fact(f1, s1, e2)>>, {s1}, TRUE)

\* Year y2: the vendors in the other order, the source file of y1 under its own
\* partition, a rejected document, and one whose second .bin is missing.
Second ==
    Doc(<<Snap(s2), Vendor(e2), Vendor(e1), It("code", c1, {}), Fact(f2, s2, e2),
          It("asg", f2, {<<"fact", f2>>, <<"code", c1>>})>>, {s2}, TRUE)

SameFile == Doc(<<Snap(s1), Vendor(e2), Fact(f2, s1, e2)>>, {s1}, TRUE)

Rejected == Doc(<<Snap(s1)>>, {s1}, FALSE)

NoBin == Doc(<<Snap(s1), Snap(s2), Vendor(e1)>>, {s1}, TRUE)

MCOutputs == [y \in {y1, y2} |->
                IF y = y1 THEN {First, Corrected, Dangling} ELSE {Second, SameFile, Rejected, NoBin}]

\* Only well-formed documents and no fault of the infrastructure.
QuietOutputs == [y \in {y1, y2} |-> IF y = y1 THEN {First} ELSE {Second}]
=============================================================================
