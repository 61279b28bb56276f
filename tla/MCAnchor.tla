------------------------------ MODULE MCAnchor ------------------------------
(***************************************************************************)
(* Instances of Anchor for TLC: a run of three facts and a row of another  *)
(* hash shape, and a run of one fact; two invocations of the command       *)
(* and one of the script, so that the first can die after sending, the     *)
(* second race it, and the script read between them.                       *)
(***************************************************************************)
EXTENDS Anchor, TLC

CONSTANTS r1, r2, c1, c2, v1

MCPublished == r1 :> {1, 2, 3, 9} @@ r2 :> {5}

MCMalformed == {9}

\* The definition of a Merkle tree hash the root is compared with: a list is split
\* at the largest power of two below its length (RFC 6962, section 2.1).
RECURSIVE TreeHash(_)
TreeHash(list) ==
    IF Len(list) = 1 THEN LeafHash(list[1])
    ELSE LET n == CHOOSE n \in {1, 2, 4, 8} : n < Len(list) /\ 2 * n >= Len(list)
         IN  NodeHash(TreeHash(SubSeq(list, 1, n)), TreeHash(SubSeq(list, n + 1, Len(list))))

\* Promoting odd nodes level by level gives that hash, and no two sets of up to nine
\* fact hashes have the same root.
ASSUME RootIsTreeHash ==
    LET sets == SUBSET (1..9) \ {{}}
    IN  /\ \A S \in sets : Root(S) = TreeHash(Sorted(S))
        /\ Cardinality({Root(S) : S \in sets}) = Cardinality(sets)

CliSymmetry == Permutations(Clis)
=============================================================================
