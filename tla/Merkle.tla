------------------------------- MODULE Merkle -------------------------------
(***************************************************************************)
(* The Merkle root over a run's fact hashes (D31).  A hash is a term:      *)
(* SHA-256 is taken to be free of collisions, its two domain prefixes are  *)
(* the tags 0 and 1.  Fact hashes are numbers, ordered as their bytes.     *)
(***************************************************************************)
EXTENDS Naturals, FiniteSets, Sequences

LeafHash(h) == <<0, h>>

NodeHash(left, right) == <<1, left, right>>

Sorted(S) ==
    [i \in 1..Cardinality(S) |-> CHOOSE x \in S : Cardinality({y \in S : y < x}) = i - 1]

\* Consecutive nodes paired left to right, a trailing odd node promoted.
NextLevel(level) ==
    [i \in 1..((Len(level) + 1) \div 2) |->
        IF 2 * i <= Len(level) THEN NodeHash(level[2 * i - 1], level[2 * i]) ELSE level[2 * i - 1]]

\* The root of a set of fact hashes: as many levels as leaves are enough, a
\* level of one node being its own next level.  The empty set has no root.
Root(S) ==
    LET level[k \in Nat] ==
            IF k = 0 THEN [i \in 1..Cardinality(S) |-> LeafHash(Sorted(S)[i])]
            ELSE NextLevel(level[k - 1])
    IN  level[Cardinality(S)][1]
=============================================================================
