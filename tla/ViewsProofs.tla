---------------------------- MODULE ViewsProofs ----------------------------
(***************************************************************************)
(* Theorems about the read queries of module Views, for any finite set of  *)
(* facts and any assignments.  The sums the queries return are folds over  *)
(* finite sets; the first part proves, by induction on the size of the     *)
(* set, what a sum of a set is, whatever the order the fold takes.         *)
(***************************************************************************)
EXTENDS Views, FiniteSetTheorems, TLAPS

-----------------------------------------------------------------------------
(***************************************************************************)
(* Induction, stated with the set of the things it holds of.               *)
(***************************************************************************)
SmallerNat == {p \in Nat \X Nat : p[1] < p[2]}

\* A set of naturals that has 0 and the successor of each member has them all.
LEMMA NaturalInduction ==
  ASSUME NEW P, 0 \in P, \A n \in Nat : n \in P => n + 1 \in P
  PROVE  \A n \in Nat : n \in P
  <1>1. SUFFICES ASSUME Nat \ P # {} PROVE FALSE
    OBVIOUS
  <1>2. IsWellFoundedOn(SmallerNat, Nat)
    BY NatLessThanWellFounded, Zenon DEF OpToRel, SmallerNat
  <1>3. PICK m \in Nat \ P : \A k \in Nat \ P : ~ (<<k, m>> \in SmallerNat)
    <2> DEFINE T == Nat \ P
    <2>1. T \subseteq Nat /\ T # {}
      BY <1>1
    <2>2. \E m \in T : \A k \in T : ~ (<<k, m>> \in SmallerNat)
      <3> HIDE DEF T
      <3>1. QED
        BY <1>2, <2>1, WFMin
    <2>3. QED
      BY <2>2
  <1>4. m # 0 /\ m - 1 \in Nat
    BY <1>3
  <1>5. m - 1 \in P
    <2>1. <<m - 1, m>> \in SmallerNat
      BY <1>4 DEF SmallerNat
    <2>2. QED
      BY <1>3, <1>4, <2>1
  <1>6. m - 1 + 1 \in P
    BY <1>4, <1>5
  <1>7. m - 1 + 1 = m
    BY <1>3
  <1>8. QED
    BY <1>3, <1>6, <1>7

\* What the empty set has, and what adding an element preserves, every finite set has.
LEMMA SetInduction ==
  ASSUME NEW S, IsFiniteSet(S), NEW P, {} \in P,
         \A T \in SUBSET S, x \in S : T \in P /\ x \notin T => T \cup {x} \in P
  PROVE  S \in P
  <1> DEFINE Q == {n \in Nat : \A T \in SUBSET S : Cardinality(T) = n => T \in P}
  <1>1. \A T \in SUBSET S : IsFiniteSet(T) /\ Cardinality(T) \in Nat
    BY FS_Subset, FS_CardinalityType
  <1>2. 0 \in Q
    BY <1>1, FS_EmptySet
  <1>3. ASSUME NEW n \in Nat, n \in Q PROVE n + 1 \in Q
    <2>1. SUFFICES ASSUME NEW T \in SUBSET S, Cardinality(T) = n + 1 PROVE T \in P
      OBVIOUS
    <2>2. T # {}
      BY <2>1, FS_EmptySet, n + 1 # 0
    <2>3. PICK x : x \in T
      BY <2>2
    <2> DEFINE R == T \ {x}
    <2>4. R \in SUBSET S /\ x \in S /\ x \notin R /\ R \cup {x} = T
      BY <2>3
    <2>5. Cardinality(R) = n
      <3>1. Cardinality(R) = Cardinality(T) - 1
        BY <1>1, <2>3, FS_RemoveElement
      <3>2. QED
        BY <2>1, <3>1
    <2>6. R \in P
      BY <1>3, <2>4, <2>5
    <2>7. R \cup {x} \in P
      <3> HIDE DEF R
      <3>1. QED
        BY <2>4, <2>6
    <2>8. QED
      BY <2>4, <2>7
  <1>4. \A n \in Nat : n \in Q
    <2> HIDE DEF Q
    <2>1. QED
      BY <1>2, <1>3, NaturalInduction
  <1>5. QED
    BY <1>1, <1>4

-----------------------------------------------------------------------------
(***************************************************************************)
(* Sums.                                                                   *)
(***************************************************************************)
\* The element a fold takes first.
Taken(s) == CHOOSE x \in s : TRUE

\* it holds the sums of g over the sets of D, as the fold computes them.
SumsOn(it, g, D) ==
    it = [s \in D |-> IF s = {} THEN 0 ELSE g[Taken(s)] + it[s \ {Taken(s)}]]

\* The sum is that fold.
LEMMA SumIsFold ==
  ASSUME NEW g, NEW S
  PROVE  SumFunctionOnSet(g, S) = (CHOOSE it : SumsOn(it, g, SUBSET S))[S]
  BY DEF SumFunctionOnSet, FoldFunctionOnSet, MapThenFoldSet, SumsOn, Taken

\* The fold exists.
LEMMA SumsExist ==
  ASSUME NEW g, NEW S, IsFiniteSet(S)
  PROVE  \E it : SumsOn(it, g, SUBSET S)
  <1> DEFINE D(n) == {s \in SUBSET S : Cardinality(s) <= n}
             P == {n \in Nat : \E it : SumsOn(it, g, D(n))}
  <1>1. \A T \in SUBSET S : IsFiniteSet(T) /\ Cardinality(T) \in Nat /\ Cardinality(T) <= Cardinality(S)
    BY FS_Subset, FS_CardinalityType
  <1>2. 0 \in P
    <2>1. D(0) = {{}}
      BY <1>1, FS_EmptySet
    <2>2. SumsOn([s \in D(0) |-> 0], g, D(0))
      BY <2>1 DEF SumsOn
    <2>3. QED
      BY <2>2
  <1>3. ASSUME NEW n \in Nat, n \in P PROVE n + 1 \in P
    <2>1. PICK it : SumsOn(it, g, D(n))
      BY <1>3
    <2> DEFINE next == [s \in D(n + 1) |-> IF s = {} THEN 0 ELSE g[Taken(s)] + it[s \ {Taken(s)}]]
    <2>2. \A s \in D(n + 1) : s # {} => s \ {Taken(s)} \in D(n)
      <3>1. SUFFICES ASSUME NEW s \in D(n + 1), s # {} PROVE s \ {Taken(s)} \in D(n)
        OBVIOUS
      <3>2. Taken(s) \in s
        BY <3>1 DEF Taken
      <3>3. Cardinality(s \ {Taken(s)}) = Cardinality(s) - 1
        BY <1>1, <3>2, FS_RemoveElement
      <3>4. QED
        BY <1>1, <3>3
    <2>3. \A s \in D(n) : s \in D(n + 1)
      BY <1>1
    <2>4. \A s \in D(n) : next[s] = it[s]
      BY <2>1, <2>3 DEF SumsOn
    <2>5. next = [s \in D(n + 1) |-> IF s = {} THEN 0 ELSE g[Taken(s)] + next[s \ {Taken(s)}]]
      <3>1. \A s \in D(n + 1) : s # {} => next[s \ {Taken(s)}] = it[s \ {Taken(s)}]
        BY <2>2, <2>4
      <3> HIDE DEF D
      <3>2. QED
        BY <3>1
    <2>6. SumsOn(next, g, D(n + 1))
      BY <2>5 DEF SumsOn
    <2>7. QED
      BY <2>6
  <1>4. \A n \in Nat : n \in P
    <2> HIDE DEF P
    <2>1. QED
      BY <1>2, <1>3, NaturalInduction
  <1>5. D(Cardinality(S)) = SUBSET S
    BY <1>1
  <1>6. Cardinality(S) \in P
    BY <1>1, <1>4
  <1>7. \E it : SumsOn(it, g, D(Cardinality(S)))
    BY <1>6
  <1>8. QED
    BY <1>5, <1>7

\* The folds over a set and over a part of it agree on the part.
LEMMA SumsAgree ==
  ASSUME NEW g, NEW S, NEW T, T \subseteq S, IsFiniteSet(T), NEW i, NEW j,
         SumsOn(i, g, SUBSET S), SumsOn(j, g, SUBSET T)
  PROVE  i[T] = j[T]
  <1> DEFINE P == {n \in Nat : \A U \in SUBSET T : Cardinality(U) = n => i[U] = j[U]}
  <1>1. \A U \in SUBSET T : IsFiniteSet(U) /\ Cardinality(U) \in Nat
    BY FS_Subset, FS_CardinalityType
  <1>2. \A U \in SUBSET T :
           /\ i[U] = IF U = {} THEN 0 ELSE g[Taken(U)] + i[U \ {Taken(U)}]
           /\ j[U] = IF U = {} THEN 0 ELSE g[Taken(U)] + j[U \ {Taken(U)}]
    <2>1. SUFFICES ASSUME NEW U \in SUBSET T
                   PROVE  /\ i[U] = IF U = {} THEN 0 ELSE g[Taken(U)] + i[U \ {Taken(U)}]
                          /\ j[U] = IF U = {} THEN 0 ELSE g[Taken(U)] + j[U \ {Taken(U)}]
      OBVIOUS
    <2>2. U \in SUBSET S
      OBVIOUS
    <2>3. QED
      BY <2>2 DEF SumsOn
  <1>3. 0 \in P
    BY <1>1, <1>2, FS_EmptySet
  <1>4. ASSUME NEW n \in Nat, n \in P PROVE n + 1 \in P
    <2>1. SUFFICES ASSUME NEW U \in SUBSET T, Cardinality(U) = n + 1 PROVE i[U] = j[U]
      OBVIOUS
    <2>2. U # {}
      BY <2>1, FS_EmptySet, n + 1 # 0
    <2>3. Taken(U) \in U
      BY <2>2 DEF Taken
    <2>4. Cardinality(U \ {Taken(U)}) = n
      <3>1. Cardinality(U \ {Taken(U)}) = Cardinality(U) - 1
        BY <1>1, <2>3, FS_RemoveElement
      <3>2. QED
        BY <2>1, <3>1
    <2>5. i[U \ {Taken(U)}] = j[U \ {Taken(U)}]
      BY <1>4, <2>4
    <2>6. QED
      BY <1>2, <2>2, <2>5
  <1>5. \A n \in Nat : n \in P
    <2> HIDE DEF P
    <2>1. QED
      BY <1>3, <1>4, NaturalInduction
  <1>6. QED
    BY <1>1, <1>5

\* A sum takes one element and goes on with the rest.
LEMMA SumTakes ==
  ASSUME NEW g, NEW S, IsFiniteSet(S)
  PROVE  SumFunctionOnSet(g, S) =
           IF S = {} THEN 0 ELSE g[Taken(S)] + SumFunctionOnSet(g, S \ {Taken(S)})
  <1> DEFINE R == S \ {Taken(S)}
  <1>1. IsFiniteSet(R) /\ R \subseteq S
    BY FS_Subset
  <1>2. PICK i : SumsOn(i, g, SUBSET S) /\ SumFunctionOnSet(g, S) = i[S]
    BY SumsExist, SumIsFold
  <1>3. PICK j : SumsOn(j, g, SUBSET R) /\ SumFunctionOnSet(g, R) = j[R]
    <2> HIDE DEF R
    <2>1. QED
      BY <1>1, SumsExist, SumIsFold
  <1>4. i[R] = j[R]
    <2> HIDE DEF R
    <2>1. QED
      BY <1>1, <1>2, <1>3, SumsAgree
  <1>5. i[S] = IF S = {} THEN 0 ELSE g[Taken(S)] + i[R]
    BY <1>2 DEF SumsOn
  <1>6. SumFunctionOnSet(g, S) = IF S = {} THEN 0 ELSE g[Taken(S)] + SumFunctionOnSet(g, R)
    <2> HIDE DEF R
    <2>1. QED
      BY <1>2, <1>3, <1>4, <1>5
  <1>7. QED
    BY <1>6

\* The empty sum.
LEMMA SumEmpty ==
  ASSUME NEW g
  PROVE  SumFunctionOnSet(g, {}) = 0
  BY FS_EmptySet, SumTakes

\* A sum of integers is one.
LEMMA SumInt ==
  ASSUME NEW g, NEW S, IsFiniteSet(S), \A x \in S : g[x] \in Int
  PROVE  SumFunctionOnSet(g, S) \in Int
  <1> DEFINE P == {n \in Nat : \A T \in SUBSET S : Cardinality(T) = n => SumFunctionOnSet(g, T) \in Int}
  <1>1. \A T \in SUBSET S : IsFiniteSet(T) /\ Cardinality(T) \in Nat
    BY FS_Subset, FS_CardinalityType
  <1>2. 0 \in P
    <2>1. \A T \in SUBSET S : Cardinality(T) = 0 => T = {}
      BY <1>1, FS_EmptySet
    <2>2. QED
      BY <2>1, SumEmpty
  <1>3. ASSUME NEW n \in Nat, n \in P PROVE n + 1 \in P
    <2>1. SUFFICES ASSUME NEW T \in SUBSET S, Cardinality(T) = n + 1 PROVE SumFunctionOnSet(g, T) \in Int
      OBVIOUS
    <2>2. T # {}
      BY <2>1, FS_EmptySet, n + 1 # 0
    <2>3. PICK c \in T : c = Taken(T)
      BY <2>2 DEF Taken
    <2>4. Cardinality(T \ {c}) = Cardinality(T) - 1
      BY <1>1, FS_RemoveElement
    <2>5. SumFunctionOnSet(g, T \ {c}) \in Int
      <3>1. T \ {c} \in SUBSET S /\ Cardinality(T \ {c}) = n
        BY <2>1, <2>4
      <3>2. QED
        BY <1>3, <3>1
    <2>6. SumFunctionOnSet(g, T) = g[c] + SumFunctionOnSet(g, T \ {c})
      BY <1>1, <2>2, <2>3, SumTakes
    <2>7. QED
      BY <2>5, <2>6
  <1>4. \A n \in Nat : n \in P
    <2> HIDE DEF P
    <2>1. QED
      BY <1>2, <1>3, NaturalInduction
  <1>5. QED
    BY <1>1, <1>4

\* A sum with one element set apart, whichever it is.
LEMMA SumRemove ==
  ASSUME NEW g, NEW S, IsFiniteSet(S), \A x \in S : g[x] \in Int
  PROVE  \A x \in S : SumFunctionOnSet(g, S) = g[x] + SumFunctionOnSet(g, S \ {x})
  <1> DEFINE Sum(T) == SumFunctionOnSet(g, T)
             Q(T) == \A x \in T : Sum(T) = g[x] + Sum(T \ {x})
             P == {n \in Nat : \A T \in SUBSET S : Cardinality(T) = n => Q(T)}
  <1>1. \A T \in SUBSET S : IsFiniteSet(T) /\ Cardinality(T) \in Nat
    BY FS_Subset, FS_CardinalityType
  <1>2. 0 \in P
    <2>1. \A T \in SUBSET S : Cardinality(T) = 0 => T = {}
      BY <1>1, FS_EmptySet
    <2>2. QED
      BY <2>1
  <1>3. ASSUME NEW n \in Nat, n \in P PROVE n + 1 \in P
    <2>1. SUFFICES ASSUME NEW T \in SUBSET S, Cardinality(T) = n + 1 PROVE Q(T)
      OBVIOUS
    <2>2. \A x \in T : T \ {x} \in SUBSET S /\ Cardinality(T \ {x}) = n
      <3>1. SUFFICES ASSUME NEW x \in T PROVE Cardinality(T \ {x}) = n
        OBVIOUS
      <3>2. Cardinality(T \ {x}) = Cardinality(T) - 1
        BY <1>1, FS_RemoveElement
      <3>3. QED
        BY <2>1, <3>2
    <2>3. \A x \in T : Q(T \ {x})
      BY <1>3, <2>2
    <2>4. T # {}
      BY <2>1, FS_EmptySet, n + 1 # 0
    <2>5. PICK c \in T : c = Taken(T)
      BY <2>4 DEF Taken
    <2>6. Sum(T) = g[c] + Sum(T \ {c})
      BY <1>1, <2>4, <2>5, SumTakes
    <2>8. ASSUME NEW x \in T, x # c PROVE Sum(T) = g[x] + Sum(T \ {x})
      <3>1. Sum(T \ {c}) = g[x] + Sum((T \ {c}) \ {x})
        BY <2>3, <2>8
      <3>2. Sum(T \ {x}) = g[c] + Sum((T \ {x}) \ {c})
        BY <2>3, <2>8
      <3>3. (T \ {c}) \ {x} = (T \ {x}) \ {c}
        OBVIOUS
      <3>4. Sum((T \ {c}) \ {x}) \in Int
        BY SumInt, FS_Subset
      <3>5. PICK r \in Int : r = Sum((T \ {c}) \ {x})
        BY <3>4
      <3>6. Sum(T \ {c}) = g[x] + r /\ Sum(T \ {x}) = g[c] + r
        BY <3>1, <3>2, <3>3, <3>5
      <3>7. g[x] \in Int /\ g[c] \in Int
        OBVIOUS
      <3>8. QED
        BY <2>6, <3>6, <3>7
    <2>9. QED
      BY <2>6, <2>8
  <1>4. \A n \in Nat : n \in P
    <2> HIDE DEF P
    <2>1. QED
      BY <1>2, <1>3, NaturalInduction
  <1>5. Q(S)
    BY <1>1, <1>4
  <1>6. QED
    BY <1>5

\* A sum with one element more.
LEMMA SumAdd ==
  ASSUME NEW g, NEW S, IsFiniteSet(S), NEW x, x \notin S, \A y \in S \cup {x} : g[y] \in Int
  PROVE  SumFunctionOnSet(g, S \cup {x}) = g[x] + SumFunctionOnSet(g, S)
  <1> DEFINE T == S \cup {x}
  <1>1. IsFiniteSet(T)
    BY FS_AddElement
  <1>2. x \in T /\ T \ {x} = S
    OBVIOUS
  <1>3. SumFunctionOnSet(g, T) = g[x] + SumFunctionOnSet(g, T \ {x})
    <2>1. \A y \in T : g[y] \in Int
      OBVIOUS
    <2> HIDE DEF T
    <2>2. QED
      BY <1>1, <1>2, <2>1, SumRemove
  <1>4. QED
    BY <1>2, <1>3

\* A sum depends on the values at the elements alone.
LEMMA SumOfSame ==
  ASSUME NEW S, IsFiniteSet(S), NEW g, NEW h, \A x \in S : g[x] \in Int /\ g[x] = h[x]
  PROVE  SumFunctionOnSet(g, S) = SumFunctionOnSet(h, S)
  <1> DEFINE P == {T \in SUBSET S : SumFunctionOnSet(g, T) = SumFunctionOnSet(h, T)}
  <1>1. {} \in P
    BY SumEmpty
  <1>2. ASSUME NEW T \in SUBSET S, NEW x \in S, T \in P, x \notin T PROVE T \cup {x} \in P
    <2>1. IsFiniteSet(T)
      BY FS_Subset
    <2>2. SumFunctionOnSet(g, T \cup {x}) = g[x] + SumFunctionOnSet(g, T)
      BY <1>2, <2>1, SumAdd
    <2>3. SumFunctionOnSet(h, T \cup {x}) = h[x] + SumFunctionOnSet(h, T)
      BY <1>2, <2>1, SumAdd
    <2>4. QED
      BY <1>2, <2>2, <2>3
  <1>3. S \in P
    <2> HIDE DEF P
    <2>1. QED
      BY <1>1, <1>2, SetInduction
  <1>4. QED
    BY <1>3

\* The sum over two disjoint sets.
LEMMA SumUnion ==
  ASSUME NEW g, NEW S, IsFiniteSet(S), NEW T, IsFiniteSet(T), S \cap T = {},
         \A x \in S \cup T : g[x] \in Int
  PROVE  SumFunctionOnSet(g, S \cup T) = SumFunctionOnSet(g, S) + SumFunctionOnSet(g, T)
  <1> DEFINE P == {U \in SUBSET T :
                     SumFunctionOnSet(g, S \cup U) = SumFunctionOnSet(g, S) + SumFunctionOnSet(g, U)}
  <1>1. {} \in P
    <2>1. SumFunctionOnSet(g, S) \in Int
      BY SumInt
    <2>2. S \cup {} = S
      OBVIOUS
    <2>3. QED
      BY <2>1, <2>2, SumEmpty
  <1>2. ASSUME NEW U \in SUBSET T, NEW x \in T, U \in P, x \notin U PROVE U \cup {x} \in P
    <2>1. IsFiniteSet(U) /\ IsFiniteSet(S \cup U)
      BY FS_Subset, FS_Union
    <2>2. SumFunctionOnSet(g, U \cup {x}) = g[x] + SumFunctionOnSet(g, U)
      BY <1>2, <2>1, SumAdd
    <2>3. SumFunctionOnSet(g, (S \cup U) \cup {x}) = g[x] + SumFunctionOnSet(g, S \cup U)
      <3>1. x \notin S \cup U /\ \A y \in (S \cup U) \cup {x} : g[y] \in Int
        BY <1>2
      <3>2. QED
        BY <2>1, <3>1, SumAdd
    <2>4. (S \cup U) \cup {x} = S \cup (U \cup {x})
      OBVIOUS
    <2>5. SumFunctionOnSet(g, S) \in Int /\ SumFunctionOnSet(g, U) \in Int /\ g[x] \in Int
      <3>1. \A y \in U : g[y] \in Int
        OBVIOUS
      <3>2. QED
        BY <2>1, <3>1, SumInt
    <2>6. SumFunctionOnSet(g, S \cup (U \cup {x}))
            = SumFunctionOnSet(g, S) + SumFunctionOnSet(g, U \cup {x})
      <3>1. SumFunctionOnSet(g, S \cup U) = SumFunctionOnSet(g, S) + SumFunctionOnSet(g, U)
        BY <1>2
      <3>2. SumFunctionOnSet(g, S \cup (U \cup {x})) = SumFunctionOnSet(g, (S \cup U) \cup {x})
        BY <2>4, Zenon
      <3>3. QED
        BY <2>2, <2>3, <2>5, <3>1, <3>2
    <2>7. QED
      BY <2>6
  <1>3. T \in P
    <2> HIDE DEF P
    <2>1. QED
      BY <1>1, <1>2, SetInduction
  <1>4. QED
    BY <1>3

\* The sum over renamed elements.
LEMMA SumReindex ==
  ASSUME NEW S, IsFiniteSet(S), NEW T, NEW b \in Bijection(S, T), NEW g, NEW h,
         \A x \in S : g[x] \in Int /\ g[x] = h[b[x]]
  PROVE  SumFunctionOnSet(g, S) = SumFunctionOnSet(h, T)
  <1> DEFINE Img(U) == {b[x] : x \in U}
             P == {U \in SUBSET S : SumFunctionOnSet(g, U) = SumFunctionOnSet(h, Img(U))}
  <1>1. {} \in P
    <2>1. Img({}) = {}
      OBVIOUS
    <2>2. QED
      BY <2>1, SumEmpty
  <1>2. IsFiniteSet(T) /\ Img(S) = T /\ \A x, y \in S : x # y => b[x] # b[y]
    <2>1. ExistsBijection(S, T)
      BY DEF ExistsBijection
    <2>2. \A x, y \in S : x # y => b[x] # b[y]
      BY DEF Bijection, Injection, IsInjective
    <2>3. Img(S) = T
      BY DEF Bijection, Surjection
    <2>4. QED
      BY <2>1, <2>2, <2>3, FS_Bijection
  <1>3. ASSUME NEW U \in SUBSET S, NEW x \in S, U \in P, x \notin U PROVE U \cup {x} \in P
    <2>1. IsFiniteSet(U) /\ Img(U) \subseteq T /\ IsFiniteSet(Img(U))
      <3>1. Img(U) \subseteq Img(S)
        OBVIOUS
      <3>2. QED
        BY <1>2, <3>1, FS_Subset
    <2>2. SumFunctionOnSet(g, U \cup {x}) = g[x] + SumFunctionOnSet(g, U)
      BY <1>3, <2>1, SumAdd
    <2>3. b[x] \notin Img(U)
      BY <1>2, <1>3
    <2>4. SumFunctionOnSet(h, Img(U) \cup {b[x]}) = h[b[x]] + SumFunctionOnSet(h, Img(U))
      <3>1. \A y \in Img(U) \cup {b[x]} : h[y] \in Int
        OBVIOUS
      <3> HIDE DEF Img
      <3>2. QED
        BY <2>1, <2>3, <3>1, SumAdd
    <2>5. Img(U) \cup {b[x]} = Img(U \cup {x})
      OBVIOUS
    <2>6. QED
      BY <1>3, <2>2, <2>4, <2>5
  <1>4. S \in P
    <2> HIDE DEF P
    <2>1. QED
      BY <1>1, <1>3, SetInduction
  <1>5. QED
    BY <1>2, <1>4

\* The members of S with key c.
Group(S, key, c) == {x \in S : key[x] = c}

\* A sum is the sum over its groups.
LEMMA SumPartition ==
  ASSUME NEW S, IsFiniteSet(S), NEW K, IsFiniteSet(K), NEW key \in [S -> K], NEW g,
         \A x \in S : g[x] \in Int, NEW h,
         \A c \in K : h[c] = SumFunctionOnSet(g, Group(S, key, c))
  PROVE  SumFunctionOnSet(h, K) = SumFunctionOnSet(g, S)
  <1> DEFINE In(C) == {x \in S : key[x] \in C}
             P == {C \in SUBSET K : SumFunctionOnSet(h, C) = SumFunctionOnSet(g, In(C))}
  <1>1. {} \in P
    <2>1. In({}) = {}
      OBVIOUS
    <2>2. QED
      BY <2>1, SumEmpty
  <1>2. \A c \in K : IsFiniteSet(Group(S, key, c)) /\ h[c] \in Int
    <2>1. SUFFICES ASSUME NEW c \in K PROVE IsFiniteSet(Group(S, key, c)) /\ h[c] \in Int
      OBVIOUS
    <2>2. Group(S, key, c) \subseteq S
      BY DEF Group
    <2>3. IsFiniteSet(Group(S, key, c)) /\ \A x \in Group(S, key, c) : g[x] \in Int
      BY <2>2, FS_Subset
    <2>4. QED
      BY <2>3, SumInt
  <1>3. ASSUME NEW C \in SUBSET K, NEW c \in K, C \in P, c \notin C PROVE C \cup {c} \in P
    <2>1. IsFiniteSet(C) /\ \A d \in C \cup {c} : h[d] \in Int
      BY <1>2, FS_Subset
    <2>2. SumFunctionOnSet(h, C \cup {c}) = h[c] + SumFunctionOnSet(h, C)
      BY <1>3, <2>1, SumAdd
    <2>3. In(C \cup {c}) = In(C) \cup Group(S, key, c) /\ In(C) \cap Group(S, key, c) = {}
      BY <1>3 DEF Group
    <2>4. IsFiniteSet(In(C)) /\ \A x \in In(C) \cup Group(S, key, c) : g[x] \in Int
      <3>1. In(C) \subseteq S /\ Group(S, key, c) \subseteq S
        BY DEF Group
      <3>2. QED
        BY <3>1, FS_Subset
    <2>5. SumFunctionOnSet(g, In(C) \cup Group(S, key, c))
            = SumFunctionOnSet(g, In(C)) + SumFunctionOnSet(g, Group(S, key, c))
      <3> HIDE DEF In
      <3>1. QED
        BY <1>2, <2>3, <2>4, SumUnion
    <2>6. SumFunctionOnSet(h, C) = SumFunctionOnSet(g, In(C)) /\ SumFunctionOnSet(g, In(C)) \in Int
      <3>1. SumFunctionOnSet(g, In(C)) \in Int
        <4> HIDE DEF In
        <4>1. QED
          BY <2>4, SumInt
      <3>2. QED
        BY <1>3, <3>1
    <2>7. SumFunctionOnSet(h, C \cup {c}) = SumFunctionOnSet(g, In(C \cup {c}))
      <3>1. SumFunctionOnSet(g, In(C \cup {c})) = SumFunctionOnSet(g, In(C) \cup Group(S, key, c))
        <4> HIDE DEF In
        <4>1. QED
          BY <2>3, Zenon
      <3>2. h[c] = SumFunctionOnSet(g, Group(S, key, c)) /\ h[c] \in Int
        BY <1>2
      <3> HIDE DEF In
      <3>3. QED
        BY <2>2, <2>5, <2>6, <3>1, <3>2
    <2>8. QED
      BY <2>7
  <1>4. K \in P
    <2> HIDE DEF P
    <2>1. QED
      BY <1>1, <1>3, SetInduction
  <1>5. In(K) = S
    OBVIOUS
  <1>6. QED
    BY <1>4, <1>5

\* The size of a set is the sum of one per element.
LEMMA SumOfOnes ==
  ASSUME NEW S, IsFiniteSet(S), NEW g, \A x \in S : g[x] = 1
  PROVE  SumFunctionOnSet(g, S) = Cardinality(S)
  <1> DEFINE P == {T \in SUBSET S : SumFunctionOnSet(g, T) = Cardinality(T)}
  <1>1. {} \in P
    BY SumEmpty, FS_EmptySet
  <1>2. ASSUME NEW T \in SUBSET S, NEW x \in S, T \in P, x \notin T PROVE T \cup {x} \in P
    <2>1. IsFiniteSet(T) /\ Cardinality(T) \in Nat
      BY FS_Subset, FS_CardinalityType
    <2>2. SumFunctionOnSet(g, T \cup {x}) = g[x] + SumFunctionOnSet(g, T)
      BY <1>2, <2>1, SumAdd
    <2>3. Cardinality(T \cup {x}) = Cardinality(T) + 1
      BY <1>2, <2>1, FS_AddElement
    <2>4. QED
      BY <1>2, <2>1, <2>2, <2>3
  <1>3. S \in P
    <2> HIDE DEF P
    <2>1. QED
      BY <1>1, <1>2, SetInduction
  <1>4. QED
    BY <1>3

\* The sum of a function, over its whole domain.
LEMMA SumFunctionIs ==
  ASSUME NEW S, NEW g, DOMAIN g = S
  PROVE  SumFunction(g) = SumFunctionOnSet(g, S)
  BY DEF SumFunction

-----------------------------------------------------------------------------
(***************************************************************************)
(* Amounts and views.                                                      *)
(***************************************************************************)
\* AmountOf, with the amounts of any larger set.
LEMMA AmountIsSum ==
  ASSUME NEW S, IsFiniteSet(S), NEW T \in SUBSET S, \A x \in S : x.amount \in Int
  PROVE  /\ AmountOf(T) = SumFunctionOnSet([x \in S |-> x.amount], T)
         /\ AmountOf(T) \in Int
  <1> DEFINE g == [x \in T |-> x.amount]
             h == [x \in S |-> x.amount]
  <1>1. IsFiniteSet(T) /\ \A x \in T : g[x] \in Int /\ g[x] = h[x]
    BY FS_Subset
  <1>2. AmountOf(T) = SumFunctionOnSet(g, T)
    <2>1. DOMAIN g = T
      OBVIOUS
    <2>2. SumFunction(g) = SumFunctionOnSet(g, T)
      <3> HIDE DEF g
      <3>1. QED
        BY <2>1, SumFunctionIs
    <2>3. QED
      BY <2>2 DEF AmountOf
  <1>3. SumFunctionOnSet(g, T) \in Int /\ SumFunctionOnSet(g, T) = SumFunctionOnSet(h, T)
    <2> HIDE DEF g, h
    <2>1. QED
      BY <1>1, SumInt, SumOfSame
  <1>4. QED
    BY <1>2, <1>3

\* Amounts of two disjoint sets add up.
LEMMA AmountOfUnion ==
  ASSUME NEW S, IsFiniteSet(S), NEW T, IsFiniteSet(T), S \cap T = {},
         \A x \in S \cup T : x.amount \in Int
  PROVE  AmountOf(S \cup T) = AmountOf(S) + AmountOf(T)
  <1> DEFINE U == S \cup T
             g == [x \in U |-> x.amount]
  <1>1. IsFiniteSet(U) /\ S \in SUBSET U /\ T \in SUBSET U /\ U \in SUBSET U
    BY FS_Union
  <1>2. /\ AmountOf(S) = SumFunctionOnSet(g, S)
        /\ AmountOf(T) = SumFunctionOnSet(g, T)
        /\ AmountOf(U) = SumFunctionOnSet(g, U)
    <2>1. \A x \in U : x.amount \in Int
      OBVIOUS
    <2> HIDE DEF U
    <2>2. QED
      BY <1>1, <2>1, AmountIsSum
  <1>3. SumFunctionOnSet(g, U) = SumFunctionOnSet(g, S) + SumFunctionOnSet(g, T)
    <2>1. \A x \in S \cup T : g[x] \in Int
      OBVIOUS
    <2> HIDE DEF g
    <2>2. QED
      BY <2>1, SumUnion
  <1>4. QED
    BY <1>2, <1>3

\* Amounts of the groups of a set, by whatever key, add up.
LEMMA AmountOfGroups ==
  ASSUME NEW S, IsFiniteSet(S), NEW K, IsFiniteSet(K), NEW key \in [S -> K],
         \A x \in S : x.amount \in Int, NEW h, DOMAIN h = K,
         \A c \in K : h[c] = AmountOf(Group(S, key, c))
  PROVE  SumFunction(h) = AmountOf(S)
  <1> DEFINE g == [x \in S |-> x.amount]
  <1>1. \A c \in K : h[c] = SumFunctionOnSet(g, Group(S, key, c))
    <2>1. \A c \in K : Group(S, key, c) \in SUBSET S
      BY DEF Group
    <2>2. QED
      BY <2>1, AmountIsSum
  <1>2. \A x \in S : g[x] \in Int
    OBVIOUS
  <1>3. SumFunctionOnSet(h, K) = SumFunctionOnSet(g, S)
    <2> HIDE DEF g
    <2>1. QED
      BY <1>1, <1>2, SumPartition
  <1>4. SumFunctionOnSet(g, S) = AmountOf(S)
    BY AmountIsSum
  <1>5. QED
    BY <1>3, <1>4, SumFunctionIs

\* ... and so do their sizes.
LEMMA SizeOfGroups ==
  ASSUME NEW S, IsFiniteSet(S), NEW K, IsFiniteSet(K), NEW key \in [S -> K],
         NEW h, DOMAIN h = K, \A c \in K : h[c] = Cardinality(Group(S, key, c))
  PROVE  SumFunction(h) = Cardinality(S)
  <1> DEFINE g == [x \in S |-> 1]
  <1>1. \A T \in SUBSET S : SumFunctionOnSet(g, T) = Cardinality(T)
    <2>1. SUFFICES ASSUME NEW T \in SUBSET S PROVE SumFunctionOnSet(g, T) = Cardinality(T)
      OBVIOUS
    <2>2. IsFiniteSet(T) /\ \A x \in T : g[x] = 1
      BY FS_Subset
    <2> HIDE DEF g
    <2>3. QED
      BY <2>2, SumOfOnes
  <1>2. \A c \in K : h[c] = SumFunctionOnSet(g, Group(S, key, c))
    BY <1>1 DEF Group
  <1>3. \A x \in S : g[x] \in Int
    OBVIOUS
  <1>4. SumFunctionOnSet(h, K) = SumFunctionOnSet(g, S)
    <2> HIDE DEF g
    <2>1. QED
      BY <1>2, <1>3, SumPartition
  <1>5. QED
    BY <1>1, <1>4, SumFunctionIs

\* The rows of S that are counted under code c.
Coded(S, code, c) == {f \in S : code[f] = c}

\* Joining each row to its code neither loses a row nor counts one twice.
LEMMA JoinKeepsRows ==
  ASSUME NEW S, IsFiniteSet(S), \A f \in S : f.amount \in Int, NEW code
  PROVE  LET row(f) == [fact |-> f, code |-> code[f], amount |-> f.amount]
             J == {row(f) : f \in S}
         IN  /\ IsFiniteSet(J)
             /\ Cardinality(J) = Cardinality(S)
             /\ AmountOf(J) = AmountOf(S)
  <1> DEFINE row(f) == [fact |-> f, code |-> code[f], amount |-> f.amount]
             J == {row(f) : f \in S}
             b == [f \in S |-> row(f)]
             g == [f \in S |-> f.amount]
             h == [j \in J |-> j.amount]
  <1>1. b \in Bijection(S, J)
    <2>1. b \in [S -> J]
      OBVIOUS
    <2>2. \A f, e \in S : b[f] = b[e] => f = e
      <3>1. SUFFICES ASSUME NEW f \in S, NEW e \in S, b[f] = b[e] PROVE f = e
        OBVIOUS
      <3>2. b[f].fact = f /\ b[e].fact = e
        OBVIOUS
      <3>3. QED
        BY <3>1, <3>2
    <2>3. \A j \in J : \E f \in S : b[f] = j
      OBVIOUS
    <2>4. QED
      BY <2>1, <2>2, <2>3 DEF Bijection, Injection, Surjection, IsInjective
  <1>2. IsFiniteSet(J) /\ Cardinality(J) = Cardinality(S)
    <2>1. ExistsBijection(S, J)
      BY <1>1 DEF ExistsBijection
    <2> HIDE DEF J
    <2>2. QED
      BY <2>1, FS_Bijection
  <1>3. \A f \in S : g[f] \in Int /\ g[f] = h[b[f]]
    OBVIOUS
  <1>4. SumFunctionOnSet(g, S) = SumFunctionOnSet(h, J)
    <2> HIDE DEF b, g, h, J
    <2>1. QED
      BY <1>1, <1>3, SumReindex
  <1>5. AmountOf(S) = SumFunctionOnSet(g, S)
    BY AmountIsSum
  <1>6. AmountOf(J) = SumFunctionOnSet(h, J)
    <2>1. \A j \in J : j.amount \in Int
      OBVIOUS
    <2> HIDE DEF J
    <2>2. QED
      BY <1>2, <2>1, AmountIsSum
  <1>7. QED
    BY <1>2, <1>4, <1>5, <1>6

\* The rows S joined to their codes, as a view groups them.
Joined(S, code) == {[fact |-> f, code |-> code[f], amount |-> f.amount] : f \in S}

\* The amounts of the nodes of a view that have a code.
MappedIn(v) == SumFunction([n \in DOMAIN v.nodes \ {Unclassified} |-> v.nodes[n].amount])

\* What a view v of the rows S, under their codes, returns: a node for each code in
\* use, with the size and the amount of the rows counted under it; the total and the
\* count of all the rows, none left out; and nodes that add up to the total.
CountsAll(v, S, code) ==
    /\ DOMAIN v.nodes = {code[f] : f \in S}
    /\ \A c \in DOMAIN v.nodes :
          v.nodes[c] = [count |-> Cardinality(Coded(S, code, c)), amount |-> AmountOf(Coded(S, code, c))]
    /\ v.total = AmountOf(S)
    /\ v.count = Cardinality(S)
    /\ v.unmapped = AmountOf(Coded(S, code, Unclassified))
    /\ MappedIn(v) + v.unmapped = v.total

LEMMA ViewOfRows ==
  ASSUME NEW S, IsFiniteSet(S), \A f \in S : f.amount \in Int, NEW code
  PROVE  CountsAll(ViewOf(Joined(S, code)), S, code)
  <1> SUFFICES ASSUME NEW v, v = ViewOf(Joined(S, code)) PROVE CountsAll(v, S, code)
    OBVIOUS
  <1> DEFINE row(f) == [fact |-> f, code |-> code[f], amount |-> f.amount]
             J == {row(f) : f \in S}
             codes == {j.code : j \in J}
             node(c) == {j \in J : j.code = c}
             key == [f \in S |-> code[f]]
  <1>1. codes = {code[f] : f \in S}
    <2>1. \A f \in S : row(f) \in J /\ row(f).code = code[f]
      OBVIOUS
    <2>2. \A c \in codes : \E f \in S : c = code[f]
      OBVIOUS
    <2>3. \A f \in S : code[f] \in codes
      BY <2>1
    <2> HIDE DEF codes
    <2>4. QED
      BY <2>2, <2>3
  <1>2. \A c : IsFiniteSet(Coded(S, code, c)) /\ Coded(S, code, c) \subseteq S
    BY FS_Subset DEF Coded
  <1>3. ASSUME NEW c
        PROVE  /\ Cardinality(node(c)) = Cardinality(Coded(S, code, c))
               /\ AmountOf(node(c)) = AmountOf(Coded(S, code, c))
    <2> DEFINE T == Coded(S, code, c)
    <2>1. node(c) = {row(f) : f \in T}
      BY DEF Coded
    <2>2. IsFiniteSet(T) /\ \A f \in T : f.amount \in Int
      BY <1>2
    <2>3. /\ Cardinality({row(f) : f \in T}) = Cardinality(T)
          /\ AmountOf({row(f) : f \in T}) = AmountOf(T)
      <3> HIDE DEF T
      <3>1. QED
        BY <2>2, JoinKeepsRows
    <2>4. QED
      BY <2>1, <2>3
  <1>4. key \in Surjection(S, codes)
    BY <1>1 DEF Surjection
  <1>5. IsFiniteSet(codes)
    <2> HIDE DEF codes, key
    <2>1. QED
      BY <1>4, FS_Surjection
  <1>6. /\ v.nodes = [c \in codes |-> [count |-> Cardinality(node(c)), amount |-> AmountOf(node(c))]]
        /\ v.total = SumFunction([c \in codes |-> AmountOf(node(c))])
        /\ v.count = SumFunction([c \in codes |-> Cardinality(node(c))])
        /\ v.unmapped = AmountOf(node(Unclassified))
    BY DEF ViewOf, Joined
  <1>7. \A c : Group(S, key, c) = Coded(S, code, c)
    BY DEF Group, Coded
  <1>8. key \in [S -> codes]
    BY <1>1
  <1>9. v.total = AmountOf(S)
    <2> DEFINE h == [c \in codes |-> AmountOf(node(c))]
    <2>1. DOMAIN h = codes /\ \A c \in codes : h[c] = AmountOf(Group(S, key, c))
      BY <1>3, <1>7
    <2>2. SumFunction(h) = AmountOf(S)
      <3> HIDE DEF h, codes, key
      <3>1. QED
        BY <1>5, <1>8, <2>1, AmountOfGroups
    <2>3. QED
      BY <1>6, <2>2
  <1>10. v.count = Cardinality(S)
    <2> DEFINE h == [c \in codes |-> Cardinality(node(c))]
    <2>1. DOMAIN h = codes /\ \A c \in codes : h[c] = Cardinality(Group(S, key, c))
      BY <1>3, <1>7
    <2>2. SumFunction(h) = Cardinality(S)
      <3> HIDE DEF h, codes, key
      <3>1. QED
        BY <1>5, <1>8, <2>1, SizeOfGroups
    <2>3. QED
      BY <1>6, <2>2
  <1>11. v.unmapped = AmountOf(Coded(S, code, Unclassified))
    BY <1>3, <1>6
  <1>12. DOMAIN v.nodes = {code[f] : f \in S}
    BY <1>1, <1>6
  <1>13. \A c \in DOMAIN v.nodes :
            v.nodes[c] = [count |-> Cardinality(Coded(S, code, c)), amount |-> AmountOf(Coded(S, code, c))]
    BY <1>3, <1>6
  <1>14. MappedIn(v) + v.unmapped = v.total
    <2> DEFINE U == Coded(S, code, Unclassified)
               R == S \ U
               K == codes \ {Unclassified}
               k == [f \in R |-> code[f]]
               h == [n \in DOMAIN v.nodes \ {Unclassified} |-> v.nodes[n].amount]
    <2>1. IsFiniteSet(R) /\ IsFiniteSet(K) /\ k \in [R -> K] /\ \A f \in R : f.amount \in Int
      <3>1. IsFiniteSet(R)
        BY FS_Subset
      <3>2. IsFiniteSet(K)
        <4> HIDE DEF codes
        <4>1. QED
          BY <1>5, FS_Subset
      <3>3. k \in [R -> K]
        BY <1>1 DEF Coded
      <3>4. QED
        BY <3>1, <3>2, <3>3
    <2>2. DOMAIN h = K
      BY <1>6
    <2>3. \A c \in K : Coded(S, code, c) = Group(R, k, c)
      BY DEF Coded, Group
    <2>4. \A c \in K : h[c] = AmountOf(Group(R, k, c))
      <3>1. \A c \in K : h[c] = AmountOf(Coded(S, code, c))
        <4>1. SUFFICES ASSUME NEW c \in K PROVE h[c] = AmountOf(Coded(S, code, c))
          OBVIOUS
        <4>2. c \in DOMAIN v.nodes /\ c \in K
          <5>1. DOMAIN v.nodes = codes
            BY <1>6
          <5> HIDE DEF codes
          <5>2. QED
            BY <5>1
        <4>3. v.nodes[c].amount = AmountOf(Coded(S, code, c))
          <5>1. v.nodes[c] = [count |-> Cardinality(Coded(S, code, c)), amount |-> AmountOf(Coded(S, code, c))]
            BY <1>13, <4>2, Zenon
          <5>2. QED
            BY <5>1
        <4>4. h[c] = v.nodes[c].amount
          BY <4>2
        <4>5. QED
          BY <4>3, <4>4
      <3> HIDE DEF K, h
      <3>2. QED
        BY <2>3, <3>1
    <2>5. SumFunction(h) = AmountOf(R)
      <3> HIDE DEF h, R, K, k
      <3>1. QED
        BY <2>1, <2>2, <2>4, AmountOfGroups
    <2>6. AmountOf(R \cup U) = AmountOf(R) + AmountOf(U)
      <3>1. R \cap U = {} /\ IsFiniteSet(U) /\ \A f \in R \cup U : f.amount \in Int
        BY <1>2
      <3> HIDE DEF R, U
      <3>2. QED
        BY <2>1, <3>1, AmountOfUnion
    <2>7. R \cup U = S
      BY <1>2
    <2>8. AmountOf(R \cup U) = AmountOf(S)
      <3> HIDE DEF R, U
      <3>1. QED
        BY <2>7
    <2>9. QED
      BY <1>9, <1>11, <2>5, <2>6, <2>8 DEF MappedIn
  <1>15. QED
    BY <1>9, <1>10, <1>11, <1>12, <1>13, <1>14 DEF CountsAll

\* The size of a node.
LEMMA NodeCount ==
  ASSUME NEW v, NEW S, NEW code, CountsAll(v, S, code), NEW c \in DOMAIN v.nodes
  PROVE  v.nodes[c].count = Cardinality(Coded(S, code, c))
  <1>1. v.nodes[c] = [count |-> Cardinality(Coded(S, code, c)), amount |-> AmountOf(Coded(S, code, c))]
    BY Zenon DEF CountsAll
  <1>2. QED
    BY <1>1

-----------------------------------------------------------------------------
(***************************************************************************)
(* The queries.                                                            *)
(***************************************************************************)
\* What InScope selects is part of the facts.
LEMMA InScopeFinite ==
  ASSUME NEW F, IsFiniteSet(F), \A f \in F : f.amount \in Int, NEW scope
  PROVE  IsFiniteSet(InScope(F, scope)) /\ \A f \in InScope(F, scope) : f \in F /\ f.amount \in Int
  <1>1. InScope(F, scope) \subseteq F
    BY DEF InScope, Current
  <1>2. QED
    BY <1>1, FS_Subset

\* D24: the classification tree of a scope drops nothing and counts nothing twice,
\* whatever versions and ties its facts have: its total and count are those of the
\* current facts in scope, mapped and unmapped amounts add up to the total, and the
\* node of a code has the facts whose latest assignment it is.
THEOREM ViewBySchemeCountsAll ==
  ASSUME NEW F, IsFiniteSet(F), \A f \in F : f.amount \in Int, NEW A, NEW scope, NEW scheme,
         NEW v, v = ViewByScheme(F, A, scope, scheme)
  PROVE  /\ v.total = AmountOf(InScope(F, scope))
         /\ v.count = Cardinality(InScope(F, scope))
         /\ MappedIn(v) + v.unmapped = v.total
         /\ \A c \in DOMAIN v.nodes :
               v.nodes[c].count = Cardinality({f \in InScope(F, scope) : CodeOf(A, f, scheme) = c})
  <1> DEFINE S == InScope(F, scope)
             code == [f \in S |-> CodeOf(A, f, scheme)]
  <1>1. IsFiniteSet(S) /\ \A f \in S : f.amount \in Int
    BY InScopeFinite
  <1>2. v = ViewOf(Joined(S, code))
    <2>1. JoinedFacts(F, A, scope, scheme) = Joined(S, code)
      BY DEF JoinedFacts, Joined
    <2> HIDE DEF S, code
    <2>2. QED
      BY <2>1 DEF ViewByScheme
  <1>3. \A c : Coded(S, code, c) = {f \in S : CodeOf(A, f, scheme) = c}
    BY DEF Coded
  <1>4. CountsAll(v, S, code)
    <2> HIDE DEF S, code
    <2>1. QED
      BY <1>1, <1>2, ViewOfRows
  <1>5. ASSUME NEW c \in DOMAIN v.nodes
        PROVE  v.nodes[c].count = Cardinality({f \in S : CodeOf(A, f, scheme) = c})
    <2>1. v.nodes[c].count = Cardinality(Coded(S, code, c))
      BY <1>4, NodeCount
    <2>2. QED
      BY <1>3, <2>1
  <1>6. /\ v.total = AmountOf(S)
        /\ v.count = Cardinality(S)
        /\ MappedIn(v) + v.unmapped = v.total
    <2> HIDE DEF S, code
    <2>1. QED
      BY <1>4 DEF CountsAll
  <1>7. QED
    BY <1>5, <1>6

\* The facts a payee view puts in node p.
FactsAtNode(F, entities, scope, p) ==
    {f \in InScope(F, scope) : p = IF f.payee \in entities THEN f.payee ELSE Unclassified}

\* The payee tree of a scope: its node of a payee with an entity row has the facts
\* of that payee, and no other payee's.
THEOREM ViewByPayeeCountsAll ==
  ASSUME NEW F, IsFiniteSet(F), \A f \in F : f.amount \in Int, NEW entities, NEW scope,
         NEW v, v = ViewByPayee(F, entities, scope)
  PROVE  /\ v.total = AmountOf(InScope(F, scope))
         /\ v.count = Cardinality(InScope(F, scope))
         /\ \A p \in entities \ {Unclassified} :
               LET paid == ListPayeeFacts(F, scope, p)
               IN  paid # {} => /\ p \in DOMAIN v.nodes
                                /\ v.nodes[p] = [count |-> Cardinality(paid), amount |-> AmountOf(paid)]
         /\ \A p \in DOMAIN v.nodes :
               v.nodes[p].count = Cardinality(FactsAtNode(F, entities, scope, p))
  <1> DEFINE S == InScope(F, scope)
             code == [f \in S |-> IF f.payee \in entities THEN f.payee ELSE Unclassified]
  <1>1. IsFiniteSet(S) /\ \A f \in S : f.amount \in Int
    BY InScopeFinite
  <1>2. v = ViewOf(Joined(S, code))
    <2> DEFINE rows == {[fact |-> f, code |-> IF f.payee \in entities THEN f.payee ELSE Unclassified,
                         amount |-> f.amount] : f \in S}
    <2>1. rows = Joined(S, code)
      BY DEF Joined
    <2>2. v = ViewOf(rows)
      BY DEF ViewByPayee
    <2> HIDE DEF rows, code, S
    <2>3. QED
      BY <2>1, <2>2
  <1>3. CountsAll(v, S, code)
    <2> HIDE DEF S, code
    <2>1. QED
      BY <1>1, <1>2, ViewOfRows
  <1>4. ASSUME NEW p \in entities \ {Unclassified}, ListPayeeFacts(F, scope, p) # {}
        PROVE  /\ p \in DOMAIN v.nodes
               /\ v.nodes[p] = [count |-> Cardinality(ListPayeeFacts(F, scope, p)),
                                amount |-> AmountOf(ListPayeeFacts(F, scope, p))]
    <2>1. Coded(S, code, p) = ListPayeeFacts(F, scope, p)
      BY DEF Coded, ListPayeeFacts
    <2>2. PICK f \in S : f.payee = p
      BY <1>4 DEF ListPayeeFacts
    <2>3. code[f] = p
      BY <2>2
    <2>4. p \in DOMAIN v.nodes
      <3>1. DOMAIN v.nodes = {code[e] : e \in S}
        BY <1>3, Zenon DEF CountsAll
      <3>2. QED
        BY <2>2, <2>3, <3>1
    <2>5. v.nodes[p] = [count |-> Cardinality(Coded(S, code, p)), amount |-> AmountOf(Coded(S, code, p))]
      BY <1>3, <2>4, Zenon DEF CountsAll
    <2> HIDE DEF S, code
    <2>6. QED
      BY <2>1, <2>4, <2>5
  <1>5. ASSUME NEW p \in DOMAIN v.nodes
        PROVE  v.nodes[p].count = Cardinality(FactsAtNode(F, entities, scope, p))
    <2>1. v.nodes[p].count = Cardinality(Coded(S, code, p))
      BY <1>3, NodeCount
    <2>2. Coded(S, code, p) = FactsAtNode(F, entities, scope, p)
      BY DEF Coded, FactsAtNode
    <2>3. QED
      BY <2>1, <2>2
  <1>6. v.total = AmountOf(S) /\ v.count = Cardinality(S)
    BY <1>3, Zenon DEF CountsAll
  <1>7. QED
    BY <1>4, <1>5, <1>6

\* The cross-cut of an entity adds up what current facts paid it in the year.
THEOREM EntityFlowsCountAll ==
  ASSUME NEW F, IsFiniteSet(F), \A f \in F : f.amount \in Int, NEW A, NEW entity, NEW year, NEW scheme
  PROVE  EntityFlows(F, A, entity, year, scheme).total
           = AmountOf({g \in Current(F) : g.payee = entity /\ g.year = year})
  <1> DEFINE S == {g \in Current(F) : g.payee = entity /\ g.year = year}
             code == [f \in S |-> CodeOf(A, f, scheme)]
             v == EntityFlows(F, A, entity, year, scheme)
  <1>1. IsFiniteSet(S) /\ \A f \in S : f.amount \in Int
    <2>1. S \subseteq F
      BY DEF Current
    <2>2. QED
      BY <2>1, FS_Subset
  <1>2. v = ViewOf(Joined(S, code))
    <2> DEFINE rows == {[fact |-> f, code |-> CodeOf(A, f, scheme), amount |-> f.amount] : f \in S}
    <2>1. rows = Joined(S, code)
      BY DEF Joined
    <2>2. v = ViewOf(rows)
      BY DEF EntityFlows
    <2> HIDE DEF rows, code, S
    <2>3. QED
      BY <2>1, <2>2
  <1>3. CountsAll(v, S, code)
    <2> HIDE DEF S, code, v
    <2>1. QED
      BY <1>1, <1>2, ViewOfRows
  <1>4. v.total = AmountOf(S)
    BY <1>3, Zenon DEF CountsAll
  <1>5. QED
    BY <1>4

-----------------------------------------------------------------------------
(***************************************************************************)
(* Versions, drill-downs and comparisons.                                  *)
(***************************************************************************)
\* Naturals have a least one, and bounded ones a greatest.
LEMMA LeastNumber ==
  ASSUME NEW T \in SUBSET Nat, T # {}
  PROVE  \E x \in T : \A y \in T : x <= y
  <1>1. IsWellFoundedOn(SmallerNat, Nat)
    BY NatLessThanWellFounded, Zenon DEF OpToRel, SmallerNat
  <1>2. PICK x \in T : \A y \in T : ~ (<<y, x>> \in SmallerNat)
    BY <1>1, WFMin
  <1>3. ASSUME NEW y \in T PROVE x <= y
    <2>1. x \in Nat /\ y \in Nat
      OBVIOUS
    <2>2. ~ (y < x)
      BY <1>2, <2>1 DEF SmallerNat
    <2>3. QED
      BY <2>1, <2>2
  <1>4. QED
    BY <1>3

LEMMA GreatestNumber ==
  ASSUME NEW T \in SUBSET Nat, T # {}, NEW n \in Nat, \A x \in T : x <= n
  PROVE  \E x \in T : \A y \in T : y <= x
  <1> DEFINE D == {n - x : x \in T}
  <1>1. \A x \in T : n - x \in Nat
    OBVIOUS
  <1>2. D \in SUBSET Nat /\ D # {}
    BY <1>1
  <1> HIDE DEF D
  <1>3. PICK d \in D : \A e \in D : d <= e
    BY <1>2, LeastNumber
  <1>4. PICK x \in T : d = n - x
    BY DEF D
  <1>5. ASSUME NEW y \in T PROVE y <= x
    <2>1. n - y \in D
      BY DEF D
    <2>2. n - x <= n - y
      BY <1>3, <1>4, <2>1
    <2>3. QED
      BY <2>2
  <1>6. QED
    BY <1>5

\* A fact with versions has a latest one, which nothing precedes.
LEMMA LatestExists ==
  ASSUME NEW A, NEW f, NEW s, NEW n \in Nat, Versions(A, f, s) # {},
         \A a \in Versions(A, f, s) : a.version \in Nat /\ a.version <= n /\ a.code \in Nat
  PROVE  /\ Latest(A, f, s) \in Versions(A, f, s)
         /\ \A b \in Versions(A, f, s) : b.version <= Latest(A, f, s).version
  <1> DEFINE V == Versions(A, f, s)
  <1> DEFINE T == {a.version : a \in V}
  <1> HIDE DEF V
  <1>1. V # {} /\ \A a \in V : a.version \in Nat /\ a.version <= n /\ a.code \in Nat
    BY DEF V
  <1>2. T \in SUBSET Nat /\ T # {} /\ \A x \in T : x <= n
    BY <1>1
  <1>3. PICK top \in T : \A y \in T : y <= top
    BY <1>2, GreatestNumber
  <1> DEFINE U == {a \in V : a.version = top}
  <1> DEFINE K == {a.code : a \in U}
  <1>4. K \in SUBSET Nat /\ K # {}
    BY <1>1
  <1>5. PICK k \in K : \A j \in K : k <= j
    BY <1>4, LeastNumber
  <1>6. PICK a \in U : a.code = k
    OBVIOUS
  <1>7. ASSUME NEW b \in V PROVE ~ Precedes(b, a)
    <2>1. b.version \in T /\ b.version <= top
      BY <1>3
    <2>2. b.version = top => a.code <= b.code
      <3>1. ASSUME b.version = top PROVE b.code \in K
        BY <3>1
      <3>2. QED
        BY <1>5, <1>6, <3>1
    <2>3. QED
      BY <1>1, <1>6, <2>1, <2>2, <1>2 DEF Precedes
  <1>8. Latest(A, f, s) = CHOOSE x \in V : \A b \in V : ~ Precedes(b, x)
    BY Zenon DEF Latest, V
  <1>9. Latest(A, f, s) \in V /\ \A b \in V : ~ Precedes(b, Latest(A, f, s))
    BY <1>6, <1>7, <1>8
  <1>10. \A b \in V : b.version <= Latest(A, f, s).version
    BY <1>1, <1>9 DEF Precedes
  <1>11. QED
    BY <1>9, <1>10 DEF V

\* The versions of finitely many assignments are bounded.
LEMMA VersionsAreBounded ==
  ASSUME NEW A, IsFiniteSet(A), \A a \in A : a.version \in Nat
  PROVE  \E n \in Nat : \A a \in A : a.version <= n
  <1> DEFINE P == {T \in SUBSET A : \E n \in Nat : \A a \in T : a.version <= n}
  <1>1. {} \in P
    BY 0 \in Nat
  <1>2. ASSUME NEW T \in SUBSET A, NEW x \in A, T \in P PROVE T \cup {x} \in P
    <2>1. PICK n \in Nat : \A a \in T : a.version <= n
      BY <1>2
    <2>2. n + x.version \in Nat /\ x.version <= n + x.version
      OBVIOUS
    <2>3. \A a \in T : a.version <= n + x.version
      BY <2>1
    <2>4. QED
      BY <2>2, <2>3
  <1>3. A \in P
    <2> HIDE DEF P
    <2>1. QED
      BY <1>1, <1>2, SetInduction
  <1>4. QED
    BY <1>3

\* Whatever versions a fact has in a scheme, the drill-down of the node that counts
\* it lists it: what a node counts is what its drill-down lists under that code now.
\* What the drill-down lists besides has been coded otherwise since (queries.go:249).
THEOREM NodesAreListed ==
  ASSUME NEW F, IsFiniteSet(F), \A f \in F : f.amount \in Int,
         NEW A, IsFiniteSet(A), \A a \in A : a.code \in Nat \ {Unclassified} /\ a.version \in Nat,
         NEW scope, NEW scheme, NEW v, v = ViewByScheme(F, A, scope, scheme), NEW c \in DOMAIN v.nodes
  PROVE  v.nodes[c].count
           = Cardinality({f \in ListFacts(F, A, scope, scheme, c) : CodeOf(A, f, scheme) = c})
  <1>1. PICK n \in Nat : \A a \in A : a.version <= n
    BY VersionsAreBounded
  <1>2. ASSUME NEW f, Versions(A, f, scheme) # {}
        PROVE  Latest(A, f, scheme) \in Versions(A, f, scheme)
    <2>1. \A a \in Versions(A, f, scheme) : a.version \in Nat /\ a.version <= n /\ a.code \in Nat
      BY <1>1 DEF Versions
    <2>2. QED
      BY <1>2, <2>1, LatestExists
  <1>3. ASSUME NEW f \in InScope(F, scope), CodeOf(A, f, scheme) = c PROVE f \in ListFacts(F, A, scope, scheme, c)
    <2>1. CASE Versions(A, f, scheme) = {}
      BY <1>3, <2>1 DEF CodeOf, ListFacts
    <2>2. CASE Versions(A, f, scheme) # {}
      <3>1. Latest(A, f, scheme) \in Versions(A, f, scheme) /\ Latest(A, f, scheme).code = c
        BY <1>2, <1>3, <2>2 DEF CodeOf
      <3>2. c # Unclassified
        BY <3>1 DEF Versions
      <3>3. QED
        BY <1>3, <3>1, <3>2 DEF ListFacts
    <2>3. QED
      BY <2>1, <2>2
  <1>4. {f \in ListFacts(F, A, scope, scheme, c) : CodeOf(A, f, scheme) = c}
          = {f \in InScope(F, scope) : CodeOf(A, f, scheme) = c}
    BY <1>3 DEF ListFacts
  <1>5. v.nodes[c].count = Cardinality({f \in InScope(F, scope) : CodeOf(A, f, scheme) = c})
    BY ViewBySchemeCountsAll
  <1>6. QED
    BY <1>4, <1>5

\* Where the facts have one version each in the scheme, there is nothing besides.
LEMMA ListedFactsAreCounted ==
  ASSUME NEW F, NEW A, NEW scope, NEW scheme, NEW code,
         \A a \in A : a.code \in Int /\ a.version \in Int,
         \A a, b \in A : a.scheme = scheme /\ b.scheme = scheme /\ a.fact = b.fact => a = b
  PROVE  ListFacts(F, A, scope, scheme, code)
           \subseteq {f \in InScope(F, scope) : CodeOf(A, f, scheme) = code}
  <1>1. SUFFICES ASSUME NEW f \in ListFacts(F, A, scope, scheme, code)
                 PROVE  f \in InScope(F, scope) /\ CodeOf(A, f, scheme) = code
    OBVIOUS
  <1>2. f \in InScope(F, scope)
    BY DEF ListFacts
  <1>3. CASE code = Unclassified
    BY <1>1, <1>3 DEF ListFacts, CodeOf
  <1>4. CASE code # Unclassified
    <2>1. PICK a \in Versions(A, f, scheme) : a.code = code
      BY <1>4 DEF ListFacts
    <2>2. Versions(A, f, scheme) = {a}
      BY <2>1 DEF Versions
    <2>3. ~ Precedes(a, a)
      BY DEF Precedes, Versions
    <2>4. Latest(A, f, scheme) = a
      BY <2>2, <2>3 DEF Latest
    <2>5. QED
      BY <1>2, <2>1, <2>2, <2>4 DEF CodeOf
  <1>5. QED
    BY <1>3, <1>4

\* The facts of a jurisdiction that were given a code of a scheme, in any version.
EverCoded(F, A, scheme, code, jur) ==
    {f \in Current(F) : f.jur = jur /\ \E a \in Versions(A, f, scheme) : a.code = code}

\* A comparison counts each of them once, if none was given the code twice.
LEMMA ComparisonCounts ==
  ASSUME NEW F, IsFiniteSet(F), NEW A, NEW scheme, NEW code, NEW jur,
         \A a, b \in A : a.scheme = scheme /\ a.code = code /\ b.scheme = scheme /\ b.code = code
                           /\ a.fact = b.fact => a = b
  PROVE  Compare(F, A, scheme, code, jur).count = Cardinality(EverCoded(F, A, scheme, code, jur))
  <1> DEFINE M == EverCoded(F, A, scheme, code, jur)
             joined == {[fact |-> f, row |-> a, amount |-> f.amount] :
                          f \in {g \in Current(F) : g.jur = jur}, a \in {b \in A : b.scheme = scheme /\ b.code = code}}
             J == {j \in joined : j.row.fact = j.fact.id}
             row(f) == CHOOSE a \in Versions(A, f, scheme) : a.code = code
             b == [f \in M |-> [fact |-> f, row |-> row(f), amount |-> f.amount]]
  <1>1. \A f \in M : row(f) \in Versions(A, f, scheme) /\ row(f).code = code
    BY DEF EverCoded
  <1>2. b \in [M -> J]
    <2>1. ASSUME NEW f \in M PROVE b[f] \in J
      <3>1. f \in {g \in Current(F) : g.jur = jur}
        BY DEF EverCoded
      <3>2. row(f) \in {y \in A : y.scheme = scheme /\ y.code = code} /\ row(f).fact = f.id
        BY <1>1 DEF Versions
      <3> HIDE DEF row
      <3>3. QED
        BY <3>1, <3>2
    <2> HIDE DEF J, row
    <2>2. QED
      BY <2>1
  <1>3. \A f, e \in M : b[f] = b[e] => f = e
    <2>1. SUFFICES ASSUME NEW f \in M, NEW e \in M, b[f] = b[e] PROVE f = e
      OBVIOUS
    <2>2. b[f].fact = f /\ b[e].fact = e
      OBVIOUS
    <2>3. QED
      BY <2>1, <2>2
  <1>4. \A j \in J : \E f \in M : b[f] = j
    <2>1. SUFFICES ASSUME NEW j \in J PROVE \E f \in M : b[f] = j
      OBVIOUS
    <2>2. PICK f \in Current(F), a \in A :
             /\ j = [fact |-> f, row |-> a, amount |-> f.amount]
             /\ f.jur = jur /\ a.scheme = scheme /\ a.code = code
      OBVIOUS
    <2>3. a.fact = f.id
      BY <2>1, <2>2
    <2>4. a \in Versions(A, f, scheme) /\ f \in M
      BY <2>2, <2>3 DEF Versions, EverCoded
    <2>5. row(f) = a
      <3>1. row(f) \in A /\ row(f).scheme = scheme /\ row(f).code = code /\ row(f).fact = a.fact
        BY <1>1, <2>3, <2>4 DEF Versions
      <3> HIDE DEF row
      <3>2. QED
        BY <2>2, <3>1
    <2> HIDE DEF row
    <2>6. QED
      BY <2>2, <2>4, <2>5
  <1>5. ExistsBijection(M, J)
    <2> HIDE DEF M, J, b
    <2>1. QED
      BY <1>2, <1>3, <1>4 DEF ExistsBijection, Bijection, Injection, Surjection, IsInjective
  <1>6. IsFiniteSet(M)
    <2>1. M \subseteq F
      BY DEF EverCoded, Current
    <2>2. QED
      BY <2>1, FS_Subset
  <1>7. Cardinality(J) = Cardinality(M)
    <2> HIDE DEF M, J
    <2>1. QED
      BY <1>5, <1>6, FS_Bijection
  <1>8. Compare(F, A, scheme, code, jur).count = Cardinality(J)
    BY DEF Compare
  <1>9. QED
    BY <1>7, <1>8
=============================================================================
