--------------------------- MODULE ClassifyProofs ---------------------------
(***************************************************************************)
(* Theorems about module Classify, for whatever facts are published,       *)
(* whatever mapping files are applied, any number of overlapping           *)
(* invocations of the loader and any reviewers.                            *)
(***************************************************************************)
EXTENDS Classify, ViewsProofs

\* What a mapping file and the government's categories say of a row's fact.
RestatesNow(p) ==
    \E f \in facts, m \in Mappings :
        /\ f.id = p.fact
        /\ \E e \in Candidates(f, m) : e.code = p.code /\ e.basis = p.basis
        /\ \A d \in Candidates(f, m) : d.code = p.code

\* ... and said before the source coded the fact again.
Restates(p) ==
    \E f \in facts, m \in Mappings :
        /\ f.id = p.fact
        /\ \E e \in Candidates(f, m) : e.code = p.code /\ e.basis = p.basis
        /\ p \in overtaken \/ \A d \in Candidates(f, m) : d.code = p.code

\* A row beyond the first comes right after a row that says something else.
ChangesTheLast(p) ==
    \/ p.version = 1
    \/ \E a \in asg : /\ a.fact = p.fact /\ a.scheme = Cofog /\ a.version = p.version - 1
                      /\ ~ (a.code = p.code /\ a.basis = p.basis)

RowsAreReviewed ==
    /\ \A a \in asg : a.by = "rule" => Restates(a) /\ ChangesTheLast(a)
    /\ \A l \in Loaders : \A p \in plan[l] : Restates(p) /\ ChangesTheLast(p)

\* Versions have grown only so far.
VersionsBounded ==
    \E n \in Nat : /\ \A a \in asg : a.version <= n
                   /\ \A l \in Loaders : \A p \in plan[l] : p.version <= n

\* What a loader that nobody disturbed is about to insert is what it would plan
\* now.
PlanIsFresh ==
    \A l \in Loaders : clean[l] /\ pc[l] = "insert" => plan[l] = BuildPlan(mapping[l])

IInv == TypeOK /\ RowsAreReviewed /\ VersionsBounded /\ PlanIsFresh /\ MappingTakesEffect

\* The part of MappingTakesEffect about one file.
Applied(m) ==
    \A f \in InScope(facts, Scope) :
        Candidates(f, m) # {} /\ ~ Ambiguous(Candidates(f, m))
            => LatestIsHuman(f) \/ LatestMatches(f, Winner(Candidates(f, m)))

-----------------------------------------------------------------------------
(***************************************************************************)
(* The first candidate exists, and the latest version is known.            *)
(***************************************************************************)
\* The first candidate is one of the candidates.
LEMMA WinnerExists ==
  ASSUME NEW C \in SUBSET Entry, C # {}
  PROVE  Winner(C) \in C
  <1> DEFINE D == IF \E e \in C : e.scheme = "acq" THEN {e \in C : e.scheme = "acq"} ELSE C
  <1> DEFINE T == {e.category : e \in D}
  <1>1. D \subseteq C /\ D # {}
    OBVIOUS
  <1>2. \A e \in C : e.scheme \in {"acq", "dept"} /\ e.category \in Nat
    BY DEF Entry
  <1>3. \A d, e \in D : d.scheme = e.scheme
    BY <1>2
  <1>4. \A d \in D, e \in C : e \notin D => d.scheme = "acq" /\ e.scheme = "dept"
    BY <1>2
  <1> HIDE DEF D
  <1>5. T \in SUBSET Nat /\ T # {}
    BY <1>1, <1>2
  <1>6. PICK n \in T : \A k \in T : n <= k
    BY <1>5, LeastNumber
  <1>7. PICK e \in D : e.category = n
    OBVIOUS
  <1>8. ASSUME NEW d \in C
        PROVE  \/ SchemeOrder(e.scheme) < SchemeOrder(d.scheme)
               \/ e.scheme = d.scheme /\ e.category <= d.category
    <2>1. CASE d \in D
      <3>1. d.category \in T
        BY <2>1
      <3>2. QED
        BY <1>3, <1>6, <1>7, <2>1, <3>1
    <2>2. CASE d \notin D
      <3>1. e.scheme = "acq" /\ d.scheme = "dept"
        BY <1>4, <2>2
      <3>2. QED
        BY <3>1 DEF SchemeOrder
    <2>3. QED
      BY <2>1, <2>2
  <1>9. e \in C
    BY <1>1
  <1>10. QED
    BY <1>8, <1>9 DEF Winner

\* What a fact's latest assignment is, in a reachable state.
LEMMA LatestKnown ==
  ASSUME TypeOK, VersionsBounded, NEW f
  PROVE  /\ LatestVersion(f) \in Nat
         /\ \A a \in Versions(asg, f, Cofog) : a.version <= LatestVersion(f)
         /\ Assigned(f) => /\ Latest(asg, f, Cofog) \in Versions(asg, f, Cofog)
                           /\ LatestVersion(f) = Latest(asg, f, Cofog).version
                           /\ LatestVersion(f) # 0
         /\ ~ Assigned(f) => LatestVersion(f) = 0
         /\ \A n \in Nat : (\A a \in asg : a.version <= n) => LatestVersion(f) <= n
  <1>1. PICK n \in Nat : \A a \in asg : a.version <= n
    BY DEF VersionsBounded
  <1>2. \A a \in Versions(asg, f, Cofog) :
           a \in asg /\ a.version \in Nat /\ a.version # 0 /\ a.version <= n /\ a.code \in Nat
    BY <1>1 DEF Versions, TypeOK
  <1>3. CASE ~ Assigned(f)
    BY <1>3 DEF Assigned, LatestVersion
  <1>4. CASE Assigned(f)
    <2>1. /\ Latest(asg, f, Cofog) \in Versions(asg, f, Cofog)
          /\ \A b \in Versions(asg, f, Cofog) : b.version <= Latest(asg, f, Cofog).version
      BY <1>2, <1>4, LatestExists DEF Assigned
    <2>2. LatestVersion(f) = Latest(asg, f, Cofog).version
      BY <1>4 DEF LatestVersion
    <2>3. QED
      BY <1>2, <1>4, <2>1, <2>2
  <1>5. QED
    BY <1>3, <1>4

-----------------------------------------------------------------------------
(***************************************************************************)
(* What a step leaves as it was.                                           *)
(***************************************************************************)
\* A fact's candidates depend on the source's assignments to it only.
LEMMA CandidatesStay ==
  ASSUME NEW S, asg' = asg \cup S, NEW f, \A a \in S : a.scheme = Cofog \/ a.fact # f.id
  PROVE  \A m \in SUBSET Entry : Candidates(f, m)' = Candidates(f, m)
  <1> SUFFICES ASSUME NEW m \in SUBSET Entry
               PROVE  Candidates(f, m)' = Candidates(f, m)
    OBVIOUS
  <1>1. \A e \in m : e.scheme # Cofog
    BY DEF Entry, Cofog
  <1>2. ASSUME NEW e \in m
        PROVE  (\E a \in InFact(f)' : a.scheme = e.scheme /\ a.code = e.category)
                 <=> \E a \in InFact(f) : a.scheme = e.scheme /\ a.code = e.category
    BY <1>1 DEF InFact
  <1>3. QED
    BY <1>2 DEF Candidates

\* They are never withdrawn.
LEMMA CandidatesGrow ==
  ASSUME asg \subseteq asg'
  PROVE  \A f, m : Candidates(f, m) \subseteq Candidates(f, m)'
  BY DEF Candidates, InFact

\* A row that was reviewed stays so, unless the source codes its fact again and it
\* is not marked as overtaken.
LEMMA RowsStay ==
  ASSUME MappingAssumption, facts \subseteq facts', asg \subseteq asg', overtaken \subseteq overtaken',
         NEW p, Restates(p), ChangesTheLast(p),
         p \in overtaken' \/ \A f \in facts : f.id = p.fact =>
            \A m \in SUBSET Entry : Candidates(f, m)' = Candidates(f, m)
  PROVE  Restates(p)' /\ ChangesTheLast(p)'
  <1>1. Restates(p)'
    <2>1. PICK f \in facts, m \in Mappings :
             /\ f.id = p.fact
             /\ \E e \in Candidates(f, m) : e.code = p.code /\ e.basis = p.basis
             /\ p \in overtaken \/ \A d \in Candidates(f, m) : d.code = p.code
      BY DEF Restates
    <2>2. Candidates(f, m) \subseteq Candidates(f, m)'
      BY CandidatesGrow
    <2>3. p \in overtaken' \/ Candidates(f, m)' = Candidates(f, m)
      BY <2>1 DEF MappingAssumption
    <2>4. p \in overtaken' \/ \A d \in Candidates(f, m)' : d.code = p.code
      BY <2>1, <2>3
    <2>5. \E e \in Candidates(f, m)' : e.code = p.code /\ e.basis = p.basis
      BY <2>1, <2>2
    <2>6. QED
      BY <2>1, <2>4, <2>5 DEF Restates
  <1>2. ChangesTheLast(p)'
    BY DEF ChangesTheLast
  <1>3. QED
    BY <1>1, <1>2

\* While facts and assignments stand, so does what follows from them.
LEMMA ReadsStay ==
  ASSUME UNCHANGED <<facts, asg>>
  PROVE  /\ \A m : BuildPlan(m)' = BuildPlan(m)
         /\ \A m : Applied(m)' <=> Applied(m)
         /\ \A p : RestatesNow(p)' <=> RestatesNow(p)
         /\ \A p : Restates(p) /\ (p \in overtaken => p \in overtaken') => Restates(p)'
         /\ \A p : ChangesTheLast(p)' <=> ChangesTheLast(p)
  <1>1. \A m : BuildPlan(m)' = BuildPlan(m)
    BY DEF BuildPlan, RuleRow, ToAssign, LatestVersion, LatestMatches, LatestIsHuman, Assigned,
           Candidates, InFact
  <1>2. \A m : Applied(m)' <=> Applied(m)
    BY DEF Applied, LatestMatches, LatestIsHuman, Assigned, Candidates, InFact
  <1>3. \A p : (RestatesNow(p)' <=> RestatesNow(p)) /\ (ChangesTheLast(p)' <=> ChangesTheLast(p))
    BY DEF RestatesNow, ChangesTheLast, Candidates, InFact
  <1>4. ASSUME NEW p, Restates(p), p \in overtaken => p \in overtaken' PROVE Restates(p)'
    <2>1. \A f, m : Candidates(f, m)' = Candidates(f, m)
      BY DEF Candidates, InFact
    <2>2. QED
      BY <1>4, <2>1 DEF Restates
  <1>5. QED
    BY <1>1, <1>2, <1>3, <1>4

\* MappingTakesEffect and PlanIsFresh, file by file.
LEMMA EffectIsApplied ==
  MappingTakesEffect <=>
    \A l \in Loaders : clean[l] /\ pc[l] \in {"count", "view"} => Applied(mapping[l])
  BY DEF MappingTakesEffect, Applied

LEMMA EffectNext ==
  ASSUME \A k \in Loaders : clean'[k] /\ pc'[k] \in {"count", "view"} =>
            \E m : mapping'[k] = m /\ Applied(m)'
  PROVE  MappingTakesEffect'
  <1>1. SUFFICES ASSUME NEW k \in Loaders, clean'[k], pc'[k] \in {"count", "view"},
                        NEW f \in InScope(facts', Scope),
                        Candidates(f, mapping[k])' # {}, ~ Ambiguous(Candidates(f, mapping[k])')
                 PROVE  LatestIsHuman(f)' \/ LatestMatches(f, Winner(Candidates(f, mapping[k])))'
    BY DEF MappingTakesEffect, Ambiguous
  <1>2. PICK m : mapping'[k] = m /\ Applied(m)'
    BY <1>1
  <1>3. Candidates(f, mapping[k])' = Candidates(f, m)'
    BY <1>2 DEF Candidates
  <1>4. Candidates(f, m)' # {} /\ ~ Ambiguous(Candidates(f, m))'
    BY <1>1, <1>3 DEF Ambiguous
  <1>5. LatestIsHuman(f)' \/ LatestMatches(f, Winner(Candidates(f, m)))'
    BY <1>1, <1>2, <1>4 DEF Applied
  <1>6. QED
    BY <1>3, <1>5 DEF LatestMatches

LEMMA FreshNext ==
  ASSUME \A k \in Loaders : clean'[k] /\ pc'[k] = "insert" =>
            \E m : mapping'[k] = m /\ plan'[k] = BuildPlan(m)'
  PROVE  PlanIsFresh'
  <1>1. SUFFICES ASSUME NEW k \in Loaders, clean'[k], pc'[k] = "insert"
                 PROVE  plan'[k] = BuildPlan(mapping[k])'
    BY DEF PlanIsFresh
  <1>2. PICK m : mapping'[k] = m /\ plan'[k] = BuildPlan(m)'
    BY <1>1
  <1>3. \A f : Candidates(f, mapping[k])' = Candidates(f, m)'
    BY <1>2 DEF Candidates
  <1>4. ToAssign(mapping[k])' = ToAssign(m)'
    BY <1>3 DEF ToAssign, Ambiguous, LatestMatches
  <1>5. \A f : RuleRow(f, Winner(Candidates(f, mapping[k])))' = RuleRow(f, Winner(Candidates(f, m)))'
    BY <1>3 DEF RuleRow
  <1>6. BuildPlan(mapping[k])' = BuildPlan(m)'
    BY <1>4, <1>5 DEF BuildPlan
  <1>7. QED
    BY <1>2, <1>6

-----------------------------------------------------------------------------
(***************************************************************************)
(* What the loader plans.                                                  *)
(***************************************************************************)
\* A planned row restates a reviewed entry, follows a row that said otherwise,
\* and is the next version.
LEMMA PlanIsSound ==
  ASSUME TypeOK, VersionsBounded, NEW m \in Mappings \cup {{}}, NEW p \in BuildPlan(m)
  PROVE  /\ p \in RuleRowType
         /\ RestatesNow(p) /\ ChangesTheLast(p)
         /\ \A n \in Nat : (\A a \in asg : a.version <= n) => p.version <= n + 1
  <1>1. PICK f \in ToAssign(m) : p = RuleRow(f, Winner(Candidates(f, m)))
    BY DEF BuildPlan
  <1> DEFINE C == Candidates(f, m)
  <1> DEFINE w == Winner(C)
  <1>2. /\ f \in InScope(facts, Scope)
        /\ C # {} /\ ~ Ambiguous(C) /\ ~ LatestMatches(f, w)
    BY <1>1 DEF ToAssign
  <1>3. f \in facts /\ f \in FactPool
    BY <1>2 DEF InScope, Current, TypeOK
  <1>4. C \subseteq m /\ \A e \in C : e.code # 0
    BY DEF Candidates, UnmappedCode
  <1>5. m \in Mappings /\ m \subseteq Entry
    BY <1>2, <1>4, MappingAssumption
  <1>6. w \in C
    BY <1>2, <1>4, <1>5, WinnerExists
  <1>7. w.code \in Nat \ {0} /\ w.basis \in Bases
    BY <1>4, <1>5, <1>6 DEF Entry, Bases
  <1>8. \A d \in C : d.code = w.code
    BY <1>2, <1>6 DEF Ambiguous
  <1> HIDE DEF C, w
  <1>9. p = [fact |-> f.id, scheme |-> Cofog, code |-> w.code, by |-> "rule", basis |-> w.basis,
             version |-> LatestVersion(f) + 1]
    BY <1>1 DEF RuleRow, C, w
  <1>10. /\ LatestVersion(f) \in Nat
         /\ Assigned(f) => /\ Latest(asg, f, Cofog) \in Versions(asg, f, Cofog)
                           /\ LatestVersion(f) = Latest(asg, f, Cofog).version
         /\ ~ Assigned(f) => LatestVersion(f) = 0
         /\ \A n \in Nat : (\A a \in asg : a.version <= n) => LatestVersion(f) <= n
    BY LatestKnown
  <1>11. p \in RuleRowType
    BY <1>3, <1>7, <1>9, <1>10 DEF RuleRowType, FactIds
  <1>12. RestatesNow(p)
    <2>1. f.id = p.fact /\ w.code = p.code /\ w.basis = p.basis /\ \A d \in C : d.code = p.code
      BY <1>8, <1>9
    <2>2. QED
      BY <1>3, <1>5, <1>6, <2>1 DEF RestatesNow, C
  <1>13. ChangesTheLast(p)
    <2>1. CASE ~ Assigned(f)
      BY <1>9, <1>10, <2>1 DEF ChangesTheLast
    <2>2. CASE Assigned(f)
      <3> DEFINE a == Latest(asg, f, Cofog)
      <3>1. a \in asg /\ a.fact = p.fact /\ a.scheme = Cofog /\ a.version = p.version - 1
        BY <1>9, <1>10, <2>2 DEF Versions
      <3>2. ~ (a.code = p.code /\ a.basis = p.basis)
        BY <1>2, <1>9, <2>2 DEF LatestMatches
      <3>3. QED
        BY <3>1, <3>2 DEF ChangesTheLast
    <2>3. QED
      BY <2>1, <2>2
  <1>14. ASSUME NEW n \in Nat, \A a \in asg : a.version <= n PROVE p.version <= n + 1
    BY <1>9, <1>10, <1>14
  <1>15. QED
    BY <1>11, <1>12, <1>13, <1>14

\* A file that leaves nothing to plan has been applied.
LEMMA NothingToPlan ==
  ASSUME NEW m, BuildPlan(m) = {}
  PROVE  Applied(m)
  <1>1. ToAssign(m) = {}
    BY DEF BuildPlan
  <1>2. QED
    BY <1>1 DEF ToAssign, Applied

\* Once the rows planned for the present state are inserted, the file has been
\* applied.
LEMMA InsertApplies ==
  ASSUME TypeOK, VersionsBounded, FactPoolAssumption,
         NEW m \in SUBSET Entry, facts' = facts, asg' = InsertNew(asg, BuildPlan(m)),
         \A f \in facts : Candidates(f, m)' = Candidates(f, m)
  PROVE  Applied(m)'
  <1> DEFINE P == BuildPlan(m)
  <1>1. SUFFICES ASSUME NEW f \in InScope(facts, Scope), Candidates(f, m) # {},
                        ~ Ambiguous(Candidates(f, m))
                 PROVE  LatestIsHuman(f)' \/ LatestMatches(f, Winner(Candidates(f, m)))'
    <2>1. InScope(facts, Scope) \subseteq facts
      BY DEF InScope, Current
    <2>2. \A f \in InScope(facts, Scope) : Candidates(f, m)' = Candidates(f, m)
      BY <2>1
    <2>3. \A f \in InScope(facts, Scope) :
             Candidates(f, m) # {} /\ ~ Ambiguous(Candidates(f, m))
               => LatestIsHuman(f)' \/ LatestMatches(f, Winner(Candidates(f, m)))'
      BY <1>1
    <2>4. Applied(m)' <=> \A f \in InScope(facts', Scope) :
             Candidates(f, m)' # {} /\ ~ Ambiguous(Candidates(f, m)')
               => LatestIsHuman(f)' \/ LatestMatches(f, Winner(Candidates(f, m)))'
      BY DEF Applied, Ambiguous
    <2>5. InScope(facts', Scope) = InScope(facts, Scope)
      OBVIOUS
    <2>6. \A f \in InScope(facts, Scope) :
             Candidates(f, m)' # {} /\ ~ Ambiguous(Candidates(f, m)')
               => LatestIsHuman(f)' \/ LatestMatches(f, Winner(Candidates(f, m)))'
      BY <2>2, <2>3
    <2> QED
      BY <2>4, <2>5, <2>6
  <1> DEFINE w == Winner(Candidates(f, m))
  <1>2. w' = w
    <2>1. f \in facts
      BY DEF InScope, Current
    <2>2. Candidates(f, m)' = Candidates(f, m)
      BY <2>1
    <2>3. QED
      BY <2>2
  <1>3. f \in facts /\ f \in FactPool
    BY DEF InScope, Current, TypeOK
  <1>4. \A g \in ToAssign(m) : g \in FactPool
    BY DEF ToAssign, InScope, Current, TypeOK
  <1>5. \A p \in P : \E g \in ToAssign(m) :
            p = RuleRow(g, Winner(Candidates(g, m)))
    BY DEF BuildPlan
  <1>6. \A g, x : RuleRow(g, x).fact = g.id /\ RuleRow(g, x).scheme = Cofog
    BY DEF RuleRow
  <1>7. \A p \in P : p.fact = f.id => f \in ToAssign(m) /\ p = RuleRow(f, w)
    BY <1>3, <1>4, <1>5, <1>6, FactPoolAssumption
  <1>8. CASE f \notin ToAssign(m)
    <2>1. LatestIsHuman(f) \/ LatestMatches(f, w)
      BY <1>1, <1>8 DEF ToAssign
    <2>2. Versions(asg', f, Cofog) = Versions(asg, f, Cofog)
      BY <1>7, <1>8 DEF Versions, InsertNew
    <2>3. Latest(asg', f, Cofog) = Latest(asg, f, Cofog)
      BY <2>2, Zenon DEF Latest
    <2>4. QED
      BY <1>2, <2>1, <2>2, <2>3 DEF LatestIsHuman, LatestMatches, Assigned
  <1>9. CASE f \in ToAssign(m)
    <2> DEFINE p == RuleRow(f, w)
    <2> DEFINE V == Versions(asg, f, Cofog)
    <2>1. p = [fact |-> f.id, scheme |-> Cofog, code |-> w.code, by |-> "rule", basis |-> w.basis,
               version |-> LatestVersion(f) + 1]
      BY DEF RuleRow
    <2>2. LatestVersion(f) \in Nat /\ \A a \in V : a.version <= LatestVersion(f)
      BY LatestKnown
    <2>3. p \in P
      BY <1>9 DEF BuildPlan
    <2> HIDE DEF p
    <2>4. \A a \in asg : AssignmentID(a) # AssignmentID(p)
      <3>1. SUFFICES ASSUME NEW a \in asg, AssignmentID(a) = AssignmentID(p) PROVE FALSE
        OBVIOUS
      <3>2. a.fact = f.id /\ a.scheme = Cofog /\ a.version = LatestVersion(f) + 1
        BY <2>1, <3>1 DEF AssignmentID
      <3>3. a \in V
        BY <3>2 DEF Versions
      <3>4. QED
        BY <2>2, <3>2, <3>3
    <2>5. Versions(asg', f, Cofog) = V \cup {p}
      <3>1. p \in asg' /\ p.fact = f.id /\ p.scheme = Cofog
        BY <2>1, <2>3, <2>4 DEF InsertNew
      <3>2. \A a \in asg' : a \in asg \/ a \in P
        BY DEF InsertNew
      <3>3. \A a \in Versions(asg', f, Cofog) : a \in V \/ a = p
        BY <1>7, <3>2 DEF Versions, p
      <3>4. asg \subseteq asg'
        BY DEF InsertNew
      <3>5. QED
        BY <3>1, <3>3, <3>4 DEF Versions
    <2>6. Latest(asg', f, Cofog) = p
      <3> DEFINE W == V \cup {p}
      <3>1. \A a \in V : a.version \in Nat /\ a.version <= LatestVersion(f)
        BY <2>2 DEF Versions, TypeOK
      <3>2. p.version = LatestVersion(f) + 1
        BY <2>1
      <3>3. \A b \in W : ~ Precedes(b, p)
        <4>1. w.code \in Nat
          BY <1>1, WinnerExists DEF Entry, Candidates
        <4>2. p.code \in Nat
          BY <2>1, <4>1
        <4>3. ~ Precedes(p, p)
          BY <2>2, <3>2, <4>2 DEF Precedes
        <4>4. \A b \in V : ~ Precedes(b, p)
          BY <2>2, <3>1, <3>2 DEF Precedes
        <4>5. QED
          BY <4>3, <4>4
      <3>4. \A a \in V : Precedes(p, a)
        BY <2>2, <3>1, <3>2 DEF Precedes
      <3>5. Latest(asg', f, Cofog) = CHOOSE a \in W : \A b \in W : ~ Precedes(b, a)
        BY <2>5, Zenon DEF Latest
      <3> HIDE DEF V
      <3>6. p \in W /\ \A a \in W : (\A b \in W : ~ Precedes(b, a)) => a = p
        BY <3>4
      <3> HIDE DEF W
      <3>7. QED
        BY <3>3, <3>5, <3>6
    <2>7. Assigned(f)'
      BY <2>5 DEF Assigned
    <2>8. LatestMatches(f, w)'
      BY <1>2, <2>1, <2>6, <2>7 DEF LatestMatches
    <2>9. QED
      BY <2>8
  <1>10. QED
    BY <1>8, <1>9

-----------------------------------------------------------------------------
(***************************************************************************)
(* The initial state, and each action.                                     *)
(***************************************************************************)
LEMMA InvInit == Init => IInv
  <1> SUFFICES ASSUME Init PROVE IInv
    OBVIOUS
  <1>1. TypeOK
    BY DEF Init, TypeOK
  <1>2. RowsAreReviewed /\ VersionsBounded
    BY DEF Init, RowsAreReviewed, VersionsBounded
  <1>3. PlanIsFresh /\ MappingTakesEffect
    BY DEF Init, PlanIsFresh, MappingTakesEffect
  <1>4. QED
    BY <1>1, <1>2, <1>3 DEF IInv

\* The rows stay reviewed and bounded while loaders only read, plan or end: a row
\* that was overtaken is planned anew or is so still.
LEMMA RowsRead ==
  ASSUME IInv, UNCHANGED <<facts, asg>>,
         \A l \in Loaders : \A p \in plan'[l] : p \in plan[l] \/ p \in BuildPlan(mapping[l]),
         \A p \in overtaken : p \in overtaken' \/ \E l \in Loaders : p \in BuildPlan(mapping[l])
  PROVE  RowsAreReviewed' /\ VersionsBounded'
  <1>1. /\ \A p : RestatesNow(p)' <=> RestatesNow(p)
        /\ \A p : Restates(p) /\ (p \in overtaken => p \in overtaken') => Restates(p)'
        /\ \A p : ChangesTheLast(p)' <=> ChangesTheLast(p)
    BY ReadsStay
  <1>2. \A l \in Loaders : mapping[l] \in Mappings \cup {{}}
    BY DEF IInv, TypeOK
  <1>3. \A l \in Loaders : \A p \in BuildPlan(mapping[l]) :
           /\ RestatesNow(p) /\ ChangesTheLast(p)
           /\ p.version \in Nat
           /\ \A n \in Nat : (\A a \in asg : a.version <= n) => p.version <= n + 1
    BY <1>2, PlanIsSound DEF IInv, RuleRowType
  <1>4. RowsAreReviewed'
    <2>1. ASSUME NEW p, p \in overtaken => p \in overtaken', Restates(p) PROVE Restates(p)'
      BY <1>1, <2>1
    <2>2. ASSUME NEW l \in Loaders, NEW p \in BuildPlan(mapping[l]) PROVE Restates(p)' /\ ChangesTheLast(p)'
      <3>1. RestatesNow(p)' /\ ChangesTheLast(p)'
        BY <1>1, <1>3
      <3>2. QED
        BY <3>1 DEF RestatesNow, Restates
    <2>3. ASSUME NEW p, Restates(p), ChangesTheLast(p) PROVE Restates(p)' /\ ChangesTheLast(p)'
      <3>1. CASE p \in overtaken => p \in overtaken'
        BY <1>1, <2>3, <3>1
      <3>2. CASE p \in overtaken /\ p \notin overtaken'
        BY <2>2, <3>2
      <3>3. QED
        BY <3>1, <3>2
    <2>4. QED
      BY <2>2, <2>3 DEF IInv, RowsAreReviewed
  <1>5. VersionsBounded'
    <2>1. PICK n \in Nat : /\ \A a \in asg : a.version <= n
                           /\ \A l \in Loaders : \A p \in plan[l] : p.version <= n
      BY DEF IInv, VersionsBounded
    <2>2. \A a \in asg : a.version \in Nat
      BY DEF IInv, TypeOK
    <2>3. \A l \in Loaders : \A p \in plan[l] : p.version \in Nat
      BY DEF IInv, TypeOK, RuleRowType
    <2>4. \A a \in asg : a.version <= n + 1
      BY <2>1, <2>2
    <2>5. \A l \in Loaders : \A p \in plan'[l] : p.version <= n + 1
      BY <1>3, <2>1, <2>3
    <2>6. n + 1 \in Nat
      OBVIOUS
    <2>7. QED
      BY <2>4, <2>5, <2>6 DEF VersionsBounded
  <1>6. QED
    BY <1>4, <1>5

LEMMA StartStep ==
  ASSUME IInv, NEW l \in Loaders, Start(l)
  PROVE  IInv'
  <1>1. /\ pc' = [pc EXCEPT ![l] = "plan"]
        /\ UNCHANGED <<facts, asg, plan, outcome, clean, overtaken>>
    BY DEF Start, Goto
  <1>2. TypeOK'
    BY <1>1 DEF Start, IInv, TypeOK
  <1>3. RowsAreReviewed' /\ VersionsBounded'
    BY <1>1, RowsRead
  <1>4. \A k \in Loaders : pc'[k] \in {"insert", "count", "view"} =>
           pc'[k] = pc[k] /\ mapping'[k] = mapping[k]
    BY <1>1 DEF Start, IInv, TypeOK
  <1>5. PlanIsFresh' /\ MappingTakesEffect'
    <2>1. PlanIsFresh'
      BY <1>1, <1>4, ReadsStay, FreshNext DEF IInv, PlanIsFresh
    <2>2. MappingTakesEffect'
      BY <1>1, <1>4, ReadsStay, EffectIsApplied, EffectNext DEF IInv
    <2>3. QED
      BY <2>1, <2>2
  <1>6. QED
    BY <1>2, <1>3, <1>5 DEF IInv

LEMMA PlanStep ==
  ASSUME IInv, NEW l \in Loaders, Plan(l)
  PROVE  IInv'
  <1> DEFINE m == mapping[l]
  <1> DEFINE P == BuildPlan(m)
  <1>1. PICK dryRun \in BOOLEAN :
           /\ plan' = [plan EXCEPT ![l] = IF dryRun THEN {} ELSE P]
           /\ pc' = [pc EXCEPT ![l] = IF dryRun \/ P = {} THEN "count" ELSE "insert"]
           /\ clean' = [clean EXCEPT ![l] = ~ dryRun]
           /\ overtaken' = IF dryRun THEN overtaken ELSE overtaken \ P
    BY DEF Plan, Goto
  <1>2. UNCHANGED <<facts, asg, mapping, outcome>>
    BY DEF Plan
  <1>3. m \in Mappings \cup {{}} /\ P \subseteq RuleRowType
    BY PlanIsSound DEF IInv, TypeOK
  <1> HIDE DEF P
  <1>4. TypeOK'
    BY <1>1, <1>2, <1>3 DEF IInv, TypeOK, RuleRowType
  <1>5. RowsAreReviewed' /\ VersionsBounded'
    <2>1. \A k \in Loaders : \A p \in plan'[k] : p \in plan[k] \/ p \in BuildPlan(mapping[k])
      BY <1>1 DEF IInv, TypeOK, P
    <2>2. \A p \in overtaken : p \in overtaken' \/ \E k \in Loaders : p \in BuildPlan(mapping[k])
      BY <1>1 DEF P
    <2>3. QED
      BY <1>2, <2>1, <2>2, RowsRead
  <1>6. \A k \in Loaders \ {l} : pc'[k] = pc[k] /\ clean'[k] = clean[k] /\ plan'[k] = plan[k]
    BY <1>1 DEF IInv, TypeOK
  <1>7. /\ pc'[l] = (IF dryRun \/ P = {} THEN "count" ELSE "insert")
        /\ clean'[l] = ~ dryRun
        /\ plan'[l] = (IF dryRun THEN {} ELSE P)
    BY <1>1 DEF IInv, TypeOK
  <1>8. PlanIsFresh'
    <2>1. ASSUME NEW k \in Loaders, clean'[k], pc'[k] = "insert"
          PROVE  mapping'[k] = mapping[k] /\ plan'[k] = BuildPlan(mapping[k])
      BY <1>2, <1>6, <1>7, <2>1 DEF IInv, PlanIsFresh, P
    <2>2. QED
      BY <1>2, <2>1, ReadsStay, FreshNext
  <1>9. MappingTakesEffect'
    <2>1. ASSUME NEW k \in Loaders, clean'[k], pc'[k] \in {"count", "view"}
          PROVE  mapping'[k] = mapping[k] /\ Applied(mapping[k])
      <3>1. CASE k = l
        <4>1. P = {}
          BY <1>7, <2>1, <3>1
        <4>2. QED
          BY <1>2, <3>1, <4>1, NothingToPlan DEF P
      <3>2. CASE k # l
        BY <1>2, <1>6, <2>1, <3>2, EffectIsApplied DEF IInv
      <3>3. QED
        BY <3>1, <3>2
    <2>2. QED
      BY <1>2, <2>1, ReadsStay, EffectNext
  <1>10. QED
    BY <1>4, <1>5, <1>8, <1>9 DEF IInv

LEMMA CountFactsStep ==
  ASSUME IInv, NEW l \in Loaders, CountFacts(l)
  PROVE  IInv'
  <1>1. /\ pc[l] = "count" /\ pc' = [pc EXCEPT ![l] = "view"]
        /\ UNCHANGED <<facts, asg, mapping, plan, outcome, clean, overtaken>>
    BY DEF CountFacts, Goto
  <1>2. TypeOK'
    BY <1>1 DEF IInv, TypeOK
  <1>3. RowsAreReviewed' /\ VersionsBounded'
    BY <1>1, RowsRead
  <1>4. \A k \in Loaders : /\ pc'[k] = "insert" => pc[k] = "insert"
                           /\ pc'[k] \in {"count", "view"} => pc[k] \in {"count", "view"}
    BY <1>1 DEF IInv, TypeOK
  <1>5. PlanIsFresh'
    BY <1>1, <1>4, ReadsStay, FreshNext DEF IInv, PlanIsFresh
  <1>6. MappingTakesEffect'
    BY <1>1, <1>4, ReadsStay, EffectIsApplied, EffectNext DEF IInv
  <1>7. QED
    BY <1>2, <1>3, <1>5, <1>6 DEF IInv

\* An invocation that ends without writing.
LEMMA EndStep ==
  ASSUME IInv, NEW l \in Loaders, NEW o \in {"ok", "error", "mismatch"}, Ends(l, o),
         clean' = [clean EXCEPT ![l] = FALSE], UNCHANGED <<facts, asg, overtaken>>
  PROVE  IInv'
  <1>1. /\ pc' = [pc EXCEPT ![l] = "done"] /\ outcome' = [outcome EXCEPT ![l] = o]
        /\ mapping' = [mapping EXCEPT ![l] = {}] /\ plan' = [plan EXCEPT ![l] = {}]
    BY DEF Ends, Goto
  <1>2. TypeOK'
    BY <1>1 DEF IInv, TypeOK
  <1>3. RowsAreReviewed' /\ VersionsBounded'
    <2>1. \A k \in Loaders : \A p \in plan'[k] : p \in plan[k]
      BY <1>1 DEF IInv, TypeOK
    <2>2. QED
      BY <2>1, RowsRead
  <1>4. \A k \in Loaders : clean'[k] =>
           /\ pc'[k] = pc[k] /\ clean[k] /\ mapping'[k] = mapping[k] /\ plan'[k] = plan[k]
    BY <1>1 DEF IInv, TypeOK
  <1>5. PlanIsFresh'
    BY <1>4, ReadsStay, FreshNext DEF IInv, PlanIsFresh
  <1>6. MappingTakesEffect'
    BY <1>4, ReadsStay, EffectIsApplied, EffectNext DEF IInv
  <1>7. QED
    BY <1>2, <1>3, <1>5, <1>6 DEF IInv

LEMMA PublishStep ==
  ASSUME IInv, NEW d \in Documents, Publish(d)
  PROVE  IInv'
  <1>1. /\ facts' = facts \cup d.facts /\ asg' = InsertNew(asg, d.asg)
        /\ overtaken' = overtaken \cup {p \in RuleRows : \E a \in asg' \ asg : a.fact = p.fact}
        /\ clean' = [l \in Loaders |-> FALSE]
        /\ UNCHANGED <<pc, mapping, plan, outcome>>
    BY DEF Publish, WrittenBy
  <1>2. PICK S \in SUBSET d.asg : asg' = asg \cup S /\ S = asg' \ asg
    BY <1>1 DEF InsertNew
  <1>3. d.facts \subseteq FactPool /\ S \subseteq SourceRows
    BY DEF FactPool, SourceRows
  <1>4. \A a \in S : a.by = "source" /\ a.version = 1
    BY <1>3, SourceAssumption
  <1>5. S \subseteq [fact : FactIds, scheme : {"acq", "dept", Cofog}, code : Nat \ {0},
                     by : {"source", "rule", "human"}, basis : Bases, version : Nat \ {0}]
    <2>1. SUFFICES ASSUME NEW a \in S
                   PROVE  a \in [fact : FactIds, scheme : {"acq", "dept", Cofog}, code : Nat \ {0},
                                 by : {"source", "rule", "human"}, basis : Bases, version : Nat \ {0}]
      OBVIOUS
    <2>2. a \in SourceRows /\ a \in [fact : FactIds, scheme : {"acq", "dept"}, code : Nat \ {0},
                                     by : {"source"}, basis : STRING, version : {1}]
      BY <1>3, SourceAssumption
    <2>3. a.basis \in Bases
      BY <2>2 DEF Bases
    <2>4. QED
      BY <2>2, <2>3
  <1>6. RuleRows \subseteq RuleRowType
    BY DEF IInv, TypeOK, RuleRows, RuleRowType, RowsAreReviewed
  <1>7. TypeOK'
    <2>1. \A a \in asg' : a.by = "rule" => a \in RuleRowType
      BY <1>2, <1>4 DEF IInv, TypeOK
    <2>2. QED
      BY <1>1, <1>2, <1>3, <1>5, <1>6, <2>1 DEF IInv, TypeOK
  <1>8. RowsAreReviewed'
    <2>1. ASSUME NEW p \in RuleRows, Restates(p), ChangesTheLast(p)
          PROVE  Restates(p)' /\ ChangesTheLast(p)'
      <3>1. ASSUME p \notin overtaken', NEW f \in facts, f.id = p.fact
            PROVE  \A m \in SUBSET Entry : Candidates(f, m)' = Candidates(f, m)
        <4>1. \A a \in S : a.fact # f.id
          BY <1>1, <1>2, <3>1
        <4>2. QED
          BY <1>2, <4>1, CandidatesStay
      <3>2. QED
        BY <1>1, <1>2, <2>1, <3>1, RowsStay, MappingAssumption
    <2>2. \A a \in asg' : a.by = "rule" => a \in asg
      BY <1>2, <1>4
    <2>3. QED
      BY <1>1, <2>1, <2>2 DEF IInv, RowsAreReviewed, RuleRows
  <1>9. VersionsBounded'
    <2>1. PICK n \in Nat : /\ \A a \in asg : a.version <= n
                           /\ \A l \in Loaders : \A p \in plan[l] : p.version <= n
      BY DEF IInv, VersionsBounded
    <2>2. \A a \in asg' : a.version <= n + 1
      BY <1>2, <1>4, <2>1 DEF IInv, TypeOK
    <2>3. \A l \in Loaders : \A p \in plan'[l] : p.version <= n + 1
      BY <1>1, <2>1 DEF IInv, TypeOK, RuleRowType
    <2>4. n + 1 \in Nat
      OBVIOUS
    <2>5. QED
      BY <2>2, <2>3, <2>4 DEF VersionsBounded
  <1>10. PlanIsFresh' /\ MappingTakesEffect'
    BY <1>1 DEF PlanIsFresh, MappingTakesEffect
  <1>11. QED
    BY <1>7, <1>8, <1>9, <1>10 DEF IInv

LEMMA ReviewStep ==
  ASSUME IInv, NEW f \in facts, NEW c \in HumanCodes, Review(f, c)
  PROVE  IInv'
  <1> DEFINE h == [fact |-> f.id, scheme |-> Cofog, code |-> c, by |-> "human",
                   basis |-> "reviewer", version |-> LatestVersion(f) + 1]
  <1>1. /\ asg' = asg \cup {h} /\ clean' = [l \in Loaders |-> FALSE]
        /\ UNCHANGED <<facts, pc, mapping, plan, outcome, overtaken>>
    BY DEF Review, WrittenBy
  <1>2. /\ LatestVersion(f) \in Nat
        /\ \A n \in Nat : (\A a \in asg : a.version <= n) => LatestVersion(f) <= n
    BY LatestKnown DEF IInv
  <1>3. h.by = "human" /\ h.scheme = Cofog /\ h.version = LatestVersion(f) + 1
    OBVIOUS
  <1>4. h \in [fact : FactIds, scheme : {"acq", "dept", Cofog}, code : Nat \ {0},
               by : {"source", "rule", "human"}, basis : Bases, version : Nat \ {0}]
    <2>1. f.id \in FactIds
      BY DEF IInv, TypeOK, FactIds
    <2>2. c \in Nat \ {0} /\ LatestVersion(f) + 1 \in Nat \ {0}
      BY <1>2, HumanCodesAssumption
    <2>3. "human" \in {"source", "rule", "human"} /\ "reviewer" \in Bases
      BY DEF Bases
    <2>4. QED
      BY <2>1, <2>2, <2>3
  <1> HIDE DEF h
  <1>5. TypeOK'
    <2>1. \A a \in asg' : a.by = "rule" => a \in RuleRowType
      BY <1>1, <1>3 DEF IInv, TypeOK
    <2>2. QED
      BY <1>1, <1>4, <2>1 DEF IInv, TypeOK
  <1>6. \A g \in facts, m \in SUBSET Entry : Candidates(g, m)' = Candidates(g, m)
    <2>1. PICK S : S = {h}
      OBVIOUS
    <2>2. QED
      BY <1>1, <1>3, <2>1, CandidatesStay
  <1>7. RowsAreReviewed'
    <2>1. \A p : Restates(p) /\ ChangesTheLast(p) => Restates(p)' /\ ChangesTheLast(p)'
      BY <1>1, <1>6, RowsStay, MappingAssumption
    <2>2. \A a \in asg' : a.by = "rule" => a \in asg
      BY <1>1, <1>3
    <2>3. QED
      BY <1>1, <2>1, <2>2 DEF IInv, RowsAreReviewed
  <1>8. VersionsBounded'
    <2>1. PICK n \in Nat : /\ \A a \in asg : a.version <= n
                           /\ \A l \in Loaders : \A p \in plan[l] : p.version <= n
      BY DEF IInv, VersionsBounded
    <2>2. \A a \in asg' : a.version <= n + 1
      BY <1>1, <1>2, <1>3, <2>1 DEF IInv, TypeOK, RuleRowType
    <2>3. \A l \in Loaders : \A p \in plan'[l] : p.version <= n + 1
      BY <1>1, <2>1 DEF IInv, TypeOK, RuleRowType
    <2>4. n + 1 \in Nat
      OBVIOUS
    <2>5. QED
      BY <2>2, <2>3, <2>4 DEF VersionsBounded
  <1>9. PlanIsFresh' /\ MappingTakesEffect'
    BY <1>1 DEF PlanIsFresh, MappingTakesEffect
  <1>10. QED
    BY <1>5, <1>7, <1>8, <1>9 DEF IInv

LEMMA InsertStep ==
  ASSUME IInv, NEW l \in Loaders, Insert(l)
  PROVE  IInv'
  <1>1. /\ pc[l] = "insert" /\ asg' = InsertNew(asg, plan[l]) /\ facts' = facts /\ overtaken' = overtaken
        /\ clean' = [k \in Loaders |-> clean[k] /\ k \in {l}]
        /\ plan' = [plan EXCEPT ![l] = {}]
        /\ \/ /\ pc' = [pc EXCEPT ![l] = "count"]
              /\ UNCHANGED <<mapping, outcome>>
           \/ /\ pc' = [pc EXCEPT ![l] = "done"]
              /\ mapping' = [mapping EXCEPT ![l] = {}]
              /\ outcome' = [outcome EXCEPT ![l] = "error"]
    BY DEF Insert, Goto, Ends, WrittenBy
  <1>2. PICK S \in SUBSET plan[l] : asg' = asg \cup S
    BY <1>1 DEF InsertNew
  <1>3. plan[l] \subseteq RuleRowType
    BY DEF IInv, TypeOK, RuleRowType
  <1>4. TypeOK'
    <2>1. asg' \subseteq [fact : FactIds, scheme : {"acq", "dept", Cofog}, code : Nat \ {0},
                          by : {"source", "rule", "human"}, basis : Bases, version : Nat \ {0}]
      BY <1>2, <1>3 DEF IInv, TypeOK, RuleRowType
    <2>2. \A a \in asg' : a.by = "rule" => a \in RuleRowType
      BY <1>2, <1>3 DEF IInv, TypeOK
    <2>3. QED
      BY <1>1, <2>1, <2>2 DEF IInv, TypeOK
  <1>5. \A g \in facts, m \in SUBSET Entry : Candidates(g, m)' = Candidates(g, m)
    <2>1. \A a \in S : a.scheme = Cofog
      BY <1>3 DEF RuleRowType
    <2>2. QED
      BY <1>2, <2>1, CandidatesStay
  <1>6. RowsAreReviewed'
    <2>1. \A p : Restates(p) /\ ChangesTheLast(p) => Restates(p)' /\ ChangesTheLast(p)'
      BY <1>1, <1>2, <1>5, RowsStay, MappingAssumption
    <2>2. \A a \in asg' : a \in asg \/ a \in plan[l]
      BY <1>2
    <2>3. \A k \in Loaders : \A p \in plan'[k] : p \in plan[k]
      BY <1>1 DEF IInv, TypeOK
    <2>4. QED
      BY <2>1, <2>2, <2>3 DEF IInv, RowsAreReviewed
  <1>7. VersionsBounded'
    BY <1>1, <1>2 DEF IInv, VersionsBounded, TypeOK
  <1>8. PlanIsFresh'
    BY <1>1 DEF IInv, TypeOK, PlanIsFresh
  <1>9. MappingTakesEffect'
    <2>1. ASSUME NEW k \in Loaders, clean'[k], pc'[k] \in {"count", "view"}
          PROVE  k = l /\ clean[l] /\ mapping' = mapping
      BY <1>1, <2>1 DEF IInv, TypeOK
    <2>2. PICK m : m = mapping[l]
      OBVIOUS
    <2>3. m \in SUBSET Entry
      BY <2>2, MappingAssumption DEF IInv, TypeOK
    <2>4. ASSUME clean[l] PROVE Applied(m)'
      <3>1. asg' = InsertNew(asg, BuildPlan(m))
        BY <1>1, <2>2, <2>4 DEF IInv, PlanIsFresh
      <3>2. \A f \in facts : Candidates(f, m)' = Candidates(f, m)
        BY <1>5, <2>3
      <3>3. QED
        BY <1>1, <2>3, <3>1, <3>2, InsertApplies, FactPoolAssumption DEF IInv
    <2>5. QED
      BY <2>1, <2>2, <2>4, EffectNext
  <1>10. QED
    BY <1>4, <1>6, <1>7, <1>8, <1>9 DEF IInv

\* No publication, review or step of a loader breaks the invariant.
LEMMA InvStep == IInv /\ [Next]_vars => IInv'
  <1> SUFFICES ASSUME IInv, [Next]_vars PROVE IInv'
    OBVIOUS
  <1>1. ASSUME NEW l \in Loaders, ReadView(l) PROVE IInv'
    <2>1. PICK o \in {"ok", "mismatch"} : Ends(l, o)
      BY <1>1 DEF ReadView
    <2>2. QED
      BY <1>1, <2>1, EndStep DEF ReadView
  <1>2. ASSUME NEW l \in Loaders, Fail(l) PROVE IInv'
    BY <1>2, EndStep DEF Fail
  <1>3. CASE UNCHANGED vars
    <2>1. UNCHANGED <<facts, asg, pc, mapping, plan, outcome, clean, overtaken>>
      BY <1>3 DEF vars
    <2>2. TypeOK'
      BY <2>1 DEF IInv, TypeOK
    <2>3. RowsAreReviewed' /\ VersionsBounded'
      BY <2>1, RowsRead
    <2>4. PlanIsFresh'
      BY <2>1, ReadsStay, FreshNext DEF IInv, PlanIsFresh
    <2>5. MappingTakesEffect'
      BY <2>1, ReadsStay, EffectIsApplied, EffectNext DEF IInv
    <2>6. QED
      BY <2>2, <2>3, <2>4, <2>5 DEF IInv
  <1>4. QED
    BY <1>1, <1>2, <1>3, PublishStep, ReviewStep, StartStep, PlanStep, InsertStep, CountFactsStep DEF Next

-----------------------------------------------------------------------------
(***************************************************************************)
(* The theorems.                                                           *)
(***************************************************************************)
\* In every reachable state: types, rows that restate a reviewed entry and, unless
\* the source has coded their fact again, are contradicted by none, bounded versions,
\* fresh plans, applied files.
THEOREM Invariance == Spec => []IInv
  <1>1. QED
    BY InvInit, InvStep, PTL DEF Spec

\* Facts, assignments, plans and outcomes are what the tables' columns and the
\* loader's code allow.
THEOREM TypeCorrect == Spec => []TypeOK
  <1>1. IInv => TypeOK
    BY DEF IInv
  <1>2. QED
    BY <1>1, Invariance, PTL

\* The loader appends only what a reviewer mapped (Hard Rule 5), however its
\* invocations overlap with each other, with reviewers and with ingestion, which may
\* give a stored fact further source codes.
THEOREM NothingIsInvented == Spec => []NeverInvented
  <1>1. IInv => NeverInvented
    BY DEF IInv, RowsAreReviewed, NeverInvented, CofogRows, Restates
  <1>2. QED
    BY <1>1, Invariance, PTL

\* A fact gets the same reviewed entry again only after another row came between,
\* so applying a file again, also at the same time, adds nothing (D21, D28).
THEOREM ReappliesAreNoOps == Spec => []ReapplyInsertsNothing
  <1>1. ASSUME IInv PROVE ReapplyInsertsNothing
    <2>1. SUFFICES ASSUME NEW a \in CofogRows, NEW b \in CofogRows,
                          a.by = "rule", b.by = "rule", a.fact = b.fact, a.version < b.version,
                          a.code = b.code, a.basis = b.basis
                   PROVE  \E c \in CofogRows : c.fact = a.fact /\ c # a
                              /\ c.version >= a.version /\ c.version < b.version
      BY DEF ReapplyInsertsNothing
    <2>2. a.version \in Nat \ {0} /\ b.version \in Nat \ {0} /\ b.version # 1
      BY <1>1, <2>1 DEF IInv, TypeOK, CofogRows
    <2>3. PICK c \in asg : /\ c.fact = b.fact /\ c.scheme = Cofog /\ c.version = b.version - 1
                           /\ ~ (c.code = b.code /\ c.basis = b.basis)
      BY <1>1, <2>1, <2>2 DEF IInv, RowsAreReviewed, ChangesTheLast, CofogRows
    <2>4. c \in CofogRows /\ c.fact = a.fact /\ c # a
      BY <2>1, <2>3 DEF CofogRows
    <2>5. c.version >= a.version /\ c.version < b.version
      BY <2>1, <2>2, <2>3
    <2>6. QED
      BY <2>4, <2>5
  <1>2. QED
    BY <1>1, Invariance, PTL

\* A loader nobody wrote beside has given each fact its reviewed code, unless a
\* reviewer's row stands.
THEOREM FilesTakeEffect == Spec => []MappingTakesEffect
  <1>1. IInv => MappingTakesEffect
    BY DEF IInv
  <1>2. QED
    BY <1>1, Invariance, PTL

-----------------------------------------------------------------------------
(***************************************************************************)
(* Reconciliation.                                                         *)
(***************************************************************************)
\* An invocation that runs has no outcome yet.
NoOutcomeYet == \A l \in Loaders : pc[l] # "done" => outcome[l] = "none"

\* A step of the loader l leaves the outcome alone or ends it.
LEMMA OutcomeKept ==
  ASSUME TypeOK, [Next]_vars, NEW l \in Loaders, outcome'[l] # outcome[l]
  PROVE  pc'[l] = "done" /\ (pc[l] = "view" => outcome'[l] \in {"error", IF Reconciles(counted[l]) THEN "ok" ELSE "mismatch"})
  <1>1. pc \in [Loaders -> {"idle", "plan", "insert", "count", "view", "done"}]
        /\ outcome \in [Loaders -> {"none", "ok", "error", "mismatch"}]
    BY DEF TypeOK
  <1>2. ASSUME NEW k \in Loaders, NEW o, Ends(k, o) PROVE k = l /\ pc'[l] = "done" /\ outcome'[l] = o
    BY <1>1, <1>2 DEF Ends, Goto
  <1>3. ASSUME NEW d \in Documents, Publish(d) PROVE FALSE
    BY <1>3 DEF Publish
  <1>4. ASSUME NEW f \in facts, NEW c \in HumanCodes, Review(f, c) PROVE FALSE
    BY <1>4 DEF Review
  <1>5. ASSUME NEW k \in Loaders, Start(k) \/ Plan(k) \/ CountFacts(k) PROVE FALSE
    BY <1>5 DEF Start, Plan, CountFacts
  <1>6. ASSUME NEW k \in Loaders, Insert(k)
        PROVE  pc'[l] = "done" /\ (pc[l] = "view" => outcome'[l] = "error")
    <2>1. Ends(k, "error")
      BY <1>6 DEF Insert
    <2>2. QED
      BY <1>2, <2>1
  <1>7. ASSUME NEW k \in Loaders, ReadView(k)
        PROVE  pc'[l] = "done" /\ outcome'[l] = IF Reconciles(counted[l]) THEN "ok" ELSE "mismatch"
    <2>1. Ends(k, IF Reconciles(counted[k]) THEN "ok" ELSE "mismatch")
      BY <1>7 DEF ReadView
    <2>2. k = l /\ pc'[l] = "done" /\ outcome'[l] = IF Reconciles(counted[k]) THEN "ok" ELSE "mismatch"
      BY <1>2, <2>1
    <2>3. QED
      BY <2>2
  <1>8. ASSUME NEW k \in Loaders, Fail(k) PROVE pc'[l] = "done" /\ outcome'[l] = "error"
    BY <1>2, <1>8 DEF Fail
  <1>9. CASE UNCHANGED vars
    BY <1>9 DEF vars
  <1>10. QED
    BY <1>3, <1>4, <1>5, <1>6, <1>7, <1>8, <1>9 DEF Next

\* An invocation that has ended does not run again.
LEMMA EndedStays ==
  ASSUME TypeOK, [Next]_vars, NEW l \in Loaders, pc[l] = "done"
  PROVE  pc'[l] = "done"
  <1>1. pc \in [Loaders -> {"idle", "plan", "insert", "count", "view", "done"}]
    BY DEF TypeOK
  <1>2. ASSUME NEW k \in Loaders, NEW stage, pc[k] # "done", Goto(k, stage) PROVE pc'[l] = "done"
    BY <1>1, <1>2 DEF Goto
  <1>3. ASSUME NEW k \in Loaders, Start(k) \/ Plan(k) \/ Insert(k) \/ CountFacts(k) \/ ReadView(k) \/ Fail(k)
        PROVE  pc'[l] = "done"
    <2>1. pc[k] # "done" /\ \E stage : Goto(k, stage)
      BY <1>3 DEF Start, Plan, Insert, CountFacts, ReadView, Fail, Ends
    <2>2. QED
      BY <1>2, <2>1
  <1>4. CASE (\E d \in Documents : Publish(d)) \/ (\E f \in facts, c \in HumanCodes : Review(f, c)) \/ UNCHANGED vars
    BY <1>4 DEF Publish, Review, vars
  <1>5. QED
    BY <1>3, <1>4 DEF Next

LEMMA NoOutcomeInvariance == Spec => []NoOutcomeYet
  <1>1. Init => NoOutcomeYet
    BY DEF Init, NoOutcomeYet
  <1>2. TypeOK /\ NoOutcomeYet /\ [Next]_vars => NoOutcomeYet'
    <2>1. SUFFICES ASSUME TypeOK, NoOutcomeYet, [Next]_vars, NEW l \in Loaders, pc'[l] # "done"
                   PROVE  outcome'[l] = "none"
      BY DEF NoOutcomeYet
    <2>2. pc[l] # "done"
      BY <2>1, EndedStays
    <2>3. outcome[l] = "none"
      BY <2>1, <2>2 DEF NoOutcomeYet
    <2>4. outcome'[l] = outcome[l]
      BY <2>1, OutcomeKept
    <2>5. QED
      BY <2>3, <2>4
  <1>3. QED
    BY <1>1, <1>2, TypeCorrect, PTL DEF Spec

\* The view of the facts and assignments at hand reconciles with their count and
\* sum, whatever versions and ties the assignments hold.
LEMMA ViewReconciles ==
  ASSUME TypeOK
  PROVE  Reconciles(CountAndSum)
  <1>1. IsFiniteSet(facts) /\ \A f \in facts : f.amount \in Int
    BY FactPoolAssumption, FS_Subset DEF TypeOK
  <1>2. PICK v : v = ViewByScheme(facts, asg, Scope, Cofog)
    OBVIOUS
  <1>3. /\ v.total = AmountOf(InScope(facts, Scope))
        /\ v.count = Cardinality(InScope(facts, Scope))
        /\ MappedIn(v) + v.unmapped = v.total
    BY <1>1, <1>2, ViewBySchemeCountsAll
  <1>4. CountAndSum.count = Cardinality(InScope(facts, Scope)) /\ CountAndSum.amount = AmountOf(InScope(facts, Scope))
    BY DEF CountAndSum
  <1>5. QED
    BY <1>2, <1>3, <1>4 DEF Reconciles, MappedIn

\* D24: the loader reports a mismatch only when facts were published between its
\* two statements; its own and others' assignments never bring one about.
THEOREM ReconciliationHolds == Spec => ViewDropsNothing
  <1>1. TypeOK /\ NoOutcomeYet /\ [Next]_vars
          => [\A l \in Loaders : pc[l] = "view" /\ counted[l] = CountAndSum => outcome'[l] # "mismatch"]_vars
    <2>1. SUFFICES ASSUME TypeOK, NoOutcomeYet, [Next]_vars, NEW l \in Loaders,
                          pc[l] = "view", counted[l] = CountAndSum
                   PROVE  outcome'[l] # "mismatch"
      OBVIOUS
    <2>2. outcome[l] = "none"
      BY <2>1 DEF NoOutcomeYet
    <2>3. Reconciles(counted[l])
      BY <2>1, ViewReconciles
    <2>4. CASE outcome'[l] = outcome[l]
      BY <2>2, <2>4
    <2>5. CASE outcome'[l] # outcome[l]
      <3>1. outcome'[l] \in {"error", IF Reconciles(counted[l]) THEN "ok" ELSE "mismatch"}
        BY <2>1, <2>5, OutcomeKept
      <3>2. QED
        BY <2>3, <3>1
    <2>6. QED
      BY <2>4, <2>5
  <1>2. QED
    BY <1>1, TypeCorrect, NoOutcomeInvariance, PTL DEF Spec, ViewDropsNothing
=============================================================================
