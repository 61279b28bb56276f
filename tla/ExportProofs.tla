---------------------------- MODULE ExportProofs ----------------------------
(***************************************************************************)
(* Theorems about module Export, for whatever transactions commit, in      *)
(* whatever order, and any number of concurrent exports of a partition.    *)
(* The argument is that committed rows stay: what a later statement reads  *)
(* holds all that an earlier one, of this export or of another that was    *)
(* registered before this one began, has read.                             *)
(***************************************************************************)
EXTENDS Export, ViewsProofs

\* The place of a table in Tables.
Place == [t \in TableNames |->
            CASE t = "facts" -> 1 [] t = "assignments" -> 2 [] t = "codes" -> 3 [] t = "entities" -> 4]

\* e has read table t.
HasRead(e, t) == pc[e] \in {"upload", "register", "done"} \/ Place[t] < at[e]

\* What an export holds is still in the store, and its facts are those of asOf.
HeldStays ==
    \A e \in Exports :
        /\ asOf[e] \subseteq committed
        /\ \A t \in TableNames : held[e][t] \subseteq Contents(t)
        /\ HasRead(e, "facts") => held[e]["facts"] = InPartition(FactsOf(asOf[e]))

\* The tables read so far belong together.
ReadIsClosed ==
    \A e \in Exports :
        /\ HasRead(e, "assignments") =>
              \A a \in AsgOf(asOf[e]) :
                  (\E f \in held[e]["facts"] : f.id = a.fact) => a \in held[e]["assignments"]
        /\ HasRead(e, "codes") => CodesOf(held[e]["assignments"]) \subseteq held[e]["codes"]
        /\ HasRead(e, "entities") => PayeesOf(held[e]["facts"]) \subseteq held[e]["entities"]

\* An export that gave up holds nothing, one that is done is registered, and after
\* its upload its objects are in storage.
ProgressIsTrue ==
    \A e \in Exports :
        /\ pc[e] # "read" => at[e] = 1
        /\ pc[e] \in {"register", "done"} => \A t \in TableNames : Artifact(e, t) \in objects
        /\ e \in Registered => pc[e] = "done"

\* The tables read so far hold all of an export that was registered before.
HoldsEarlier ==
    \A e \in Exports : \A d \in after[e] :
        /\ d \in Exports /\ pc[d] = "done"
        /\ \A t \in TableNames : HasRead(e, t) => held[d][t] \subseteq held[e][t]

IInv ==
    /\ TypeOK
    /\ HeldStays
    /\ ReadIsClosed
    /\ ProgressIsTrue
    /\ HoldsEarlier

-----------------------------------------------------------------------------
(***************************************************************************)
(* The tables, and what is read from them.                                 *)
(***************************************************************************)
\* Tables lists each table once, at its place.
LEMMA TablesFacts ==
  /\ Len(Tables) = 4
  /\ \A i \in 1..4 : Tables[i] \in TableNames /\ Place[Tables[i]] = i
  /\ \A t \in TableNames : Place[t] \in 1..4 /\ Tables[Place[t]] = t
  <1>1. Len(Tables) = 4
    BY DEF Tables
  <1>2. \A i \in 1..4 : Tables[i] \in TableNames /\ Place[Tables[i]] = i
    BY DEF Tables, TableNames, Place
  <1>3. \A t \in TableNames : Place[t] \in 1..4 /\ Tables[Place[t]] = t
    BY DEF Tables, TableNames, Place
  <1>4. QED
    BY <1>1, <1>2, <1>3

\* More transactions, more facts, assignments and contents.
LEMMA FactsGrow ==
  ASSUME NEW S, NEW T, S \subseteq T
  PROVE  FactsOf(S) \subseteq FactsOf(T) /\ AsgOf(S) \subseteq AsgOf(T)
  BY DEF FactsOf, AsgOf

\* The contents of a table, table by table.
LEMMA ContentsAre ==
  /\ Contents("facts") = InPartition(Facts)
  /\ Contents("assignments") = {a \in Asg : \E f \in InPartition(Facts) : f.id = a.fact}
  /\ Contents("codes") = CodesOf(Asg)
  /\ Contents("entities") = PayeesOf(InPartition(Facts))
  BY DEF Contents

\* A commit takes no row out of a table.
LEMMA ContentsGrow ==
  ASSUME committed \subseteq committed', NEW t \in TableNames
  PROVE  Contents(t) \subseteq Contents(t)'
  <1>1. Facts \subseteq Facts' /\ Asg \subseteq Asg'
    BY DEF Facts, Asg, FactsOf, AsgOf
  <1>2. InPartition(Facts) \subseteq InPartition(Facts)'
    BY <1>1 DEF InPartition
  <1>3. CodesOf(Asg) \subseteq CodesOf(Asg)'
    BY <1>1 DEF CodesOf
  <1>4. PayeesOf(InPartition(Facts)) \subseteq PayeesOf(InPartition(Facts))'
    BY <1>2 DEF PayeesOf
  <1>5. CASE t = "facts"
    BY <1>2, <1>5 DEF Contents
  <1>6. CASE t = "assignments"
    BY <1>1, <1>2, <1>6 DEF Contents
  <1>7. CASE t = "codes"
    BY <1>3, <1>7 DEF Contents
  <1>8. CASE t = "entities"
    BY <1>4, <1>8 DEF Contents
  <1>9. QED
    BY <1>5, <1>6, <1>7, <1>8 DEF TableNames

\* A table holds rows of its pool.
LEMMA ContentsTyped ==
  ASSUME committed \subseteq Transactions, NEW t \in TableNames
  PROVE  Contents(t) \subseteq RowPool(t)
  <1>1. Facts \subseteq FactPool /\ Asg \subseteq AsgPool
    BY FactsGrow DEF Facts, Asg, FactPool, AsgPool
  <1>2. InPartition(Facts) \subseteq FactPool
    BY <1>1 DEF InPartition
  <1>3. CodesOf(Asg) \subseteq CodesOf(AsgPool) /\ PayeesOf(InPartition(Facts)) \subseteq PayeesOf(FactPool)
    BY <1>1, <1>2 DEF CodesOf, PayeesOf
  <1>4. CASE t = "facts"
    BY <1>2, <1>4 DEF Contents, RowPool
  <1>5. CASE t = "assignments"
    BY <1>1, <1>5 DEF Contents, RowPool
  <1>6. CASE t = "codes"
    BY <1>3, <1>6 DEF Contents, RowPool
  <1>7. CASE t = "entities"
    BY <1>3, <1>7 DEF Contents, RowPool
  <1>8. QED
    BY <1>4, <1>5, <1>6, <1>7 DEF TableNames

-----------------------------------------------------------------------------
(***************************************************************************)
(* What the actions change.                                                *)
(***************************************************************************)
\* Nothing about export q changes.
Untouched(q) ==
    pc'[q] = pc[q] /\ at'[q] = at[q] /\ held'[q] = held[q] /\ asOf'[q] = asOf[q] /\ after'[q] = after[q]

\* Export e gives up.
Cleared(e) ==
    pc'[e] = "failed" /\ at'[e] = 1 /\ held'[e] = NothingRead /\ asOf'[e] = {} /\ after'[e] = {}

\* An export that fails forgets what it read; artifacts may have been added.
LEMMA EndsEffect ==
  ASSUME TypeOK, NEW e \in Exports, Ends(e)
  PROVE  /\ Cleared(e) /\ \A q \in Exports \ {e} : Untouched(q)
         /\ pc' \in [Exports -> {"read", "upload", "register", "done", "failed"}]
         /\ at' \in [Exports -> 1..Len(Tables)] /\ DOMAIN held' = Exports
         /\ asOf' \in [Exports -> SUBSET Transactions] /\ after' \in [Exports -> SUBSET Exports]
  <1>1. Len(Tables) = 4
    BY TablesFacts
  <1>2. pc' = [pc EXCEPT ![e] = "failed"] /\ pc \in [Exports -> {"read", "upload", "register", "done", "failed"}]
    BY DEF Ends, Goto, TypeOK
  <1>3. at' = [at EXCEPT ![e] = 1] /\ at \in [Exports -> 1..4]
    BY <1>1 DEF Ends, TypeOK
  <1>4. held' = [held EXCEPT ![e] = NothingRead] /\ DOMAIN held = Exports
    BY DEF Ends, TypeOK
  <1>5. asOf' = [asOf EXCEPT ![e] = {}] /\ asOf \in [Exports -> SUBSET Transactions]
    BY DEF Ends, TypeOK
  <1>6. after' = [after EXCEPT ![e] = {}] /\ after \in [Exports -> SUBSET Exports]
    BY DEF Ends, TypeOK
  <1>7. QED
    BY <1>1, <1>2, <1>3, <1>4, <1>5, <1>6 DEF Cleared, Untouched

\* A statement of an export reads the next table: that one is read now, of the
\* others as many as before.
LEMMA ReadEffect ==
  ASSUME TypeOK, NEW e \in Exports, Read(e)
  PROVE  \E t \in TableNames :
            /\ pc[e] = "read" /\ Place[t] = at[e]
            /\ \A q \in Exports \ {e} : Untouched(q)
            /\ pc'[e] \in {"read", "upload"} /\ (pc'[e] # "read" => at'[e] = 1)
            /\ DOMAIN held' = Exports /\ held'[e] = [held[e] EXCEPT ![t] = Contents(t)]
            /\ asOf'[e] = IF t = "facts" THEN committed ELSE asOf[e]
            /\ after'[e] = IF at[e] = 1 THEN Registered ELSE after[e]
            /\ \A u \in TableNames : HasRead(e, u)' <=> HasRead(e, u) \/ u = t
            /\ \A u \in TableNames : HasRead(e, u) <=> Place[u] < Place[t]
            /\ pc' \in [Exports -> {"read", "upload", "register", "done", "failed"}]
            /\ at' \in [Exports -> 1..Len(Tables)]
            /\ asOf' \in [Exports -> SUBSET Transactions] /\ after' \in [Exports -> SUBSET Exports]
            /\ UNCHANGED <<committed, objects, registry>>
  <1> DEFINE t == Tables[at[e]]
  <1>1. Len(Tables) = 4 /\ at \in [Exports -> 1..4]
    BY TablesFacts DEF TypeOK
  <1>2. at[e] \in 1..4
    BY <1>1
  <1>3. t \in TableNames /\ Place[t] = at[e]
    BY <1>2, TablesFacts
  <1>4. /\ pc[e] = "read" /\ UNCHANGED <<committed, objects, registry>>
        /\ held' = [held EXCEPT ![e] = [held[e] EXCEPT ![t] = Contents(t)]]
        /\ asOf' = [asOf EXCEPT ![e] = IF t = "facts" THEN committed ELSE asOf[e]]
        /\ after' = [after EXCEPT ![e] = IF at[e] = 1 THEN Registered ELSE after[e]]
    BY DEF Read
  <1>5. /\ at[e] < 4 => at' = [at EXCEPT ![e] = at[e] + 1] /\ pc' = pc
        /\ ~ (at[e] < 4) => at' = [at EXCEPT ![e] = 1] /\ pc' = [pc EXCEPT ![e] = "upload"]
    BY <1>1 DEF Read, Goto
  <1>6. DOMAIN held = Exports /\ pc \in [Exports -> {"read", "upload", "register", "done", "failed"}]
    BY DEF TypeOK
  <1>7. /\ asOf \in [Exports -> SUBSET Transactions] /\ after \in [Exports -> SUBSET Exports]
        /\ committed \in SUBSET Transactions /\ Registered \in SUBSET Exports
    BY DEF TypeOK, Registered
  <1> HIDE DEF t
  <1>8. DOMAIN held' = Exports /\ held'[e] = [held[e] EXCEPT ![t] = Contents(t)]
    BY <1>4, <1>6
  <1>9. pc' \in [Exports -> {"read", "upload", "register", "done", "failed"}] /\ at' \in [Exports -> 1..Len(Tables)]
    BY <1>1, <1>2, <1>5, <1>6
  <1>10. asOf' \in [Exports -> SUBSET Transactions] /\ asOf'[e] = IF t = "facts" THEN committed ELSE asOf[e]
    BY <1>4, <1>7
  <1>11. after' \in [Exports -> SUBSET Exports] /\ after'[e] = IF at[e] = 1 THEN Registered ELSE after[e]
    BY <1>4, <1>7
  <1>12. \A q \in Exports \ {e} : Untouched(q)
    <2>1. \A q \in Exports \ {e} : pc'[q] = pc[q] /\ at'[q] = at[q]
      BY <1>1, <1>5, <1>6
    <2>2. \A q \in Exports \ {e} : held'[q] = held[q] /\ asOf'[q] = asOf[q] /\ after'[q] = after[q]
      BY <1>4, <1>6, <1>7
    <2>3. QED
      BY <2>1, <2>2 DEF Untouched
  <1>13. pc'[e] \in {"read", "upload"} /\ (pc'[e] # "read" => at'[e] = 1)
    BY <1>1, <1>4, <1>5, <1>6
  <1>14. \A u \in TableNames : HasRead(e, u) <=> Place[u] < Place[t]
    BY <1>3, <1>4 DEF HasRead
  <1>15. ASSUME NEW u \in TableNames PROVE HasRead(e, u)' <=> HasRead(e, u) \/ u = t
    <2>1. Place[u] \in 1..4 /\ (Place[u] = Place[t] => u = t)
      BY <1>3, TablesFacts
    <2>2. CASE at[e] < 4
      <3>1. pc'[e] = "read" /\ at'[e] = at[e] + 1
        BY <1>1, <1>4, <1>5, <2>2
      <3>2. HasRead(e, u)' <=> Place[u] < at[e] + 1
        BY <3>1 DEF HasRead
      <3>3. QED
        BY <1>2, <1>3, <1>14, <2>1, <3>2
    <2>3. CASE ~ (at[e] < 4)
      <3>1. pc'[e] = "upload"
        BY <1>5, <1>6, <2>3
      <3>2. HasRead(e, u)'
        BY <3>1 DEF HasRead
      <3>3. QED
        BY <1>2, <1>3, <1>14, <2>1, <2>3, <3>2
    <2>4. QED
      BY <2>2, <2>3
  <1>16. QED
    BY <1>3, <1>4, <1>8, <1>9, <1>10, <1>11, <1>12, <1>13, <1>14, <1>15

\* An upload either fails, having stored some artifacts, or stores them all.
LEMMA UploadEffect ==
  ASSUME TypeOK, NEW e \in Exports, Upload(e)
  PROVE  /\ UNCHANGED <<committed, registry>> /\ objects \subseteq objects'
         /\ \A x \in objects' \ objects : \E t \in TableNames : x = Artifact(e, t)
         /\ \/ Ends(e)
            \/ /\ UNCHANGED reading /\ pc[e] = "upload" /\ pc' = [pc EXCEPT ![e] = "register"]
               /\ \A t \in TableNames : Artifact(e, t) \in objects'
  <1>1. PICK n \in 0..4 :
           /\ objects' = objects \cup {Artifact(e, Tables[i]) : i \in 1..n}
           /\ IF n = 4 THEN Goto(e, "register") /\ UNCHANGED reading ELSE Ends(e)
    BY TablesFacts DEF Upload
  <1>2. \A x \in objects' \ objects : \E t \in TableNames : x = Artifact(e, t)
    BY <1>1, TablesFacts
  <1>3. n = 4 => \A t \in TableNames : Artifact(e, t) \in objects'
    BY <1>1, TablesFacts
  <1>4. pc[e] = "upload" /\ UNCHANGED <<committed, registry>>
    BY DEF Upload
  <1>5. QED
    BY <1>1, <1>2, <1>3, <1>4 DEF Goto

\* What is registered, before and after.
LEMMA RegisterEffect ==
  ASSUME TypeOK, NEW e \in Exports, Register(e)
  PROVE  Registered' = Registered \cup {e}
  <1>1. registry \in Seq(Exports) /\ registry' = Append(registry, e)
    BY DEF TypeOK, Register
  <1>2. Len(registry) \in Nat /\ Len(registry') = Len(registry) + 1
    BY <1>1
  <1>3. \A i \in 1..Len(registry) : registry'[i] = registry[i]
    BY <1>1
  <1>4. registry'[Len(registry) + 1] = e
    BY <1>1
  <1>5. 1..Len(registry') = 1..Len(registry) \cup {Len(registry) + 1}
    BY <1>2
  <1>6. QED
    BY <1>3, <1>4, <1>5 DEF Registered

LEMMA NothingIsRead == NothingRead = [t \in TableNames |-> {}]
  BY DEF NothingRead

-----------------------------------------------------------------------------
(***************************************************************************)
(* The invariant, for each kind of step.                                   *)
(***************************************************************************)
\* A commit: nothing an export holds is affected.
LEMMA CommitStep ==
  ASSUME IInv, NEW x \in Transactions, Commit(x)
  PROVE  IInv'
  <1>1. committed' = committed \cup {x} /\ UNCHANGED <<objects, registry, pc, at, held, asOf, after>>
    BY DEF Commit, StoreCommit, reading
  <1>2. TypeOK'
    BY <1>1 DEF IInv, TypeOK
  <1>3. \A q \in Exports, t \in TableNames : HasRead(q, t)' <=> HasRead(q, t)
    BY <1>1 DEF HasRead
  <1>4. Registered' = Registered /\ \A q \in Exports, t \in TableNames : Artifact(q, t)' = Artifact(q, t)
    BY <1>1 DEF Registered, Artifact
  <1>5. HeldStays'
    <2>1. \A t \in TableNames : Contents(t) \subseteq Contents(t)'
      BY <1>1, ContentsGrow
    <2>2. "facts" \in TableNames
      BY DEF TableNames
    <2>3. \A q \in Exports : InPartition(FactsOf(asOf[q]))' = InPartition(FactsOf(asOf[q]))
      BY <1>1 DEF InPartition, FactsOf
    <2>4. QED
      BY <1>1, <1>3, <2>1, <2>2, <2>3 DEF IInv, HeldStays
  <1>6. ReadIsClosed'
    BY <1>1, <1>3 DEF IInv, ReadIsClosed, TableNames, AsgOf, CodesOf, PayeesOf
  <1>7. ProgressIsTrue'
    BY <1>1, <1>4 DEF IInv, ProgressIsTrue
  <1>8. HoldsEarlier'
    BY <1>1, <1>3 DEF IInv, HoldsEarlier
  <1>9. QED
    BY <1>2, <1>5, <1>6, <1>7, <1>8 DEF IInv

\* An export fails, by itself or in its upload.
LEMMA EndsStep ==
  ASSUME IInv, NEW e \in Exports, Ends(e), pc[e] # "done",
         UNCHANGED <<committed, registry>>, objects \subseteq objects',
         \A x \in objects' \ objects : \E t \in TableNames : x = Artifact(e, t)
  PROVE  IInv'
  <1>1. /\ Cleared(e) /\ \A q \in Exports \ {e} : Untouched(q)
        /\ pc' \in [Exports -> {"read", "upload", "register", "done", "failed"}]
        /\ at' \in [Exports -> 1..Len(Tables)] /\ DOMAIN held' = Exports
        /\ asOf' \in [Exports -> SUBSET Transactions] /\ after' \in [Exports -> SUBSET Exports]
    BY EndsEffect DEF IInv
  <1>2. \A q \in Exports \ {e}, t \in TableNames : HasRead(q, t)' <=> HasRead(q, t)
    BY <1>1 DEF HasRead, Untouched
  <1>3. \A t \in TableNames : ~ HasRead(e, t)' /\ held'[e][t] = {}
    BY <1>1, TablesFacts DEF HasRead, Cleared, NothingRead
  <1>4. \A t \in TableNames : Contents(t)' = Contents(t) /\ RowPool(t)' = RowPool(t)
    BY DEF Contents, Facts, Asg, RowPool
  <1>5. {"facts", "assignments", "codes", "entities"} \subseteq TableNames
    BY DEF TableNames
  <1>6. Registered' = Registered /\ \A q \in Exports \ {e}, t \in TableNames : Artifact(q, t)' = Artifact(q, t)
    BY <1>1 DEF Registered, Artifact, Untouched
  <1>7. TypeOK'
    <2>1. \A a \in objects' : a[1] \in TableNames /\ a[2] \subseteq RowPool(a[1])
      <3>1. \A t \in TableNames : Artifact(e, t)[1] = t /\ Artifact(e, t)[2] = held[e][t]
        BY DEF Artifact
      <3>2. QED
        BY <3>1 DEF IInv, TypeOK
    <2>2. \A q \in Exports :
             DOMAIN held'[q] = TableNames /\ \A t \in TableNames : held'[q][t] \subseteq RowPool(t)
      BY <1>1, <1>3 DEF IInv, TypeOK, Cleared, Untouched, NothingRead
    <2>3. committed' \subseteq Transactions /\ registry' \in Seq(Exports)
      BY DEF IInv, TypeOK
    <2>4. QED
      BY <1>1, <1>4, <2>1, <2>2, <2>3 DEF TypeOK
  <1>8. HeldStays'
    <2>1. ASSUME NEW q \in Exports \ {e}
          PROVE  /\ asOf'[q] \subseteq committed'
                 /\ \A t \in TableNames : held'[q][t] \subseteq Contents(t)'
                 /\ HasRead(q, "facts")' => held'[q]["facts"] = InPartition(FactsOf(asOf'[q]))
      BY <1>1, <1>2, <1>4, <1>5 DEF IInv, HeldStays, Untouched
    <2>2. QED
      BY <1>1, <1>3, <1>5, <2>1 DEF HeldStays, Cleared, InPartition, FactsOf
  <1>9. ReadIsClosed'
    <2>1. ASSUME NEW q \in Exports \ {e}
          PROVE  /\ HasRead(q, "assignments")' =>
                       \A a \in AsgOf(asOf'[q]) :
                          (\E f \in held'[q]["facts"] : f.id = a.fact) => a \in held'[q]["assignments"]
                 /\ HasRead(q, "codes")' => CodesOf(held'[q]["assignments"]) \subseteq held'[q]["codes"]
                 /\ HasRead(q, "entities")' => PayeesOf(held'[q]["facts"]) \subseteq held'[q]["entities"]
      BY <1>1, <1>2, <1>5 DEF IInv, ReadIsClosed, Untouched
    <2>2. QED
      BY <1>3, <1>5, <2>1 DEF ReadIsClosed, AsgOf, CodesOf, PayeesOf
  <1>10. ProgressIsTrue'
    <2>1. ASSUME NEW q \in Exports \ {e}
          PROVE  /\ pc'[q] # "read" => at'[q] = 1
                 /\ pc'[q] \in {"register", "done"} => \A t \in TableNames : Artifact(q, t)' \in objects'
                 /\ q \in Registered' => pc'[q] = "done"
      <3>1. \A t \in TableNames : Artifact(q, t)' = Artifact(q, t)
        BY <1>6
      <3>2. pc'[q] = pc[q] /\ at'[q] = at[q]
        BY <1>1 DEF Untouched
      <3>3. QED
        BY <1>6, <3>1, <3>2 DEF IInv, ProgressIsTrue
    <2>2. e \notin Registered'
      BY <1>6 DEF IInv, ProgressIsTrue
    <2>3. pc'[e] = "failed" /\ at'[e] = 1
      BY <1>1 DEF Cleared
    <2>4. QED
      BY <2>1, <2>2, <2>3 DEF ProgressIsTrue
  <1>11. HoldsEarlier'
    <2>1. ASSUME NEW q \in Exports \ {e}, NEW d \in after'[q]
          PROVE  /\ d \in Exports /\ pc'[d] = "done"
                 /\ \A t \in TableNames : HasRead(q, t)' => held'[d][t] \subseteq held'[q][t]
      <3>1. d \in after[q]
        BY <1>1 DEF Untouched
      <3>2. d \in Exports \ {e} /\ pc[d] = "done"
        BY <3>1 DEF IInv, HoldsEarlier
      <3>3. QED
        BY <1>1, <1>2, <3>1, <3>2 DEF IInv, HoldsEarlier, Untouched
    <2>2. after'[e] = {}
      BY <1>1 DEF Cleared
    <2>3. QED
      BY <2>1, <2>2 DEF HoldsEarlier
  <1>12. QED
    BY <1>7, <1>8, <1>9, <1>10, <1>11 DEF IInv

\* All artifacts are stored, or the row is inserted: what the exports hold stays.
LEMMA LateStep ==
  ASSUME IInv, NEW e \in Exports, pc[e] \in {"upload", "register"},
         UNCHANGED <<committed, reading>>,
         objects \subseteq objects', \A x \in objects' \ objects : \E t \in TableNames : x = Artifact(e, t),
         \A t \in TableNames : Artifact(e, t) \in objects',
         \/ pc' = [pc EXCEPT ![e] = "register"] /\ UNCHANGED registry
         \/ pc' = [pc EXCEPT ![e] = "done"] /\ Register(e)
  PROVE  IInv'
  <1>1. UNCHANGED <<at, held, asOf, after>>
    BY DEF reading
  <1>2. pc \in [Exports -> {"read", "upload", "register", "done", "failed"}]
    BY DEF IInv, TypeOK
  <1>3. /\ pc' \in [Exports -> {"read", "upload", "register", "done", "failed"}]
        /\ pc'[e] \in {"register", "done"} /\ \A q \in Exports \ {e} : pc'[q] = pc[q]
    BY <1>2
  <1>4. \A q \in Exports, t \in TableNames : HasRead(q, t)' <=> HasRead(q, t)
    BY <1>1, <1>3 DEF HasRead
  <1>5. \A t \in TableNames : Contents(t)' = Contents(t) /\ RowPool(t)' = RowPool(t)
    BY DEF Contents, Facts, Asg, RowPool
  <1>6. {"facts", "assignments", "codes", "entities"} \subseteq TableNames
    BY DEF TableNames
  <1>7. TypeOK'
    <2>1. \A a \in objects' : a[1] \in TableNames /\ a[2] \subseteq RowPool(a[1])
      <3>1. \A t \in TableNames : Artifact(e, t)[1] = t /\ Artifact(e, t)[2] = held[e][t]
        BY DEF Artifact
      <3>2. QED
        BY <3>1 DEF IInv, TypeOK
    <2>2. registry' \in Seq(Exports)
      <3>1. registry \in Seq(Exports)
        BY DEF IInv, TypeOK
      <3>2. registry' = registry \/ registry' = Append(registry, e)
        BY DEF Register
      <3>3. QED
        BY <3>1, <3>2
    <2>3. QED
      BY <1>1, <1>3, <1>5, <2>1, <2>2 DEF IInv, TypeOK
  <1>8. HeldStays'
    BY <1>1, <1>4, <1>5, <1>6 DEF IInv, HeldStays
  <1>9. ReadIsClosed'
    BY <1>1, <1>4, <1>6 DEF IInv, ReadIsClosed
  <1>10. ProgressIsTrue'
    <2>1. Registered' \subseteq Registered \cup {e} /\ (e \in Registered' => pc'[e] = "done")
      <3>1. CASE pc' = [pc EXCEPT ![e] = "register"] /\ UNCHANGED registry
        <4>1. e \notin Registered
          BY DEF IInv, ProgressIsTrue
        <4>2. QED
          BY <3>1, <4>1 DEF Registered
      <3>2. CASE pc' = [pc EXCEPT ![e] = "done"] /\ Register(e)
        BY <1>2, <3>2, RegisterEffect DEF IInv
      <3>3. QED
        BY <3>1, <3>2
    <2>2. \A q \in Exports, t \in TableNames : Artifact(q, t)' = Artifact(q, t)
      BY <1>1 DEF Artifact
    <2>3. at'[e] = 1
      BY <1>1 DEF IInv, ProgressIsTrue
    <2>4. QED
      BY <1>1, <1>3, <2>1, <2>2, <2>3 DEF IInv, ProgressIsTrue
  <1>11. HoldsEarlier'
    <2>1. \A q \in Exports : pc[q] = "done" => pc'[q] = "done"
      BY <1>3
    <2>2. QED
      BY <1>1, <1>4, <2>1 DEF IInv, HoldsEarlier
  <1>12. QED
    BY <1>7, <1>8, <1>9, <1>10, <1>11 DEF IInv

\* A table is read: it holds all that the tables read before refer to, and all that
\* an export registered before this one began has read from it.
LEMMA ReadStep ==
  ASSUME IInv, NEW e \in Exports, Read(e)
  PROVE  IInv'
  <1>0. TypeOK /\ HeldStays /\ ReadIsClosed /\ ProgressIsTrue /\ HoldsEarlier
    BY DEF IInv
  <1>1. PICK t \in TableNames :
            /\ pc[e] = "read" /\ Place[t] = at[e]
            /\ \A q \in Exports \ {e} : Untouched(q)
            /\ pc'[e] \in {"read", "upload"} /\ (pc'[e] # "read" => at'[e] = 1)
            /\ DOMAIN held' = Exports /\ held'[e] = [held[e] EXCEPT ![t] = Contents(t)]
            /\ asOf'[e] = IF t = "facts" THEN committed ELSE asOf[e]
            /\ after'[e] = IF at[e] = 1 THEN Registered ELSE after[e]
            /\ \A u \in TableNames : HasRead(e, u)' <=> HasRead(e, u) \/ u = t
            /\ \A u \in TableNames : HasRead(e, u) <=> Place[u] < Place[t]
            /\ pc' \in [Exports -> {"read", "upload", "register", "done", "failed"}]
            /\ at' \in [Exports -> 1..Len(Tables)]
            /\ asOf' \in [Exports -> SUBSET Transactions] /\ after' \in [Exports -> SUBSET Exports]
            /\ UNCHANGED <<committed, objects, registry>>
    BY <1>0, ReadEffect
  <1>2. \A q \in Exports \ {e}, u \in TableNames : HasRead(q, u)' <=> HasRead(q, u)
    BY <1>1 DEF HasRead, Untouched
  <1>3. \A u \in TableNames : Contents(u)' = Contents(u) /\ RowPool(u)' = RowPool(u)
    BY <1>1 DEF Contents, Facts, Asg, RowPool
  <1>4. /\ {"facts", "assignments", "codes", "entities"} \subseteq TableNames
        /\ Place["facts"] = 1 /\ Place["assignments"] = 2 /\ Place["codes"] = 3 /\ Place["entities"] = 4
    BY DEF TableNames, Place
  <1>5. /\ DOMAIN held[e] = TableNames /\ held'[e][t] = Contents(t)
        /\ \A u \in TableNames \ {t} : held'[e][u] = held[e][u]
    BY <1>0, <1>1 DEF TypeOK
  <1>6. Registered' = Registered /\ \A q \in Exports \ {e}, u \in TableNames : Artifact(q, u)' = Artifact(q, u)
    BY <1>1 DEF Registered, Artifact, Untouched
  <1>7. TypeOK'
    <2>1. Contents(t) \subseteq RowPool(t)
      BY <1>0, ContentsTyped DEF TypeOK
    <2>2. DOMAIN held'[e] = TableNames /\ \A u \in TableNames : held'[e][u] \subseteq RowPool(u)
      BY <1>0, <1>1, <1>5, <2>1 DEF TypeOK
    <2>3. \A q \in Exports \ {e} :
             DOMAIN held'[q] = TableNames /\ \A u \in TableNames : held'[q][u] \subseteq RowPool(u)
      BY <1>0, <1>1 DEF TypeOK, Untouched
    <2>4. QED
      BY <1>0, <1>1, <1>3, <2>2, <2>3 DEF TypeOK
  <1>8. HeldStays'
    <2>1. ASSUME NEW q \in Exports \ {e}
          PROVE  /\ asOf'[q] \subseteq committed'
                 /\ \A u \in TableNames : held'[q][u] \subseteq Contents(u)'
                 /\ HasRead(q, "facts")' => held'[q]["facts"] = InPartition(FactsOf(asOf'[q]))
      BY <1>0, <1>1, <1>2, <1>3, <1>4 DEF HeldStays, Untouched
    <2>2. asOf'[e] \subseteq committed' /\ \A u \in TableNames : held'[e][u] \subseteq Contents(u)'
      BY <1>0, <1>1, <1>3, <1>5 DEF HeldStays
    <2>3. HasRead(e, "facts")' => held'[e]["facts"] = InPartition(FactsOf(asOf'[e]))
      <3>1. CASE t = "facts"
        BY <1>1, <1>5, <3>1, ContentsAre DEF Facts
      <3>2. CASE t # "facts"
        BY <1>0, <1>1, <1>4, <1>5, <3>2 DEF HeldStays
      <3>3. QED
        BY <3>1, <3>2
    <2>4. QED
      BY <2>1, <2>2, <2>3 DEF HeldStays
  <1>9. ReadIsClosed'
    <2>1. ASSUME NEW q \in Exports \ {e}
          PROVE  /\ HasRead(q, "assignments")' =>
                       \A a \in AsgOf(asOf'[q]) :
                          (\E f \in held'[q]["facts"] : f.id = a.fact) => a \in held'[q]["assignments"]
                 /\ HasRead(q, "codes")' => CodesOf(held'[q]["assignments"]) \subseteq held'[q]["codes"]
                 /\ HasRead(q, "entities")' => PayeesOf(held'[q]["facts"]) \subseteq held'[q]["entities"]
      BY <1>0, <1>1, <1>2, <1>4 DEF ReadIsClosed, Untouched
    <2>2. ASSUME HasRead(e, "assignments")', NEW a \in AsgOf(asOf'[e]),
                 NEW f \in held'[e]["facts"], f.id = a.fact
          PROVE  a \in held'[e]["assignments"]
      <3>1. CASE t = "assignments"
        <4>1. held'[e]["facts"] = held[e]["facts"] /\ asOf'[e] = asOf[e]
          BY <1>1, <1>4, <1>5, <3>1
        <4>2. f \in InPartition(Facts)
          BY <1>0, <1>4, <4>1, ContentsAre DEF HeldStays
        <4>3. a \in Asg
          BY <1>0, <4>1 DEF HeldStays, Asg, AsgOf
        <4>4. QED
          BY <1>5, <2>2, <3>1, <4>2, <4>3, ContentsAre
      <3>2. CASE t # "assignments"
        <4>1. HasRead(e, "assignments")
          BY <1>1, <1>4, <2>2, <3>2
        <4>2. t # "facts"
          BY <1>1, <1>4, <4>1
        <4>3. asOf'[e] = asOf[e] /\ held'[e]["facts"] = held[e]["facts"]
              /\ held'[e]["assignments"] = held[e]["assignments"]
          BY <1>1, <1>4, <1>5, <3>2, <4>2
        <4>4. QED
          BY <1>0, <2>2, <4>1, <4>3 DEF ReadIsClosed
      <3>3. QED
        BY <3>1, <3>2
    <2>3. HasRead(e, "codes")' => CodesOf(held'[e]["assignments"]) \subseteq held'[e]["codes"]
      <3>1. CASE t = "codes"
        <4>1. held'[e]["assignments"] \subseteq Asg
          BY <1>0, <1>4, <1>5, <3>1, ContentsAre DEF HeldStays
        <4>2. held'[e]["codes"] = CodesOf(Asg)
          BY <1>5, <3>1, ContentsAre
        <4>3. QED
          BY <4>1, <4>2 DEF CodesOf
      <3>2. CASE t # "codes"
        <4>1. HasRead(e, "codes")' => HasRead(e, "codes") /\ t # "assignments"
          BY <1>1, <1>4, <3>2
        <4>2. QED
          BY <1>0, <1>4, <1>5, <3>2, <4>1 DEF ReadIsClosed
      <3>3. QED
        BY <3>1, <3>2
    <2>4. HasRead(e, "entities")' => PayeesOf(held'[e]["facts"]) \subseteq held'[e]["entities"]
      <3>1. CASE t = "entities"
        <4>1. held'[e]["facts"] \subseteq InPartition(Facts)
          BY <1>0, <1>4, <1>5, <3>1, ContentsAre DEF HeldStays
        <4>2. held'[e]["entities"] = PayeesOf(InPartition(Facts))
          BY <1>5, <3>1, ContentsAre
        <4>3. QED
          BY <4>1, <4>2 DEF PayeesOf
      <3>2. CASE t # "entities"
        <4>1. HasRead(e, "entities")' => HasRead(e, "entities") /\ t # "facts"
          BY <1>1, <1>4, <3>2
        <4>2. QED
          BY <1>0, <1>4, <1>5, <3>2, <4>1 DEF ReadIsClosed
      <3>3. QED
        BY <3>1, <3>2
    <2>5. QED
      BY <2>1, <2>2, <2>3, <2>4 DEF ReadIsClosed
  <1>10. ProgressIsTrue'
    <2>1. ASSUME NEW q \in Exports \ {e}
          PROVE  /\ pc'[q] # "read" => at'[q] = 1
                 /\ pc'[q] \in {"register", "done"} => \A u \in TableNames : Artifact(q, u)' \in objects'
                 /\ q \in Registered' => pc'[q] = "done"
      <3>1. \A u \in TableNames : Artifact(q, u)' = Artifact(q, u)
        BY <1>6
      <3>2. pc'[q] = pc[q] /\ at'[q] = at[q] /\ objects' = objects
        BY <1>1 DEF Untouched
      <3>3. QED
        BY <1>0, <1>6, <3>1, <3>2 DEF ProgressIsTrue
    <2>2. e \notin Registered'
      BY <1>0, <1>1, <1>6 DEF ProgressIsTrue
    <2>3. QED
      BY <1>1, <2>1, <2>2 DEF ProgressIsTrue
  <1>11. HoldsEarlier'
    <2>1. ASSUME NEW q \in Exports \ {e}, NEW d \in after'[q]
          PROVE  /\ d \in Exports /\ pc'[d] = "done"
                 /\ \A u \in TableNames : HasRead(q, u)' => held'[d][u] \subseteq held'[q][u]
      <3>1. d \in after[q]
        BY <1>1 DEF Untouched
      <3>2. d \in Exports \ {e} /\ pc[d] = "done"
        BY <1>0, <1>1, <3>1 DEF HoldsEarlier
      <3>3. QED
        BY <1>0, <1>1, <1>2, <3>1, <3>2 DEF HoldsEarlier, Untouched
    <2>2. ASSUME NEW d \in after'[e]
          PROVE  /\ d \in Exports /\ pc'[d] = "done"
                 /\ \A u \in TableNames : HasRead(e, u)' => held'[d][u] \subseteq held'[e][u]
      <3>1. d \in Exports /\ pc[d] = "done"
        <4>1. CASE at[e] = 1
          <5>1. d \in Registered
            BY <1>1, <4>1
          <5>2. d \in Exports
            BY <1>0, <5>1 DEF Registered, TypeOK
          <5>3. QED
            BY <1>0, <5>1, <5>2 DEF ProgressIsTrue
        <4>2. CASE at[e] # 1
          BY <1>0, <1>1, <4>2 DEF HoldsEarlier
        <4>3. QED
          BY <4>1, <4>2
      <3>2. d \in Exports \ {e}
        BY <1>1, <3>1
      <3>3. pc'[d] = pc[d] /\ held'[d] = held[d]
        BY <1>1, <3>2 DEF Untouched
      <3>4. held[d][t] \subseteq held'[e][t]
        BY <1>0, <1>5, <3>1 DEF HeldStays
      <3>5. ASSUME NEW u \in TableNames \ {t}, HasRead(e, u)' PROVE held[d][u] \subseteq held'[e][u]
        <4>1. HasRead(e, u)
          BY <1>1, <3>5
        <4>2. at[e] # 1
          BY <1>1, <4>1, TablesFacts
        <4>3. d \in after[e]
          BY <1>1, <4>2
        <4>4. QED
          BY <1>0, <1>5, <4>1, <4>3 DEF HoldsEarlier
      <3>6. QED
        BY <3>1, <3>3, <3>4, <3>5
    <2>3. QED
      BY <2>1, <2>2 DEF HoldsEarlier
  <1>12. QED
    BY <1>7, <1>8, <1>9, <1>10, <1>11 DEF IInv

-----------------------------------------------------------------------------
(***************************************************************************)
(* The theorems.                                                           *)
(***************************************************************************)
\* The invariant holds before anything is committed or read.
LEMMA InvInit == Init => IInv
  <1> SUFFICES ASSUME Init PROVE IInv
    OBVIOUS
  <1>1. Len(Tables) = 4 /\ Registered = {}
    BY TablesFacts DEF Init, Registered
  <1>2. \A e \in Exports, t \in TableNames : ~ HasRead(e, t) /\ held[e][t] = {}
    BY TablesFacts DEF Init, HasRead, NothingRead
  <1>3. {"facts", "assignments", "codes", "entities"} \subseteq TableNames
    BY DEF TableNames
  <1>4. TypeOK
    BY <1>1, <1>2 DEF Init, TypeOK, NothingRead
  <1>5. HeldStays /\ ReadIsClosed
    BY <1>2, <1>3 DEF Init, HeldStays, ReadIsClosed
  <1>6. ProgressIsTrue /\ HoldsEarlier
    BY <1>1 DEF Init, ProgressIsTrue, HoldsEarlier
  <1>7. QED
    BY <1>4, <1>5, <1>6 DEF IInv

\* No commit and no step of any export breaks it.
LEMMA InvStep == IInv /\ [Next]_vars => IInv'
  <1> SUFFICES ASSUME IInv, [Next]_vars PROVE IInv'
    OBVIOUS
  <1>1. ASSUME NEW x \in Transactions, Commit(x) PROVE IInv'
    BY <1>1, CommitStep
  <1>2. ASSUME NEW e \in Exports, Read(e) PROVE IInv'
    BY <1>2, ReadStep
  <1>3. ASSUME NEW e \in Exports, Upload(e) PROVE IInv'
    <2>1. /\ UNCHANGED <<committed, registry>> /\ objects \subseteq objects'
          /\ \A x \in objects' \ objects : \E t \in TableNames : x = Artifact(e, t)
      BY <1>3, UploadEffect DEF IInv
    <2>2. CASE Ends(e)
      <3>1. pc[e] # "done"
        BY <1>3 DEF Upload
      <3>2. QED
        BY <2>1, <2>2, <3>1, EndsStep
    <2>3. CASE /\ UNCHANGED reading /\ pc[e] = "upload" /\ pc' = [pc EXCEPT ![e] = "register"]
               /\ \A t \in TableNames : Artifact(e, t) \in objects'
      BY <2>1, <2>3, LateStep
    <2>4. QED
      BY <1>3, <2>2, <2>3, UploadEffect DEF IInv
  <1>4. ASSUME NEW e \in Exports, Register(e) PROVE IInv'
    <2>1. pc[e] = "register" /\ pc' = [pc EXCEPT ![e] = "done"] /\ UNCHANGED <<committed, objects, reading>>
      BY <1>4 DEF Register, Goto
    <2>2. \A t \in TableNames : Artifact(e, t) \in objects
      BY <2>1 DEF IInv, ProgressIsTrue
    <2>3. QED
      BY <1>4, <2>1, <2>2, LateStep
  <1>5. ASSUME NEW e \in Exports, Fail(e) PROVE IInv'
    <2>1. Ends(e) /\ pc[e] # "done" /\ UNCHANGED <<committed, objects, registry>>
      BY <1>5 DEF Fail
    <2>2. QED
      BY <2>1, EndsStep
  <1>6. CASE UNCHANGED vars
    <2>1. UNCHANGED <<committed, objects, registry, pc, at, held, asOf, after>>
      BY <1>6 DEF vars, reading
    <2>2. \A t \in TableNames : Contents(t)' = Contents(t)
      BY <2>1 DEF Contents, Facts, Asg
    <2>3. TypeOK'
      BY <2>1 DEF IInv, TypeOK
    <2>4. HeldStays' /\ ReadIsClosed'
      BY <2>1, <2>2 DEF IInv, HeldStays, ReadIsClosed, HasRead
    <2>5. ProgressIsTrue' /\ HoldsEarlier'
      BY <2>1 DEF IInv, ProgressIsTrue, HoldsEarlier, HasRead, Registered, Artifact
    <2>6. QED
      BY <2>3, <2>4, <2>5 DEF IInv
  <1>7. QED
    BY <1>1, <1>2, <1>3, <1>4, <1>5, <1>6 DEF Next

\* The inductive invariant of exports.
THEOREM Invariance == Spec => []IInv
  BY InvInit, InvStep, PTL DEF Spec

\* A registered export has read every table.
LEMMA RegisteredHasRead ==
  ASSUME IInv, NEW e \in Registered
  PROVE  e \in Exports /\ \A t \in TableNames : HasRead(e, t)
  <1>1. e \in Exports
    BY DEF IInv, TypeOK, Registered
  <1>2. pc[e] = "done"
    BY <1>1 DEF IInv, ProgressIsTrue
  <1>3. QED
    BY <1>1, <1>2 DEF HasRead

\* Every variable keeps its type, and no table is read into another's artifact.
THEOREM TypeCorrect == Spec => []TypeOK
  <1>1. IInv => TypeOK
    BY DEF IInv
  <1>2. QED
    BY <1>1, Invariance, PTL

\* However many transactions commit between its four statements, the files of a
\* registered export belong together.
THEOREM ExportsAreClosed == Spec => []ExportIsClosed
  <1>1. IInv => ExportIsClosed
    <2> SUFFICES ASSUME IInv, NEW e \in Registered
                 PROVE  /\ PayeesOf(held[e]["facts"]) \subseteq held[e]["entities"]
                        /\ CodesOf(held[e]["assignments"]) \subseteq held[e]["codes"]
                        /\ \A a \in AsgOf(asOf[e]) :
                              (\E f \in held[e]["facts"] : f.id = a.fact) => a \in held[e]["assignments"]
      BY DEF ExportIsClosed
    <2>1. e \in Exports /\ HasRead(e, "assignments") /\ HasRead(e, "codes") /\ HasRead(e, "entities")
      BY RegisteredHasRead DEF TableNames
    <2>2. QED
      BY <2>1 DEF IInv, ReadIsClosed
  <1>2. QED
    BY <1>1, Invariance, PTL

\* Whatever uploads fail, of whatever exports, a registered one has its objects.
THEOREM ExportsAreFetchable == Spec => []RegisteredIsFetchable
  <1>1. IInv => RegisteredIsFetchable
    <2> SUFFICES ASSUME IInv, NEW e \in Registered, NEW t \in TableNames PROVE Artifact(e, t) \in objects
      BY DEF RegisteredIsFetchable
    <2>1. e \in Exports /\ pc[e] = "done"
      BY RegisteredHasRead DEF IInv, ProgressIsTrue
    <2>2. QED
      BY <2>1 DEF IInv, ProgressIsTrue
  <1>2. QED
    BY <1>1, Invariance, PTL

\* An export holds all of those registered before it began.
THEOREM LaterExportsGrow == Spec => []LaterExportsHoldMore
  <1>1. IInv => LaterExportsHoldMore
    <2> SUFFICES ASSUME IInv, NEW e \in Registered, NEW d \in after[e], NEW t \in TableNames
                 PROVE  held[d][t] \subseteq held[e][t]
      BY DEF LaterExportsHoldMore
    <2>1. QED
      BY RegisteredHasRead DEF IInv, HoldsEarlier
  <1>2. QED
    BY <1>1, Invariance, PTL

-----------------------------------------------------------------------------
(***************************************************************************)
(* The payee view of an export.                                            *)
(***************************************************************************)
\* Where facts are corrected in their own partition, those in scope are the same
\* whether the partition or the whole store is looked at.
LEMMA ScopeInPartition ==
  ASSUME NEW F, CorrectedInPlace(F)
  PROVE  InScope(InPartition(F), Scope) = InScope(F, Scope)
  <1>1. \A f \in InPartition(F) : f \in Current(InPartition(F)) <=> f \in Current(F)
    <2> SUFFICES ASSUME NEW f \in InPartition(F)
                 PROVE  (\A s \in InPartition(F) : s.supersedes # f.id) <=> (\A s \in F : s.supersedes # f.id)
      BY DEF Current, InPartition
    <2>1. ASSUME NEW s \in F, s.supersedes = f.id PROVE s \in InPartition(F)
      BY <2>1 DEF CorrectedInPlace, InPartition
    <2>2. QED
      BY <2>1 DEF InPartition
  <1>2. \A f \in F : f.jur = Scope.jur /\ f.year = Scope.year <=> f \in InPartition(F)
    BY DEF InPartition
  <1>3. QED
    BY <1>1, <1>2 DEF InScope, Current, InPartition

\* The payee view an export answers is the store's at the moment its facts were
\* read, although its entities were read later.
THEOREM PayeeViewIsTheStores ==
  Spec => [](\A e \in Registered : CorrectedInPlace(FactsOf(asOf[e])) =>
               DuckViewByPayee(e) = ViewByPayee(FactsOf(asOf[e]), PayeesOf(FactsOf(asOf[e])), Scope))
  <1>1. ASSUME IInv, NEW e \in Registered, CorrectedInPlace(FactsOf(asOf[e]))
        PROVE  DuckViewByPayee(e) = ViewByPayee(FactsOf(asOf[e]), PayeesOf(FactsOf(asOf[e])), Scope)
    <2> DEFINE F == FactsOf(asOf[e])
               H == held[e]["facts"]
               E == held[e]["entities"]
    <2>1. e \in Exports /\ HasRead(e, "facts") /\ HasRead(e, "entities") /\ {"facts", "entities"} \subseteq TableNames
      BY <1>1, RegisteredHasRead DEF TableNames
    <2>2. H = InPartition(F) /\ PayeesOf(H) \subseteq E
      BY <1>1, <2>1 DEF IInv, HeldStays, ReadIsClosed
    <2>3. Unclassified \notin E
      BY <1>1, <2>1 DEF IInv, TypeOK, RowPool, PayeesOf
    <2>4. InScope(H, Scope) = InScope(F, Scope) /\ InScope(H, Scope) \subseteq H /\ InScope(F, Scope) \subseteq F
      BY <1>1, <2>2, ScopeInPartition DEF InScope, Current
    <2>5. \A f \in InScope(F, Scope) :
             (IF f.payee \in E THEN f.payee ELSE Unclassified)
                = (IF f.payee \in PayeesOf(F) THEN f.payee ELSE Unclassified)
      BY <2>2, <2>3, <2>4 DEF PayeesOf
    <2> HIDE DEF F, H, E
    <2>6. {[fact |-> f, code |-> IF f.payee \in E THEN f.payee ELSE Unclassified, amount |-> f.amount] :
              f \in InScope(H, Scope)}
            = {[fact |-> f, code |-> IF f.payee \in PayeesOf(F) THEN f.payee ELSE Unclassified, amount |-> f.amount] :
                  f \in InScope(F, Scope)}
      BY <2>4, <2>5
    <2>7. ViewByPayee(H, E, Scope) = ViewByPayee(F, PayeesOf(F), Scope)
      BY <2>6 DEF ViewByPayee
    <2>8. QED
      BY <2>7 DEF DuckViewByPayee, F, H, E
  <1>2. IInv => \A e \in Registered : CorrectedInPlace(FactsOf(asOf[e])) =>
               DuckViewByPayee(e) = ViewByPayee(FactsOf(asOf[e]), PayeesOf(FactsOf(asOf[e])), Scope)
    BY <1>1
  <1>3. QED
    BY <1>2, Invariance, PTL

\* The facts an export holds, and those of the moment they were read at, are finitely
\* many, with integer amounts.
LEMMA FactsAreFinite ==
  ASSUME NEW T, T \subseteq Transactions
  PROVE  IsFiniteSet(FactsOf(T)) /\ FactsOf(T) \subseteq FactPool /\ \A f \in FactsOf(T) : f.amount \in Int
  <1>1. FactsOf(T) \subseteq FactPool
    BY FactsGrow DEF FactPool
  <1>2. QED
    BY <1>1, FS_Subset, TransactionsAssumption

\* Both views of an export mirror the store's, the scheme view in total and in count,
\* which no assignment that was read late can change.
THEOREM DuckMirrorsTheStore == Spec => []DuckMirrorsStore
  <1>1. ASSUME IInv, NEW e \in Registered, CorrectedInPlace(FactsOf(asOf[e]))
        PROVE  LET byScheme == ViewByScheme(FactsOf(asOf[e]), AsgOf(asOf[e]), Scope, Scheme)
               IN  /\ DuckViewByScheme(e).total = byScheme.total
                   /\ DuckViewByScheme(e).count = byScheme.count
    <2> DEFINE F == FactsOf(asOf[e])
               H == held[e]["facts"]
               v == ViewByScheme(H, held[e]["assignments"], Scope, Scheme)
               w == ViewByScheme(F, AsgOf(asOf[e]), Scope, Scheme)
    <2>1. e \in Exports /\ HasRead(e, "facts") /\ "facts" \in TableNames
      BY <1>1, RegisteredHasRead DEF TableNames
    <2>2. H = InPartition(F) /\ asOf[e] \subseteq Transactions
      BY <1>1, <2>1 DEF IInv, TypeOK, HeldStays
    <2>3. InScope(H, Scope) = InScope(F, Scope)
      BY <1>1, <2>2, ScopeInPartition
    <2>4. IsFiniteSet(F) /\ \A f \in F : f.amount \in Int
      BY <2>2, FactsAreFinite
    <2>5. H \subseteq F
      BY <2>2 DEF InPartition
    <2>6. IsFiniteSet(H) /\ \A f \in H : f.amount \in Int
      <3> HIDE DEF H, F
      <3>1. QED
        BY <2>4, <2>5, FS_Subset
    <2>7. v.total = AmountOf(InScope(H, Scope)) /\ v.count = Cardinality(InScope(H, Scope))
      <3> HIDE DEF H
      <3>1. QED
        BY <2>6, ViewBySchemeCountsAll
    <2>8. w.total = AmountOf(InScope(F, Scope)) /\ w.count = Cardinality(InScope(F, Scope))
      <3> HIDE DEF F
      <3>1. QED
        BY <2>4, ViewBySchemeCountsAll
    <2>9. v.total = w.total /\ v.count = w.count
      <3> HIDE DEF H, F, v, w
      <3>1. QED
        BY <2>3, <2>7, <2>8
    <2>10. QED
      BY <2>9 DEF DuckViewByScheme
  <1>2. IInv /\ (\A e \in Registered : CorrectedInPlace(FactsOf(asOf[e])) =>
                   DuckViewByPayee(e) = ViewByPayee(FactsOf(asOf[e]), PayeesOf(FactsOf(asOf[e])), Scope))
          => DuckMirrorsStore
    BY <1>1 DEF DuckMirrorsStore
  <1>3. QED
    BY <1>2, Invariance, PayeeViewIsTheStores, PTL
=============================================================================
