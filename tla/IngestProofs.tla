---------------------------- MODULE IngestProofs ----------------------------
(***************************************************************************)
(* Theorems about module Ingest, for every set of years, every concurrency *)
(* limit, every number of attempts, every document an adapter may emit and *)
(* every combination of faults.                                            *)
(***************************************************************************)
EXTENDS Ingest, TLAPS

-----------------------------------------------------------------------------
(***************************************************************************)
(* Lemmas about documents, rows and keys.                                  *)
(***************************************************************************)

\* The keys of a union of row sets are the union of their keys.
LEMMA KeysOfUnion == ASSUME NEW A, NEW B PROVE Keys(A \cup B) = Keys(A) \cup Keys(B)
  BY DEF Keys, L!Keys

\* A row's key is among the keys of any set it is in.
LEMMA KeyInKeys == ASSUME NEW A, NEW r \in A PROVE Key(r) \in Keys(A)
  BY DEF Keys, L!Keys, Key

\* An item of a document is a member of Item, and so is the next one.
LEMMA ItemType ==
  ASSUME NEW d \in Document, NEW i \in 1 .. Len(d.items)
  PROVE  d.items[i] \in Item
  <1>1. d.items \in Seq(Item)
    BY DEF Document
  <1>2. QED
    BY <1>1

\* The placeholder before the adapter answers is a document.
LEMMA NoDocType == NoDoc \in Document
  <1>1. <<>> \in Seq(Item)
    OBVIOUS
  <1>2. QED
    BY <1>1 DEF NoDoc, Document

\* The row an item becomes is a row.
LEMMA RowOfType ==
  ASSUME TypeOK, NEW y \in Years, NEW it \in Item
  PROVE  RowOf(y, it) \in Row
  <1>1. Run(y) \in RunIds
    BY DEF TypeOK, Run, RunIds
  <1>2. it.table \in Tables /\ it.key \in ItemKeys /\ it.refs \subseteq RowKeys
    BY DEF Item, RowKeys
  <1>3. L!RunKey(Run(y)) \in RowKeys
    BY <1>1 DEF L!RunKey, RowKeys
  <1>4. (it.refs \cup (IF it.table \in {"snap", "fact"} THEN {L!RunKey(Run(y))} ELSE {}))
          \in SUBSET RowKeys
    BY <1>2, <1>3
  <1>5. QED
    BY <1>1, <1>2, <1>4 DEF RowOf, Row

\* The run's own row is a row.
LEMMA RunRowType ==
  ASSUME TypeOK, NEW y \in Years
  PROVE  RunRow(y) \in Row
  <1>1. Run(y) \in RunIds
    BY DEF TypeOK, Run, RunIds
  <1>2. QED
    BY <1>1 DEF RunRow, Row

-----------------------------------------------------------------------------
(***************************************************************************)
(* Type correctness.                                                       *)
(***************************************************************************)
\* The initial state has the right types.
LEMMA TypeInit == Init => TypeOK
  BY NoDocType, YearsAssumption, MaxAttemptsAssumption
  DEF Init, TypeOK, Stages, NoDoc

\* A failing year keeps the types.
LEMMA TypeFails ==
  ASSUME TypeOK, NEW y \in Years, Fails(y)
  PROVE  TypeOK'
  BY DEF TypeOK, Fails, Goto, store, Stages

\* No step of a year, failing ones included, leaves the types.
LEMMA TypeYearStep ==
  ASSUME TypeOK, NEW y \in Years, YearStep(y) \/ InfraFailure(y)
  PROVE  TypeOK'
  <1>1. CASE Launch(y)
    BY <1>1 DEF TypeOK, Launch, Goto, store, Stages
  <1>2. CASE Info(y)
    BY <1>2 DEF TypeOK, Info, Goto, store, Stages
  <1>3. CASE Fetch(y)
    <2>1. doc' \in [Years -> Document]
      BY <1>3, OutputsAssumption DEF TypeOK, Fetch
    <2>2. QED
      BY <1>3, <2>1 DEF TypeOK, Fetch, Goto, store, Stages
  <1>4. CASE Verify(y)
    BY <1>4 DEF TypeOK, Verify, Goto, store, Stages
  <1>5. CASE RecordFailed(y)
    BY <1>5 DEF TypeOK, RecordFailed, Goto, Stages, Run, RunIds
  <1>6. CASE Upload(y)
    <2>1. CASE Fails(y)
      BY <2>1, TypeFails
    <2>2. CASE ~ Fails(y)
      <3>1. Len(doc[y].items) \in Nat /\ at[y] \in 1 .. Len(doc[y].items)
        BY <1>6 DEF TypeOK, Upload, Uploading, More, Items, Document
      <3>2. NextItem(y) \in Item
        BY <3>1, ItemType DEF TypeOK, NextItem, Items
      <3>3. <<y, NextItem(y).key>> \in Years \X ItemKeys
        BY <3>2 DEF Item
      <3>4. objects' \subseteq Years \X ItemKeys
        BY <1>6, <2>2, <3>3 DEF TypeOK, Upload
      <3>5. at' \in [Years -> Nat \ {0}]
        BY <1>6, <2>2, <3>1 DEF TypeOK, Upload
      <3>6. QED
        BY <1>6, <2>2, <3>4, <3>5 DEF TypeOK, Upload
    <2>3. QED
      BY <2>1, <2>2
  <1>7. CASE Begin(y)
    BY <1>7, RunRowType DEF TypeOK, Begin, Goto, store, Stages
  <1>8. CASE Insert(y)
    <2>1. CASE Fails(y)
      BY <2>1, TypeFails
    <2>2. CASE ~ Fails(y)
      <3>1. Len(doc[y].items) \in Nat /\ at[y] \in 1 .. Len(doc[y].items)
        BY <1>8 DEF TypeOK, Insert, More, Items, Document
      <3>2. NextItem(y) \in Item
        BY <3>1, ItemType DEF TypeOK, NextItem, Items
      <3>3. RowOf(y, NextItem(y)) \in Row
        BY <3>2, RowOfType
      <3>4. pending' \in [Years -> SUBSET Row]
        BY <1>8, <2>2, <3>3 DEF TypeOK, Insert
      <3>5. at' \in [Years -> Nat \ {0}]
        BY <1>8, <2>2, <3>1 DEF TypeOK, Insert
      <3>6. QED
        BY <1>8, <2>2, <3>4, <3>5 DEF TypeOK, Insert, store
    <2>3. QED
      BY <2>1, <2>2
  <1>9. CASE Commit(y)
    <2>1. rows' \subseteq Row /\ pending' \in [Years -> SUBSET Row]
      BY <1>9 DEF TypeOK, Commit
    <2>2. result' \in [Years -> {"none", "succeeded", "failed", "error"}]
      BY <1>9 DEF TypeOK, Commit
    <2>3. QED
      BY <1>9, <2>1, <2>2 DEF TypeOK, Commit, Goto, Stages
  <1>10. CASE Interrupted(y) \/ DeadlockVictim(y) \/ InfraFailure(y)
    BY <1>10, TypeFails DEF Interrupted, DeadlockVictim, InfraFailure
  <1>11. QED
    BY <1>1, <1>2, <1>3, <1>4, <1>5, <1>6, <1>7, <1>8, <1>9, <1>10 DEF YearStep

\* No step of the orchestrator leaves the types.
LEMMA TypeStep == TypeOK /\ [Next]_vars => TypeOK'
  <1> SUFFICES ASSUME TypeOK, [Next]_vars PROVE TypeOK'
    OBVIOUS
  <1>1. CASE \E y \in Years : YearStep(y) \/ InfraFailure(y)
    BY <1>1, TypeYearStep
  <1>2. CASE Exit
    BY <1>2 DEF TypeOK, Exit, local, store
  <1>3. CASE Crash
    BY <1>3, NoDocType DEF TypeOK, Crash, ForgetLocal, store, Stages, NoDoc
  <1>4. CASE Rerun
    BY <1>4, NoDocType, MaxAttemptsAssumption
    DEF TypeOK, Rerun, ForgetLocal, store, Stages, NoDoc
  <1>5. CASE UNCHANGED vars
    BY <1>5 DEF TypeOK, vars, local, store
  <1>6. QED
    BY <1>1, <1>2, <1>3, <1>4, <1>5 DEF Next, Finished

\* Every variable keeps the shape TypeOK gives it.
THEOREM TypeCorrect == Spec => []TypeOK
  <1>1. QED
    BY TypeInit, TypeStep, PTL DEF Spec

-----------------------------------------------------------------------------
(***************************************************************************)
(* The inductive invariant IInv.                                           *)
(***************************************************************************)
\* The invariant holds when the first backfill starts.
LEMMA InvInit == Init => IInv
  <1> SUFFICES ASSUME Init PROVE IInv
    OBVIOUS
  <1>1. TypeOK
    BY TypeInit
  <1>2. Progress
    BY DEF Init, Progress
  <1>3. Isolated
    BY DEF Init, Isolated, Keys, L!Keys
  <1>4. FreshRuns
    BY DEF Init, FreshRuns, Keys, L!Keys
  <1>5. OneRowPerKey /\ Provenance /\ RunsAtomic
    BY DEF Init, OneRowPerKey, Provenance, RunsAtomic
  <1>6. ReportedOutcomesHold /\ FailedYearAbortsNobody
    BY DEF Init, ReportedOutcomesHold, FailedYearAbortsNobody
  <1>7. QED
    BY <1>1, <1>2, <1>3, <1>4, <1>5, <1>6 DEF IInv

\* An open transaction survives the steps of other years: what it sees only
\* grows, and nobody commits a key it holds.
LEMMA TransactionFrame ==
  ASSUME NEW z \in Years, OpenTransaction(z),
         attempt' = attempt, doc'[z] = doc[z], at'[z] = at[z], pending'[z] = pending[z],
         rows \subseteq rows', objects \subseteq objects',
         \A r \in pending[z] : Key(r) \notin Keys(rows')
  PROVE  OpenTransaction(z)'
  <1>1. Items(z)' = Items(z) /\ Run(z)' = Run(z) /\ RunRow(z)' = RunRow(z)
    BY DEF Items, Run, RunRow
  <1>2. DocKeys(z)' = DocKeys(z)
    BY <1>1 DEF DocKeys, Key, L!Key
  <1>3. Visible(z) \subseteq Visible(z)'
    BY DEF Visible, Keys, L!Keys, L!Key
  <1>4. AllUploaded(z)'
    BY <1>1 DEF OpenTransaction, AllUploaded
  <1>5. \A r \in pending[z] : Key(r) \notin Keys(rows)'
    BY DEF Keys, L!Keys, Key, L!Key
  <1>6. \A i \in 1 .. at[z] - 1 : Key(Items(z)[i]) \in Visible(z)'
    BY <1>3 DEF OpenTransaction
  <1>7. \A r \in pending[z] : r.refs \subseteq Visible(z)' \cup DocKeys(z)
    BY <1>3 DEF OpenTransaction
  <1>8. QED
    BY <1>1, <1>2, <1>4, <1>5, <1>6, <1>7 DEF OpenTransaction, Key, L!Key

\* The other invariants follow the ledger, which most steps leave alone.
LEMMA LedgerFrame ==
  ASSUME IInv, UNCHANGED <<attempt, rows, failed>>, objects \subseteq objects'
  PROVE  /\ OneRowPerKey' /\ Provenance' /\ RunsAtomic'
         /\ (\A r \in rows : r.by.attempt <= attempt /\ (r.table = "run" => r.key = r.by))'
         /\ (\A run \in failed : run.attempt <= attempt)'
  <1>1. OneRowPerKey'
    BY DEF IInv, OneRowPerKey, Key, L!Key
  <1>2. Provenance'
    BY DEF IInv, Provenance, Keys, L!Keys, L!Key, L!StorageKey
  <1>3. RunsAtomic'
    BY DEF IInv, RunsAtomic, Keys, L!Keys, L!Key, L!RunKey
  <1>4. QED
    BY <1>1, <1>2, <1>3 DEF IInv, FreshRuns

\* A year that fails leaves no transaction behind.
LEMMA InvFails ==
  ASSUME IInv, NEW y \in Years, Fails(y), pc[y] \notin {"idle", "done"}
  PROVE  IInv'
  <1>1. TypeOK'
    BY TypeFails DEF IInv
  <1>2. Progress'
    <2>1. ASSUME NEW z \in Years, pc'[z] = "insert" PROVE OpenTransaction(z)'
      <3>1. z # y /\ pc[z] = "insert" /\ OpenTransaction(z)
        BY <2>1 DEF Fails, Goto, IInv, TypeOK, Progress
      <3>2. \A r \in pending[z] : Key(r) \notin Keys(rows')
        BY <3>1 DEF OpenTransaction, Fails, store
      <3>3. QED
        BY <3>1, <3>2, TransactionFrame DEF Fails, store, IInv, TypeOK
    <2>2. QED
      BY <2>1 DEF Fails, Goto, store, IInv, TypeOK, Progress, Items, InWriteOrder
  <1>3. Isolated'
    BY DEF Fails, IInv, TypeOK, Isolated, Keys, L!Keys
  <1>4. FreshRuns'
    BY LedgerFrame
    DEF Fails, Goto, store, IInv, TypeOK, FreshRuns, Run, Keys, L!Keys, L!RunKey
  <1>5. ReportedOutcomesHold'
    BY DEF Fails, Goto, store, IInv, TypeOK, ReportedOutcomesHold, Progress, Items, Run, Keys,
           L!Keys, L!RunKey, Key, L!Key
  <1>6. FailedYearAbortsNobody'
    BY DEF Fails, IInv, TypeOK, FailedYearAbortsNobody
  <1>7. QED
    BY <1>1, <1>2, <1>3, <1>4, <1>5, <1>6, LedgerFrame DEF IInv, Fails, store

\* Launch, Info, Fetch and Verify move one year on before it touches storage.
LEMMA InvEarly ==
  ASSUME IInv, NEW y \in Years, Launch(y) \/ Info(y) \/ Fetch(y) \/ Verify(y)
  PROVE  IInv'
  <1>1. TypeOK'
    BY TypeYearStep DEF IInv, YearStep
  <1>2. /\ UNCHANGED <<attempt, proc, ctx, at, pending, result, rows, failed, objects>>
        /\ pc' = [pc EXCEPT ![y] = pc'[y]]
        /\ pc[y] \in {"idle", "info", "fetch", "verify"}
        /\ pc'[y] \in {"info", "fetch", "verify", "record", "upload"}
        /\ pc'[y] = "upload" => pc[y] = "verify"
        /\ proc = "running"
        /\ \A z \in Years : z # y => doc'[z] = doc[z]
        /\ pc'[y] \notin {"verify"} => doc' = doc
        /\ pc'[y] = "verify" => InWriteOrder(doc'[y])
    BY OutputsAssumption DEF IInv, TypeOK, Progress, Launch, Info, Fetch, Verify, Goto, store
  <1>3. Progress'
    <2>1. ASSUME NEW z \in Years, pc'[z] = "insert" PROVE OpenTransaction(z)'
      <3>1. z # y /\ pc[z] = "insert" /\ OpenTransaction(z)
        BY <1>2, <2>1 DEF IInv, TypeOK, Progress
      <3>2. \A r \in pending[z] : Key(r) \notin Keys(rows')
        BY <1>2, <3>1 DEF OpenTransaction
      <3>3. QED
        BY <1>2, <3>1, <3>2, TransactionFrame DEF IInv, TypeOK
    <2>2. ASSUME NEW z \in Years, pc'[z] = "upload", NEW i \in 1 .. Len(Items(z)'), i < at'[z]
          PROVE  Items(z)'[i].table = "snap" /\ <<z, Items(z)'[i].key>> \in objects'
      <3>1. doc[z] = doc'[z] /\ Items(z)' = Items(z) /\ at'[z] = at[z]
        BY <1>2, <2>2 DEF IInv, TypeOK, Items
      <3>2. CASE z = y
        BY <1>2, <2>2, <3>1, <3>2 DEF IInv, TypeOK, Progress
      <3>3. CASE z # y
        <4>1. pc[z] = "upload"
          BY <1>2, <2>2, <3>3 DEF IInv, TypeOK
        <4>2. i \in 1 .. Len(Items(z)) /\ i < at[z]
          BY <2>2, <3>1
        <4>3. Items(z)[i].table = "snap" /\ <<z, Items(z)[i].key>> \in objects
          BY <4>1, <4>2 DEF IInv, Progress
        <4>4. QED
          BY <1>2, <3>1, <4>3
      <3>4. QED
        BY <3>2, <3>3
    <2>3. ASSUME NEW z \in Years, pc'[z] \in {"verify", "upload", "insert"}
          PROVE  InWriteOrder(doc[z])'
      BY <1>2, <2>3 DEF IInv, TypeOK, Progress, InWriteOrder
    <2>4. \A z \in Years : pc'[z] # "insert" => pending'[z] = {}
      BY <1>2 DEF IInv, TypeOK, Progress
    <2>5. \A z \in Years : pc'[z] \in {"idle", "info", "fetch", "verify"} => at'[z] = 1
      BY <1>2 DEF IInv, TypeOK, Progress
    <2>6. \A z \in Years : (pc'[z] # "done" => result'[z] = "none")
                            /\ (pc'[z] = "done" => result'[z] # "none")
      BY <1>2 DEF IInv, TypeOK, Progress
    <2>7. QED
      BY <1>2, <2>1, <2>2, <2>3, <2>4, <2>5, <2>6 DEF Progress
  <1>4. Isolated'
    BY <1>2 DEF IInv, Isolated, Keys, L!Keys
  <1>5. FreshRuns'
    BY <1>2, LedgerFrame DEF IInv, TypeOK, FreshRuns, Run, Keys, L!Keys, L!RunKey
  <1>6. ReportedOutcomesHold'
    <2>1. ASSUME NEW z \in Years, result[z] = "succeeded" PROVE z # y
      BY <1>2, <2>1 DEF IInv, Progress
    <2>2. QED
      BY <1>2, <2>1 DEF IInv, ReportedOutcomesHold, Items, Run, Keys, L!Keys, L!RunKey, Key, L!Key
  <1>7. FailedYearAbortsNobody'
    BY <1>2 DEF IInv, FailedYearAbortsNobody
  <1>8. QED
    BY <1>1, <1>2, <1>3, <1>4, <1>5, <1>6, <1>7, LedgerFrame DEF IInv

\* Recording a failed run touches no row: the year had published nothing.
LEMMA InvRecordFailed ==
  ASSUME IInv, NEW y \in Years, RecordFailed(y)
  PROVE  IInv'
  <1> USE DEF RecordFailed, Goto
  <1>1. TypeOK'
    BY TypeYearStep DEF IInv, YearStep
  <1>2. proc = "running" /\ Run(y) \notin failed /\ L!RunKey(Run(y)) \notin Keys(rows)
    BY DEF IInv, Progress, FreshRuns
  <1>3. Progress'
    <2>1. ASSUME NEW z \in Years, pc'[z] = "insert" PROVE OpenTransaction(z)'
      <3>1. z # y /\ pc[z] = "insert" /\ OpenTransaction(z)
        BY <2>1 DEF IInv, TypeOK, Progress
      <3>2. \A r \in pending[z] : Key(r) \notin Keys(rows')
        BY <3>1 DEF OpenTransaction
      <3>3. QED
        BY <3>1, <3>2, TransactionFrame DEF IInv, TypeOK
    <2>2. QED
      BY <2>1 DEF IInv, TypeOK, Progress, Items, InWriteOrder
  <1>4. Isolated'
    BY DEF IInv, Isolated, Keys, L!Keys
  <1>5. FreshRuns'
    BY DEF IInv, TypeOK, FreshRuns, Run, Keys, L!Keys, L!RunKey
  <1>6. OneRowPerKey'
    BY DEF IInv, OneRowPerKey, Key, L!Key
  <1>7. Provenance'
    BY DEF IInv, Provenance, Keys, L!Keys, L!Key, L!StorageKey
  <1>8. RunsAtomic'
    BY <1>2 DEF IInv, RunsAtomic, Keys, L!Keys, L!Key, L!RunKey
  <1>9. ReportedOutcomesHold'
    BY <1>2 DEF IInv, TypeOK, ReportedOutcomesHold, Items, Run, Keys, L!Keys, L!RunKey, Key, L!Key
  <1>10. FailedYearAbortsNobody'
    BY DEF IInv, TypeOK, FailedYearAbortsNobody, Progress
  <1>11. QED
    BY <1>1, <1>3, <1>4, <1>5, <1>6, <1>7, <1>8, <1>9, <1>10 DEF IInv

\* An upload only adds an object: it is the document's next snapshot.
LEMMA InvUpload ==
  ASSUME IInv, NEW y \in Years, Upload(y)
  PROVE  IInv'
  <1>1. CASE Fails(y)
    BY <1>1, InvFails DEF Upload
  <1>2. CASE ~ Fails(y)
    <2>1. /\ UNCHANGED <<attempt, proc, ctx, pc, doc, pending, result, rows, failed>>
          /\ objects' = objects \cup {<<y, NextItem(y).key>>}
          /\ at' = [at EXCEPT ![y] = @ + 1]
          /\ pc[y] = "upload"
          /\ NextItem(y).table = "snap"
      BY <1>2 DEF Upload, Uploading
    <2>2. TypeOK'
      BY TypeYearStep DEF IInv, YearStep
    <2>3. Progress'
      <3>1. ASSUME NEW z \in Years, pc'[z] = "insert" PROVE OpenTransaction(z)'
        <4>1. z # y /\ pc[z] = "insert" /\ OpenTransaction(z)
          BY <2>1, <3>1 DEF IInv, Progress
        <4>2. \A r \in pending[z] : Key(r) \notin Keys(rows')
          BY <2>1, <4>1 DEF OpenTransaction
        <4>3. QED
          BY <2>1, <4>1, <4>2, TransactionFrame DEF IInv, TypeOK
      <3>2. ASSUME NEW z \in Years, pc'[z] = "upload", NEW i \in 1 .. Len(Items(z)'), i < at'[z]
            PROVE  Items(z)'[i].table = "snap" /\ <<z, Items(z)'[i].key>> \in objects'
        <4>1. Items(z)' = Items(z)
          BY <2>1 DEF Items
        <4>2. CASE z = y /\ i = at[y]
          BY <2>1, <4>1, <4>2 DEF NextItem
        <4>3. CASE z # y \/ i # at[y]
          <5>1. i < at[z]
            BY <2>1, <3>2, <4>3 DEF IInv, TypeOK
          <5>2. QED
            BY <2>1, <3>2, <4>1, <5>1 DEF IInv, Progress
        <4>4. QED
          BY <4>2, <4>3
      <3>3. QED
        BY <2>1, <3>1, <3>2 DEF IInv, TypeOK, Progress, InWriteOrder
    <2>4. Isolated'
      BY <2>1 DEF IInv, Isolated, Keys, L!Keys
    <2>5. FreshRuns'
      BY <2>1, LedgerFrame DEF IInv, FreshRuns, Run, Keys, L!Keys, L!RunKey
    <2>6. ReportedOutcomesHold'
      BY <2>1 DEF IInv, ReportedOutcomesHold, Items, Run, Keys, L!Keys, L!RunKey, Key, L!Key
    <2>7. FailedYearAbortsNobody'
      BY <2>1 DEF IInv, FailedYearAbortsNobody
    <2>8. QED
      BY <2>1, <2>2, <2>3, <2>4, <2>5, <2>6, <2>7, LedgerFrame DEF IInv
  <1>3. QED
    BY <1>1, <1>2

\* When the snapshots at the head of the document are stored, all of them are.
LEMMA SnapshotsFirst ==
  ASSUME IInv, NEW y \in Years, pc[y] = "upload", ~ Uploading(y)
  PROVE  AllUploaded(y)
  <1> SUFFICES ASSUME NEW i \in 1 .. Len(Items(y)), Items(y)[i].table = "snap"
               PROVE  <<y, Items(y)[i].key>> \in objects
    BY DEF AllUploaded
  <1>1. doc[y] \in Document /\ InWriteOrder(doc[y]) /\ Len(Items(y)) \in Nat /\ at[y] \in Nat \ {0}
    BY DEF IInv, TypeOK, Progress, Document, Items
  <1>2. CASE i < at[y]
    BY <1>2 DEF IInv, Progress
  <1>3. CASE ~ (i < at[y])
    <2>1. at[y] \in 1 .. Len(Items(y)) /\ at[y] <= i
      BY <1>1, <1>3
    <2>2. NextItem(y).table # "snap"
      BY <2>1 DEF Uploading, More
    <2>3. NextItem(y).table \in Tables
      BY <1>1, <2>1, ItemType DEF NextItem, Items, Item
    <2>4. Rank[NextItem(y).table] <= Rank["snap"]
      <3>1. CASE at[y] = i
        BY <2>2, <3>1 DEF NextItem
      <3>2. CASE at[y] < i
        BY <1>1, <2>1, <3>2 DEF InWriteOrder, NextItem, Items
      <3>3. QED
        BY <1>1, <2>1, <3>1, <3>2
    <2>5. QED
      BY <2>2, <2>3, <2>4 DEF Rank, Tables
  <1>4. QED
    BY <1>2, <1>3

\* Opening the transaction: its first row is the run's own, under a fresh key.
LEMMA InvBegin ==
  ASSUME IInv, NEW y \in Years, Begin(y)
  PROVE  IInv'
  <1>1. /\ UNCHANGED <<attempt, proc, ctx, doc, result, rows, failed, objects>>
        /\ pending' = [pending EXCEPT ![y] = {RunRow(y)}]
        /\ at' = [at EXCEPT ![y] = 1]
        /\ pc' = [pc EXCEPT ![y] = "insert"]
        /\ pc[y] = "upload"
        /\ ~ Uploading(y)
    BY DEF Begin, Goto, store
  <1>2. TypeOK'
    BY TypeYearStep DEF IInv, YearStep, Begin
  <1>3. proc = "running" /\ L!RunKey(Run(y)) \notin Keys(rows) /\ pending[y] = {}
    BY <1>1 DEF IInv, TypeOK, Progress, FreshRuns
  <1>4. pending'[y] = {RunRow(y)} /\ Key(RunRow(y)) = L!RunKey(Run(y))
    BY <1>1 DEF IInv, TypeOK, RunRow, Key, L!Key, L!RunKey
  <1>5. OpenTransaction(y)'
    <2>1. AllUploaded(y)'
      BY <1>1, SnapshotsFirst DEF AllUploaded, Items
    <2>2. at'[y] = 1 /\ Len(Items(y)') \in Nat /\ RunRow(y)' = RunRow(y)
      BY <1>1 DEF IInv, TypeOK, Items, Document, RunRow, Run
    <2>3. RunRow(y).refs = {}
      BY DEF RunRow
    <2>4. Key(RunRow(y)) \notin Keys(rows)'
      BY <1>1, <1>3, <1>4 DEF Keys, L!Keys
    <2>5. QED
      BY <1>4, <2>1, <2>2, <2>3, <2>4 DEF OpenTransaction, Key, L!Key
  <1>6. Progress'
    <2>1. ASSUME NEW z \in Years, pc'[z] = "insert" PROVE OpenTransaction(z)'
      <3>1. CASE z = y
        BY <1>5, <3>1
      <3>2. CASE z # y
        <4>1. pc[z] = "insert" /\ OpenTransaction(z)
          BY <1>1, <2>1, <3>2 DEF IInv, TypeOK, Progress
        <4>2. \A r \in pending[z] : Key(r) \notin Keys(rows')
          BY <1>1, <4>1 DEF OpenTransaction
        <4>3. QED
          BY <1>1, <3>2, <4>1, <4>2, TransactionFrame DEF IInv, TypeOK
      <3>3. QED
        BY <3>1, <3>2
    <2>2. QED
      BY <1>1, <1>3, <2>1 DEF IInv, TypeOK, Progress, InWriteOrder, Items
  <1>7. Isolated'
    <2>1. ASSUME NEW z \in Years, z # y PROVE L!RunKey(Run(y)) \notin Keys(pending[z])
      <3>1. CASE pc[z] # "insert"
        BY <3>1 DEF IInv, Progress, Keys, L!Keys
      <3>2. CASE pc[z] = "insert"
        <4>1. \A r \in pending[z] : r = RunRow(z) \/ r.table # "run"
          BY <3>2 DEF IInv, Progress, OpenTransaction
        <4>2. Run(z) # Run(y)
          BY <2>1 DEF Run
        <4>3. QED
          BY <4>1, <4>2 DEF Keys, L!Keys, L!Key, L!RunKey, RunRow
      <3>3. QED
        BY <3>1, <3>2
    <2>2. Keys({RunRow(y)}) = {L!RunKey(Run(y))}
      BY <1>4 DEF Keys, L!Keys, Key
    <2>3. \A z \in Years : z # y => pending'[z] = pending[z]
      BY <1>1 DEF IInv, TypeOK
    <2>4. \A z \in Years : Keys(pending[z])' = IF z = y THEN {L!RunKey(Run(y))} ELSE Keys(pending[z])
      BY <1>4, <2>2, <2>3 DEF Keys, L!Keys
    <2>5. QED
      BY <2>1, <2>4 DEF IInv, Isolated
  <1>8. FreshRuns'
    BY <1>1, LedgerFrame DEF IInv, TypeOK, FreshRuns, Run, Keys, L!Keys, L!RunKey
  <1>9. ReportedOutcomesHold'
    BY <1>1 DEF IInv, ReportedOutcomesHold, Items, Run, Keys, L!Keys, L!RunKey, Key, L!Key
  <1>10. FailedYearAbortsNobody'
    BY <1>1 DEF IInv, FailedYearAbortsNobody
  <1>11. QED
    BY <1>1, <1>2, <1>6, <1>7, <1>8, <1>9, <1>10, LedgerFrame DEF IInv

\* An insert adds a row under a key no other transaction holds, or finds the
\* key taken by a row it can see.
LEMMA InvInsert ==
  ASSUME IInv, NEW y \in Years, Insert(y)
  PROVE  IInv'
  <1>1. CASE Fails(y)
    BY <1>1, InvFails DEF Insert
  <1>2. CASE ~ Fails(y)
    <2> DEFINE r == RowOf(y, NextItem(y))
               P == IF Key(r) \in Visible(y) THEN pending[y] ELSE pending[y] \cup {r}
    <2>1. /\ UNCHANGED <<attempt, proc, ctx, pc, doc, result, rows, failed, objects>>
          /\ at' = [at EXCEPT ![y] = @ + 1]
          /\ pending' = [pending EXCEPT ![y] = P]
          /\ pc[y] = "insert" /\ More(y) /\ ~ Blocked(y)
          /\ Key(r) \in Visible(y) \/ r.refs \subseteq Visible(y) \cup StatementKeys(y)
      BY <1>2 DEF Insert, store, Visible, IInv, TypeOK
    <2>2. TypeOK'
      BY TypeYearStep DEF IInv, YearStep
    <2>3. OpenTransaction(y) /\ at[y] \in 1 .. Len(Items(y)) /\ Len(Items(y)) \in Nat
      BY <2>1 DEF IInv, TypeOK, Progress, More, Items, Document
    <2>4. NextItem(y) \in Item
      BY <2>3, ItemType DEF IInv, TypeOK, NextItem, Items
    <2>5. /\ r.table # "run" /\ r.by = Run(y)
          /\ Key(r) = Key(NextItem(y)) /\ Key(r) \in DocKeys(y)
      BY <2>3, <2>4 DEF RowOf, Key, L!Key, DocKeys, NextItem, Item, Tables
    <2>6. \A z \in Years : z # y => Key(r) \notin Keys(pending[z])
      BY <2>1, <2>5 DEF Blocked, WaitsFor
    <2>7. StatementKeys(y) \subseteq DocKeys(y)
      BY <2>3 DEF StatementKeys, DocKeys
    <2>8. Visible(y) = Keys(rows) \cup Keys(pending[y])
      BY KeysOfUnion DEF Visible
    <2>9. pending'[y] = P /\ \A z \in Years : z # y => pending'[z] = pending[z]
      BY <2>1 DEF IInv, TypeOK
    <2> HIDE DEF r
    <2>10. Keys(P) = Keys(pending[y]) \cup (IF Key(r) \in Visible(y) THEN {} ELSE {Key(r)})
      BY DEF Keys, L!Keys, Key
    <2>11. Visible(y)' = Visible(y) \cup {Key(r)}
      <3>1. Visible(y)' = Keys(rows) \cup Keys(P)
        BY <2>1, <2>9, KeysOfUnion DEF Visible, Keys, L!Keys
      <3>2. QED
        BY <2>8, <2>10, <3>1
    <2> HIDE DEF P
    <2>12. OpenTransaction(y)'
      <3>1. Items(y)' = Items(y) /\ RunRow(y)' = RunRow(y) /\ Run(y)' = Run(y)
        BY <2>1 DEF Items, RunRow, Run
      <3>2. DocKeys(y)' = DocKeys(y) /\ AllUploaded(y)'
        BY <2>1, <2>3, <3>1 DEF DocKeys, OpenTransaction, AllUploaded, Key, L!Key
      <3>3. at'[y] = at[y] + 1
        BY <2>1 DEF IInv, TypeOK
      <3>4. RunRow(y) \in P
        BY <2>3 DEF OpenTransaction, P
      <3>5. ASSUME NEW q \in P
            PROVE  /\ q = RunRow(y) \/ (q.table # "run" /\ q.by = Run(y) /\ Key(q) \in DocKeys(y))
                   /\ q.refs \subseteq Visible(y)' \cup DocKeys(y)
                   /\ Key(q) \notin Keys(rows)
        <4>1. CASE q \in pending[y]
          BY <2>3, <2>11, <4>1 DEF OpenTransaction
        <4>2. CASE q \notin pending[y]
          <5>1. q = r /\ Key(r) \notin Visible(y)
            BY <4>2 DEF P
          <5>2. QED
            BY <2>1, <2>5, <2>7, <2>8, <2>11, <5>1
        <4>3. QED
          BY <4>1, <4>2
      <3>6. ASSUME NEW q \in P, NEW u \in P, Key(q) = Key(u) PROVE q = u
        BY <2>3, <2>8, <3>6, KeyInKeys DEF OpenTransaction, P
      <3>7. \A i \in 1 .. at'[y] - 1 : Key(Items(y)[i]) \in Visible(y)'
        BY <2>3, <2>5, <2>11, <3>3 DEF OpenTransaction, NextItem
      <3>8. Keys(rows)' = Keys(rows)
        BY <2>1 DEF Keys, L!Keys
      <3>9. QED
        BY <2>3, <2>9, <3>1, <3>2, <3>3, <3>4, <3>5, <3>6, <3>7, <3>8
        DEF OpenTransaction, Key, L!Key
    <2>13. Progress'
      <3>1. ASSUME NEW z \in Years, pc'[z] = "insert" PROVE OpenTransaction(z)'
        <4>1. CASE z = y
          BY <2>12, <4>1
        <4>2. CASE z # y
          <5>1. OpenTransaction(z)
            BY <2>1, <3>1 DEF IInv, Progress
          <5>2. \A q \in pending[z] : Key(q) \notin Keys(rows')
            BY <2>1, <5>1 DEF OpenTransaction
          <5>3. QED
            BY <2>1, <2>9, <4>2, <5>1, <5>2, TransactionFrame DEF IInv, TypeOK
        <4>3. QED
          BY <4>1, <4>2
      <3>2. QED
        BY <2>1, <2>9, <3>1 DEF IInv, TypeOK, Progress, InWriteOrder, Items
    <2>14. Isolated'
      <3>1. \A z \in Years : Keys(pending[z])' =
              IF z = y THEN Keys(P) ELSE Keys(pending[z])
        BY <2>9 DEF Keys, L!Keys
      <3>2. QED
        BY <2>6, <2>10, <3>1 DEF IInv, Isolated
    <2>15. FreshRuns'
      BY <2>1, LedgerFrame DEF IInv, TypeOK, FreshRuns, Run, Keys, L!Keys, L!RunKey
    <2>16. ReportedOutcomesHold'
      BY <2>1 DEF IInv, ReportedOutcomesHold, Items, Run, Keys, L!Keys, L!RunKey, Key, L!Key
    <2>17. FailedYearAbortsNobody'
      BY <2>1 DEF IInv, FailedYearAbortsNobody
    <2>18. QED
      BY <2>1, <2>2, <2>13, <2>14, <2>15, <2>16, <2>17, LedgerFrame DEF IInv
  <1>3. QED
    BY <1>1, <1>2

\* What a commit adds: rows under new keys, all of one fresh run, the run's own
\* among them, with every reference resolved and every snapshot stored.
LEMMA CommitBatch ==
  ASSUME IInv, NEW y \in Years, Commit(y)
  PROVE  /\ rows' = rows \cup pending[y]
         /\ pc[y] = "insert" /\ OpenTransaction(y) /\ proc = "running"
         /\ Run(y) \notin failed /\ L!RunKey(Run(y)) \notin Keys(rows)
         /\ DocKeys(y) \subseteq Keys(rows')
         /\ Keys(rows') = Keys(rows) \cup Keys(pending[y])
         /\ L!RunKey(Run(y)) \in Keys(rows')
         /\ \A r \in pending[y] :
               /\ r.by = Run(y)
               /\ r.refs \subseteq Keys(rows')
               /\ r.table = "snap" => L!StorageKey(r) \in objects
               /\ r.table = "run" => r.key = r.by
               /\ Key(r) \notin Keys(rows)
  <1>1. rows' = rows \cup pending[y] /\ pc[y] = "insert" /\ ~ More(y)
    BY DEF Commit
  <1>2. OpenTransaction(y) /\ proc = "running"
    BY <1>1 DEF IInv, Progress
  <1>3. Run(y) \notin failed /\ L!RunKey(Run(y)) \notin Keys(rows)
    BY <1>1, <1>2 DEF IInv, FreshRuns
  <1>4. Keys(rows') = Keys(rows) \cup Keys(pending[y]) /\ Keys(rows') = Visible(y)
    BY <1>1, KeysOfUnion DEF Visible
  <1>5. at[y] = Len(Items(y)) + 1 /\ Len(Items(y)) \in Nat
    BY <1>1, <1>2 DEF OpenTransaction, More, IInv, TypeOK, Document, Items
  <1>6. DocKeys(y) \subseteq Keys(rows')
    BY <1>2, <1>4, <1>5 DEF OpenTransaction, DocKeys
  <1>7. L!RunKey(Run(y)) \in Keys(rows')
    BY <1>2, <1>4, KeyInKeys DEF OpenTransaction, RunRow, Key, L!Key, L!RunKey
  <1>8. ASSUME NEW r \in pending[y]
        PROVE  /\ r.by = Run(y)
               /\ r.refs \subseteq Keys(rows')
               /\ r.table = "snap" => L!StorageKey(r) \in objects
               /\ r.table = "run" => r.key = r.by
               /\ Key(r) \notin Keys(rows)
    <2>1. r.by = Run(y) /\ (r.table = "run" => r.key = r.by)
      BY <1>2 DEF OpenTransaction, RunRow
    <2>2. r.refs \subseteq Keys(rows') /\ Key(r) \notin Keys(rows)
      BY <1>2, <1>4, <1>6 DEF OpenTransaction
    <2>3. ASSUME r.table = "snap" PROVE L!StorageKey(r) \in objects
      <3>1. Key(r) \in DocKeys(y)
        BY <1>2, <2>3 DEF OpenTransaction, RunRow
      <3>2. PICK i \in 1 .. Len(Items(y)) : Key(r) = Key(Items(y)[i])
        BY <3>1 DEF DocKeys
      <3>3. Items(y)[i].table = "snap" /\ Items(y)[i].key = r.key
        BY <2>3, <3>2 DEF Key, L!Key
      <3>4. <<y, r.key>> \in objects
        BY <1>2, <3>3 DEF OpenTransaction, AllUploaded
      <3>5. QED
        BY <2>1, <3>4 DEF L!StorageKey, Run
    <2>4. QED
      BY <2>1, <2>2, <2>3
  <1>9. QED
    BY <1>1, <1>2, <1>3, <1>4, <1>6, <1>7, <1>8

\* A commit publishes the batch CommitBatch describes and ends the year.
LEMMA InvCommit ==
  ASSUME IInv, NEW y \in Years, Commit(y)
  PROVE  IInv'
  <1>1. /\ UNCHANGED <<attempt, proc, doc, failed, objects>>
        /\ pending' = [pending EXCEPT ![y] = {}]
        /\ at' = [at EXCEPT ![y] = 1]
        /\ pc' = [pc EXCEPT ![y] = "done"]
        /\ \/ result' = [result EXCEPT ![y] = "succeeded"] /\ ctx' = ctx
           \/ result' = [result EXCEPT ![y] = "error"] /\ ctx' = "cancelled"
    BY DEF Commit, Goto
  <1>2. TypeOK'
    BY TypeYearStep DEF IInv, YearStep
  <1>3. Keys(rows)' = Keys(rows) \cup Keys(pending[y])
    BY CommitBatch DEF Keys, L!Keys
  <1>4. Progress'
    <2>1. ASSUME NEW z \in Years, pc'[z] = "insert" PROVE OpenTransaction(z)'
      <3>1. z # y /\ pc[z] = "insert" /\ OpenTransaction(z)
        BY <1>1, <2>1 DEF IInv, TypeOK, Progress
      <3>2. \A r \in pending[z] : Key(r) \notin Keys(rows) /\ Key(r) \notin Keys(pending[y])
        BY <3>1, KeyInKeys DEF OpenTransaction, IInv, Isolated
      <3>3. \A r \in pending[z] : Key(r) \notin Keys(rows')
        BY <3>2, CommitBatch
      <3>4. QED
        BY <1>1, <3>1, <3>3, CommitBatch, TransactionFrame DEF IInv, TypeOK
    <2>2. /\ proc' = "running"
          /\ at' = [at EXCEPT ![y] = 1] /\ pc' = [pc EXCEPT ![y] = "done"]
          /\ pending' = [pending EXCEPT ![y] = {}]
          /\ \E o \in {"succeeded", "error"} : result' = [result EXCEPT ![y] = o]
          /\ UNCHANGED <<doc, objects>>
      BY <1>1, CommitBatch
    <2>3. TypeOK /\ Progress
      BY DEF IInv
    <2>4. \A z \in Years : pc'[z] # "insert" => pending'[z] = {}
      BY <2>2, <2>3 DEF TypeOK, Progress
    <2>5. \A z \in Years : pc'[z] \in {"verify", "upload", "insert"} => InWriteOrder(doc'[z])
      BY <2>2, <2>3 DEF TypeOK, Progress
    <2>6. \A z \in Years : pc'[z] = "upload" => z # y /\ pc[z] = "upload" /\ at'[z] = at[z]
      BY <2>2, <2>3 DEF TypeOK
    <2>7. ASSUME NEW z \in Years, pc'[z] = "upload", NEW i \in 1 .. Len(Items(z)'), i < at'[z]
          PROVE  Items(z)'[i].table = "snap" /\ <<z, Items(z)'[i].key>> \in objects'
      BY <2>2, <2>3, <2>6, <2>7 DEF Progress, Items
    <2>8. /\ \A z \in Years : pc'[z] \in {"idle", "info", "fetch", "verify"} => at'[z] = 1
          /\ \A z \in Years : pc'[z] # "done" => result'[z] = "none"
          /\ \A z \in Years : pc'[z] = "done" => result'[z] # "none"
      BY <2>2, <2>3 DEF TypeOK, Progress
    <2>9. QED
      BY <2>1, <2>2, <2>4, <2>5, <2>7, <2>8 DEF Progress, InWriteOrder
  <1>5. Isolated'
    BY <1>1 DEF IInv, TypeOK, Isolated, Keys, L!Keys
  <1>6. FreshRuns'
    <2>1. ASSUME NEW z \in Years, z # y PROVE L!RunKey(Run(z)) \notin Keys(pending[y])
      <3>1. \A r \in pending[y] : r = RunRow(y) \/ r.table # "run"
        BY CommitBatch DEF OpenTransaction
      <3>2. Run(z) # Run(y)
        BY <2>1 DEF Run
      <3>3. QED
        BY <3>1, <3>2 DEF Keys, L!Keys, L!Key, L!RunKey, RunRow
    <2>2. ASSUME NEW z \in Years, proc' = "running", pc'[z] # "done"
          PROVE  Run(z) \notin failed /\ L!RunKey(Run(z)) \notin Keys(rows)'
      BY <1>1, <1>3, <2>1, <2>2 DEF IInv, TypeOK, FreshRuns
    <2>3. ASSUME NEW r \in rows'
          PROVE  r.by.attempt <= attempt /\ (r.table = "run" => r.key = r.by)
      <3>1. CASE r \in rows
        BY <3>1 DEF IInv, FreshRuns
      <3>2. CASE r \in pending[y]
        <4>1. r.by = Run(y) /\ (r.table = "run" => r.key = r.by)
          BY <3>2, CommitBatch
        <4>2. Run(y).attempt = attempt /\ attempt \in Nat
          BY MaxAttemptsAssumption DEF Run, IInv, TypeOK
        <4>3. QED
          BY <4>1, <4>2
      <3>3. QED
        BY <2>3, <3>1, <3>2, CommitBatch
    <2>4. QED
      BY <1>1, <2>2, <2>3 DEF IInv, FreshRuns, Run, L!RunKey
  <1>7. OneRowPerKey'
    <2>1. ASSUME NEW r \in rows', NEW s \in rows', Key(r) = Key(s) PROVE r = s
      <3>1. CASE r \in rows /\ s \in rows
        BY <2>1, <3>1 DEF IInv, OneRowPerKey
      <3>2. CASE r \in pending[y] /\ s \in pending[y]
        BY <2>1, <3>2, CommitBatch DEF OpenTransaction
      <3>3. CASE (r \in rows /\ s \in pending[y]) \/ (s \in rows /\ r \in pending[y])
        BY <2>1, <3>3, CommitBatch, KeyInKeys
      <3>4. QED
        BY <3>1, <3>2, <3>3, CommitBatch
    <2>2. QED
      BY <2>1 DEF OneRowPerKey, Key, L!Key
  <1>8. Provenance'
    <2>1. ASSUME NEW r \in rows'
          PROVE  r.refs \subseteq Keys(rows') /\ (r.table = "snap" => L!StorageKey(r) \in objects)
      <3>1. CASE r \in rows
        BY <3>1, CommitBatch DEF IInv, Provenance
      <3>2. CASE r \in pending[y]
        BY <3>2, CommitBatch
      <3>3. QED
        BY <3>1, <3>2, CommitBatch
    <2>2. QED
      BY <1>1, <2>1 DEF Provenance, Keys, L!Keys, L!StorageKey
  <1>9. RunsAtomic'
    <2>1. ASSUME NEW r \in rows' PROVE L!RunKey(r.by) \in Keys(rows') /\ r.by \notin failed
      <3>1. CASE r \in rows
        BY <3>1, CommitBatch DEF IInv, RunsAtomic
      <3>2. CASE r \in pending[y]
        BY <3>2, CommitBatch
      <3>3. QED
        BY <3>1, <3>2, CommitBatch
    <2>2. QED
      BY <1>1, <2>1 DEF RunsAtomic, Keys, L!Keys, L!RunKey
  <1>10. ReportedOutcomesHold'
    <2>1. ASSUME NEW z \in Years, result'[z] = "succeeded"
          PROVE  /\ L!RunKey(Run(z)) \in Keys(rows')
                 /\ \A i \in 1 .. Len(Items(z)) : Key(Items(z)[i]) \in Keys(rows')
      <3>1. CASE z = y
        BY <3>1, CommitBatch DEF DocKeys
      <3>2. CASE z # y
        <4>1. result[z] = "succeeded"
          BY <1>1, <2>1, <3>2 DEF IInv, TypeOK
        <4>2. QED
          BY <4>1, CommitBatch DEF IInv, ReportedOutcomesHold
      <3>3. QED
        BY <3>1, <3>2
    <2>2. Keys(rows)' = Keys(rows')
      BY DEF Keys, L!Keys
    <2>3. \A z \in Years : result'[z] = "failed" => Run(z) \in failed
      BY <1>1 DEF IInv, TypeOK, ReportedOutcomesHold
    <2>4. proc' = "running"
      BY <1>1, CommitBatch
    <2>5. QED
      BY <1>1, <2>1, <2>2, <2>3, <2>4
      DEF ReportedOutcomesHold, Run, Items, L!RunKey, Key, L!Key
  <1>11. FailedYearAbortsNobody'
    BY <1>1, CommitBatch DEF IInv, TypeOK, FailedYearAbortsNobody, Progress
  <1>12. QED
    BY <1>2, <1>4, <1>5, <1>6, <1>7, <1>8, <1>9, <1>10, <1>11 DEF IInv

\* Exit, Crash and Rerun leave the ledger alone and forget local state.
LEMMA InvProcess ==
  ASSUME IInv, Exit \/ Crash \/ Rerun
  PROVE  IInv'
  <1>1. TypeOK'
    <2>1. TypeOK /\ [Next]_vars
      BY DEF IInv, Next
    <2>2. QED
      BY <2>1, TypeStep
  <1>2. UNCHANGED <<rows, failed, objects>>
    BY DEF Exit, Crash, Rerun, store
  <1>3. CASE Exit
    <2>1. UNCHANGED <<attempt, ctx, pc, doc, at, pending, result>>
          /\ \A y \in Years : pc[y] = "done"
      BY <1>3 DEF Exit, local
    <2>2. Progress'
      BY <1>2, <2>1 DEF IInv, Progress, Items, InWriteOrder
    <2>3. Isolated'
      BY <2>1 DEF IInv, Isolated, Keys, L!Keys
    <2>4. FreshRuns'
      BY <1>2, <2>1, LedgerFrame DEF IInv, FreshRuns
    <2>5. proc' = "exit0" => \A y \in Years : result[y] = "succeeded"
      <3>1. \A y \in Years : result[y] \in {"succeeded", "failed", "error"}
        BY <2>1 DEF IInv, TypeOK, Progress
      <3>2. QED
        BY <1>3, <3>1 DEF Exit
    <2>6. ReportedOutcomesHold'
      BY <1>2, <2>1, <2>5
      DEF IInv, ReportedOutcomesHold, Items, Run, Keys, L!Keys, L!RunKey, Key, L!Key
    <2>7. FailedYearAbortsNobody'
      BY <2>1 DEF IInv, FailedYearAbortsNobody
    <2>8. QED
      BY <1>1, <1>2, <2>1, <2>2, <2>3, <2>4, <2>6, <2>7, LedgerFrame DEF IInv
  <1>4. CASE Crash \/ Rerun
    <2>1. /\ ctx' = "live" /\ attempt' \in {attempt, attempt + 1}
          /\ proc' = "running" => attempt' = attempt + 1
          /\ proc' \in {"crashed", "running"}
          /\ pc' = [y \in Years |-> "idle"] /\ doc' = [y \in Years |-> NoDoc]
          /\ at' = [y \in Years |-> 1] /\ pending' = [y \in Years |-> {}]
          /\ result' = [y \in Years |-> "none"]
      BY <1>4 DEF Crash, Rerun, ForgetLocal
    <2>2. attempt \in Nat
      BY MaxAttemptsAssumption DEF IInv, TypeOK
    <2>3. Progress'
      BY <2>1 DEF Progress
    <2>4. Isolated'
      BY <2>1 DEF Isolated, Keys, L!Keys
    <2>5. (\A r \in rows : r.by.attempt <= attempt' /\ (r.table = "run" => r.key = r.by))
          /\ (\A run \in failed : run.attempt <= attempt')
      <3>1. rows \subseteq Row /\ failed \subseteq RunIds
        BY DEF IInv, TypeOK
      <3>2. \A r \in rows : r.by.attempt \in Nat
        BY <3>1, MaxAttemptsAssumption DEF Row, RunIds
      <3>3. \A run \in failed : run.attempt \in Nat
        BY <3>1, MaxAttemptsAssumption DEF RunIds
      <3>4. QED
        BY <2>1, <2>2, <3>2, <3>3 DEF IInv, FreshRuns
    <2>6. ASSUME NEW y \in Years, proc' = "running"
          PROVE  Run(y)' \notin failed /\ L!RunKey(Run(y)') \notin Keys(rows)
      <3>1. Run(y)'.attempt = attempt + 1
        BY <2>1, <2>6 DEF Run
      <3>2. Run(y)' \notin failed
        BY <2>2, <3>1 DEF IInv, FreshRuns
      <3>3. \A r \in rows : Key(r) = L!RunKey(Run(y)') => r.by = Run(y)'
        BY DEF IInv, FreshRuns, Key, L!Key, L!RunKey
      <3>4. QED
        BY <2>2, <3>1, <3>2, <3>3 DEF IInv, FreshRuns, Keys, L!Keys, Key
    <2>7. FreshRuns'
      BY <1>2, <2>5, <2>6 DEF FreshRuns, Keys, L!Keys, L!RunKey
    <2>8. ReportedOutcomesHold'
      BY <2>1 DEF ReportedOutcomesHold
    <2>9. FailedYearAbortsNobody'
      BY <2>1 DEF FailedYearAbortsNobody
    <2>10. OneRowPerKey'
      BY <1>2 DEF IInv, OneRowPerKey, Key, L!Key
    <2>11. Provenance'
      BY <1>2 DEF IInv, Provenance, Keys, L!Keys, L!Key, L!StorageKey
    <2>12. RunsAtomic'
      BY <1>2 DEF IInv, RunsAtomic, Keys, L!Keys, L!Key, L!RunKey
    <2>13. QED
      BY <1>1, <2>3, <2>4, <2>7, <2>8, <2>9, <2>10, <2>11, <2>12 DEF IInv
  <1>5. QED
    BY <1>3, <1>4

\* A stuttering step changes nothing the invariant speaks of.
LEMMA InvStutter == ASSUME IInv, UNCHANGED vars PROVE IInv'
  <1>1. UNCHANGED <<attempt, proc, ctx, pc, doc, at, pending, result, rows, failed, objects>>
    BY DEF vars, local, store
  <1>2. TypeOK'
    BY TypeStep DEF IInv
  <1>3. Progress'
    <2>1. ASSUME NEW z \in Years, pc'[z] = "insert" PROVE OpenTransaction(z)'
      <3>1. pc[z] = "insert" /\ OpenTransaction(z)
        BY <1>1, <2>1 DEF IInv, Progress
      <3>2. \A r \in pending[z] : Key(r) \notin Keys(rows')
        BY <1>1, <3>1 DEF OpenTransaction
      <3>3. QED
        BY <1>1, <3>1, <3>2, TransactionFrame
    <2>2. QED
      BY <1>1, <2>1 DEF IInv, Progress, InWriteOrder, Items
  <1>4. Isolated'
    BY <1>1 DEF IInv, Isolated, Keys, L!Keys
  <1>5. FreshRuns'
    BY <1>1 DEF IInv, FreshRuns, Run, Keys, L!Keys, L!RunKey
  <1>6. ReportedOutcomesHold'
    BY <1>1 DEF IInv, ReportedOutcomesHold, Items, Run, Keys, L!Keys, L!RunKey, Key, L!Key
  <1>7. FailedYearAbortsNobody'
    BY <1>1 DEF IInv, FailedYearAbortsNobody
  <1>8. QED
    BY <1>1, <1>2, <1>3, <1>4, <1>5, <1>6, <1>7, LedgerFrame DEF IInv

\* Every step preserves the invariant.
LEMMA InvStep == IInv /\ [Next]_vars => IInv'
  <1> SUFFICES ASSUME IInv, [Next]_vars PROVE IInv'
    OBVIOUS
  <1>1. ASSUME NEW y \in Years, YearStep(y) \/ InfraFailure(y) PROVE IInv'
    <2>1. CASE Launch(y) \/ Info(y) \/ Fetch(y) \/ Verify(y)
      BY <2>1, InvEarly
    <2>2. CASE RecordFailed(y)
      BY <2>2, InvRecordFailed
    <2>3. CASE Upload(y)
      BY <2>3, InvUpload
    <2>4. CASE Begin(y)
      BY <2>4, InvBegin
    <2>5. CASE Insert(y)
      BY <2>5, InvInsert
    <2>6. CASE Commit(y)
      BY <2>6, InvCommit
    <2>7. CASE Interrupted(y) \/ InfraFailure(y)
      BY <2>7, InvFails DEF Interrupted, InfraFailure
    <2>8. CASE DeadlockVictim(y)
      <3>1. pc[y] = "insert"
        BY <2>8 DEF DeadlockVictim, Deadlocked, WaitsFor
      <3>2. QED
        BY <2>8, <3>1, InvFails DEF DeadlockVictim
    <2>9. QED
      BY <1>1, <2>1, <2>2, <2>3, <2>4, <2>5, <2>6, <2>7, <2>8 DEF YearStep
  <1>2. CASE Exit \/ Crash \/ Rerun
    BY <1>2, InvProcess
  <1>3. CASE UNCHANGED vars
    BY <1>3, InvStutter
  <1>4. QED
    BY <1>1, <1>2, <1>3 DEF Next, Finished

\* THEOREM Invariance: IInv holds in every reachable state.
THEOREM Invariance == Spec => []IInv
  BY InvInit, InvStep, PTL DEF Spec

-----------------------------------------------------------------------------
(***************************************************************************)
(* The safety properties of module Ingest.                                 *)
(***************************************************************************)

\* No race of transactions commits two rows under one primary key.
THEOREM RowsAreUnique == Spec => []OneRowPerKey
  <1>1. IInv => OneRowPerKey
    BY DEF IInv
  <1>2. QED
    BY <1>1, Invariance, PTL

\* Every committed row can be followed to committed rows and stored bytes,
\* whatever crashed, failed or was interrupted on the way.
THEOREM ProvenanceHolds == Spec => []Provenance
  <1>1. IInv => Provenance
    BY DEF IInv
  <1>2. QED
    BY <1>1, Invariance, PTL

\* A run's rows are public exactly with its ingestion_run row.
THEOREM RunsAreAtomic == Spec => []RunsAtomic
  <1>1. IInv => RunsAtomic
    BY DEF IInv
  <1>2. QED
    BY <1>1, Invariance, PTL

\* What RunYear and the exit code report of a year is so in the ledger.
THEOREM OutcomesAreTrue == Spec => []ReportedOutcomesHold
  <1>1. IInv => ReportedOutcomesHold
    BY DEF IInv
  <1>2. QED
    BY <1>1, Invariance, PTL

\* A year recorded as failed never cancels its siblings.
THEOREM SiblingsSurvive == Spec => []FailedYearAbortsNobody
  <1>1. IInv => FailedYearAbortsNobody
    BY DEF IInv
  <1>2. QED
    BY <1>1, Invariance, PTL

-----------------------------------------------------------------------------
(***************************************************************************)
(* Refinement: the orchestrator implements the ledger.                     *)
(***************************************************************************)

\* A commit publishes its transaction's rows as one batch.
LEMMA CommitPublishes ==
  ASSUME IInv, NEW y \in Years, Commit(y)
  PROVE  L!Publish
  <1> DEFINE batch == rows' \ rows
  <1>1. rows' = rows \cup pending[y] /\ UNCHANGED <<failed, objects>>
    BY CommitBatch DEF Commit
  <1>2. batch \subseteq pending[y]
    BY <1>1
  <1>3. RunRow(y) \in batch
    <2>1. RunRow(y) \in pending[y] /\ Key(RunRow(y)) \notin Keys(rows)
      BY CommitBatch DEF OpenTransaction
    <2>2. QED
      BY <1>1, <2>1, KeyInKeys
  <1>4. \E r \in batch : /\ L!Key(r) = L!RunKey(r.by)
                         /\ \A s \in batch : s.by = r.by
                         /\ r.by \notin failed
    <2>1. L!Key(RunRow(y)) = L!RunKey(RunRow(y).by) /\ RunRow(y).by = Run(y)
      BY DEF RunRow, L!Key, L!RunKey
    <2>2. \A s \in batch : s.by = Run(y)
      BY <1>2, CommitBatch
    <2>3. Run(y) \notin failed
      BY CommitBatch
    <2>4. QED
      BY <1>3, <2>1, <2>2, <2>3
  <1>5. \A r \in batch : L!Key(r) \notin L!Keys(rows)
    BY <1>2, CommitBatch DEF Key, Keys
  <1>6. \A r, s \in batch : L!Key(r) = L!Key(s) => r = s
    BY <1>2, CommitBatch DEF OpenTransaction, Key
  <1>7. \A r \in batch : r.refs \subseteq L!Keys(rows')
    BY <1>2, CommitBatch DEF Keys
  <1>8. \A r \in batch : r.table = "snap" => L!StorageKey(r) \in objects
    BY <1>2, CommitBatch
  <1>9. QED
    BY <1>1, <1>4, <1>5, <1>6, <1>7, <1>8 DEF L!Publish

\* Recording a failed run adds that one run, which published nothing.
LEMMA RecordFailedRecords ==
  ASSUME IInv, NEW y \in Years, RecordFailed(y)
  PROVE  L!RecordFailure
  <1>1. failed' = failed \cup {Run(y)} /\ UNCHANGED <<rows, objects>>
    BY DEF RecordFailed
  <1>2. Run(y) \notin failed /\ L!RunKey(Run(y)) \notin Keys(rows)
    BY DEF RecordFailed, IInv, Progress, FreshRuns
  <1>3. Run(y) \in failed' \ failed
    BY <1>1, <1>2
  <1>4. QED
    BY <1>1, <1>2, <1>3 DEF L!RecordFailure, Keys

\* Every step of the orchestrator is a step of the ledger or leaves it alone.
LEMMA StepImplements == IInv /\ [Next]_vars => [L!LedgerNext]_(L!lvars)
  <1> SUFFICES ASSUME IInv, [Next]_vars PROVE L!LedgerNext \/ UNCHANGED <<rows, failed, objects>>
    BY DEF L!lvars
  <1>1. ASSUME NEW y \in Years, Fails(y) PROVE UNCHANGED <<rows, failed, objects>>
    BY <1>1 DEF Fails, store
  <1>2. ASSUME NEW y \in Years, YearStep(y) \/ InfraFailure(y)
        PROVE  L!LedgerNext \/ UNCHANGED <<rows, failed, objects>>
    <2>1. CASE Launch(y) \/ Info(y) \/ Fetch(y) \/ Verify(y) \/ Begin(y)
      BY <2>1 DEF Launch, Info, Fetch, Verify, Begin, store
    <2>2. CASE RecordFailed(y)
      BY <2>2, RecordFailedRecords DEF L!LedgerNext
    <2>3. CASE Upload(y)
      <3>1. Fails(y) \/ (objects \subseteq objects' /\ UNCHANGED <<rows, failed>>)
        BY <2>3 DEF Upload
      <3>2. QED
        BY <1>1, <3>1 DEF L!LedgerNext, L!StoreObject
    <2>4. CASE Insert(y)
      BY <1>1, <2>4 DEF Insert, store
    <2>5. CASE Commit(y)
      BY <2>5, CommitPublishes DEF L!LedgerNext
    <2>6. CASE Interrupted(y) \/ DeadlockVictim(y) \/ InfraFailure(y)
      BY <1>1, <2>6 DEF Interrupted, DeadlockVictim, InfraFailure
    <2>7. QED
      BY <1>2, <2>1, <2>2, <2>3, <2>4, <2>5, <2>6 DEF YearStep
  <1>3. CASE Exit \/ Crash \/ Rerun \/ UNCHANGED vars
    BY <1>3 DEF Exit, Crash, Rerun, vars, store
  <1>4. QED
    BY <1>2, <1>3 DEF Next, Finished

\* The orchestrator implements the ledger: rows appear run by run, whole and
\* resolved, and no row, failed run or object is ever changed or removed.
THEOREM Refinement == Spec => ImplementsLedger
  <1>1. Init => L!LedgerInit
    BY DEF Init, L!LedgerInit
  <1>2. QED
    BY <1>1, Invariance, StepImplements, PTL DEF Spec, ImplementsLedger, L!LedgerSpec
=============================================================================
