------------------------------- MODULE Ingest -------------------------------
(***************************************************************************)
(* The orchestrator: Backfill runs RunYear for several fiscal years at     *)
(* once, each year driving an adapter subprocess and persisting the        *)
(* document it emits (store.Ingest) or recording a failed run.             *)
(*                                                                         *)
(* The interleaving is that of the Go code: one goroutine per year under   *)
(* an errgroup limit, one Postgres transaction per document, one statement *)
(* row at a time.  Postgres is modelled from what the code asks of it:     *)
(* READ COMMITTED, unique keys on which an INSERT ... ON CONFLICT DO       *)
(* NOTHING waits while another open transaction holds the same key,        *)
(* foreign keys, deadlock detection, and rollback of what did not commit.  *)
(***************************************************************************)
EXTENDS Naturals, Sequences, FiniteSets

CONSTANTS
    Years,          \* the fiscal years of one `orchestrator run --years ...`
    Limit,          \* --concurrency
    MaxAttempts,    \* bound: invocations of the orchestrator explored
    ItemKeys,       \* primary keys of the rows documents hold
    Outputs,        \* Outputs[y]: the documents the adapter may emit for y
    Faults          \* which of {"infra", "crash", "lostack"} may happen

(***************************************************************************)
(* A document is what Ingest makes of an adapter's output: `items' are the *)
(* rows it writes after the ingestion_run row, in the order it writes them *)
(* (Rank gives the order of the tables); `bins' the snapshots whose        *)
(* <sha>.bin is in the raw directory; `valid' whether validateAndVerify    *)
(* accepts it.  A reference to a key no item has stands for a foreign-key  *)
(* or NOT NULL violation.                                                  *)
(***************************************************************************)
Tables == {"snap", "entity", "alias", "code", "fact", "asg", "total"}

Rank == [t \in Tables |->
           CASE t = "snap" -> 1 [] t = "entity" -> 2 [] t = "alias" -> 3 [] t = "code" -> 4
             [] t = "fact" -> 5 [] t = "asg" -> 6 [] t = "total" -> 7]

Item == [table : Tables, key : ItemKeys, refs : SUBSET (Tables \X ItemKeys)]

Document == [items : Seq(Item), bins : SUBSET ItemKeys, valid : BOOLEAN]

InWriteOrder(d) ==
    \A i, j \in 1 .. Len(d.items) :
        i < j => Rank[d.items[i].table] <= Rank[d.items[j].table]

ASSUME YearsAssumption == IsFiniteSet(Years) /\ Years # {}
ASSUME LimitAssumption == Limit \in Nat \ {0}
ASSUME MaxAttemptsAssumption == MaxAttempts \in Nat \ {0}
ASSUME FaultsAssumption == Faults \subseteq {"infra", "crash", "lostack"}
ASSUME OutputsAssumption ==
    \A y \in Years : \A d \in Outputs[y] : d \in Document /\ InWriteOrder(d)

NoDoc == [items |-> <<>>, bins |-> {}, valid |-> FALSE]

-----------------------------------------------------------------------------
VARIABLES
    attempt,    \* which invocation of the orchestrator this is
    proc,       \* the process: running, crashed, or its exit code
    ctx,        \* the errgroup's context: live, or cancelled by a first error
    pc,         \* pc[y]: how far RunYear has come
    doc,        \* doc[y]: the document the adapter emitted
    at,         \* at[y]: the next item to upload, then to insert
    pending,    \* pending[y]: rows the open transaction inserted
    result,     \* result[y]: what RunYear returned
    rows,       \* committed rows, as in module Ledger
    failed,     \* runs with a committed status='failed' row
    objects     \* raw-snapshot keys present in object storage

local == <<pc, doc, at, pending, result>>
store == <<rows, failed, objects>>
vars == <<attempt, proc, ctx, local, store>>

L == INSTANCE Ledger

Key(r) == L!Key(r)
Keys(R) == L!Keys(R)

Stages == {"idle", "info", "fetch", "verify", "record", "upload", "insert", "done"}

\* Mutant of Run: a run id derived from the year alone.
RunPerYear(y) == [attempt |-> 1, year |-> y]

\* The run id of a year's attempt: the adapter (or RecordFailedRun) draws a
\* fresh UUID, so no two attempts share one.
Run(y) == [attempt |-> attempt, year |-> y]

RunRow(y) == [table |-> "run", key |-> Run(y), by |-> Run(y), refs |-> {}]

\* Mutant of RowOf: the row carries the fiscal year in place of the run.
RowOfYear(y, it) == [table |-> it.table, key |-> it.key, by |-> y, refs |-> it.refs]

\* The row an item becomes: snapshots and facts carry a run_id foreign key.
RowOf(y, it) ==
    [table |-> it.table, key |-> it.key, by |-> Run(y),
     refs |-> it.refs \cup (IF it.table \in {"snap", "fact"} THEN {L!RunKey(Run(y))} ELSE {})]

Active == {y \in Years : pc[y] \notin {"idle", "done"}}

Items(y) == doc[y].items
NextItem(y) == Items(y)[at[y]]
\* Mutant of More: the loop stops before the last item.
MoreButOne(y) == at[y] < Len(Items(y))

More(y) == at[y] <= Len(Items(y))
\* Mutant of Uploading: the transaction opens before any upload.
UploadingNever(y) == FALSE

Uploading(y) == More(y) /\ NextItem(y).table = "snap"

\* Mutant of Visible: a conflict is looked for among the transaction's own rows.
VisibleOwn(y) == Keys(pending[y])

\* The keys y's transaction finds in the tables: committed rows and its own.
Visible(y) == Keys(rows \cup pending[y])

\* The keys of the rows the statement running now has yet to insert: a foreign
\* key is checked when its statement ends, so it may name one of them.
StatementKeys(y) ==
    {Key(Items(y)[j]) : j \in {i \in at[y] .. Len(Items(y)) : Items(y)[i].table = NextItem(y).table}}

\* Year y's INSERT waits for year z's transaction, which holds the same key.
WaitsFor(y, z) ==
    /\ y # z
    /\ pc[y] = "insert"
    /\ More(y)
    /\ Key(NextItem(y)) \in Keys(pending[z])

Blocked(y) == \E z \in Years : WaitsFor(y, z)

\* y is on a cycle of waiting transactions (each waits for one other).
Deadlocked(y) ==
    \E S \in SUBSET Years :
        /\ y \in S
        /\ \A a \in S : \E b \in S : WaitsFor(a, b)
        /\ \A b \in S : \E a \in S : WaitsFor(a, b)

-----------------------------------------------------------------------------
Init ==
    /\ attempt = 1
    /\ proc = "running"
    /\ ctx = "live"
    /\ pc = [y \in Years |-> "idle"]
    /\ doc = [y \in Years |-> NoDoc]
    /\ at = [y \in Years |-> 1]
    /\ pending = [y \in Years |-> {}]
    /\ result = [y \in Years |-> "none"]
    /\ rows = {}
    /\ failed = {}
    /\ objects = {}

\* What a process keeps in memory, and its open transactions, are gone.
ForgetLocal ==
    /\ ctx' = "live"
    /\ pc' = [y \in Years |-> "idle"]
    /\ doc' = [y \in Years |-> NoDoc]
    /\ at' = [y \in Years |-> 1]
    /\ pending' = [y \in Years |-> {}]
    /\ result' = [y \in Years |-> "none"]

Goto(y, stage) == pc' = [pc EXCEPT ![y] = stage]

\* RunYear returns a non-nil error: its deferred rollback discards the open
\* transaction and the errgroup cancels the context its siblings run under.
Fails(y) ==
    /\ Goto(y, "done")
    /\ result' = [result EXCEPT ![y] = "error"]
    /\ pending' = [pending EXCEPT ![y] = {}]
    /\ at' = [at EXCEPT ![y] = 1]
    /\ ctx' = "cancelled"
    /\ UNCHANGED <<attempt, proc, doc, store>>

\* Backfill starts a year when the errgroup has a free slot.
Launch(y) ==
    /\ proc = "running"
    /\ pc[y] = "idle"
    /\ Cardinality(Active) < Limit
    /\ Goto(y, "info")
    /\ UNCHANGED <<attempt, proc, ctx, doc, at, pending, result, store>>

\* `adapter info`: a manifest, or a non-zero exit / bad JSON to be recorded (a
\* subprocess killed by the cancelled context exits non-zero too).
Info(y) ==
    /\ pc[y] = "info"
    /\ \/ ctx = "live" /\ Goto(y, "fetch")
       \/ Goto(y, "record")
    /\ UNCHANGED <<attempt, proc, ctx, doc, at, pending, result, store>>

\* `adapter fetch`: exit 0 with a document, or any other exit code.
Fetch(y) ==
    /\ pc[y] = "fetch"
    /\ \/ /\ ctx = "live"
          /\ \E d \in Outputs[y] : doc' = [doc EXCEPT ![y] = d]
          /\ Goto(y, "verify")
       \/ Goto(y, "record") /\ UNCHANGED doc
    /\ UNCHANGED <<attempt, proc, ctx, at, pending, result, store>>

\* validateAndVerify: a rejected document is recorded, never persisted.
Verify(y) ==
    /\ pc[y] = "verify"
    /\ Goto(y, IF doc[y].valid THEN "upload" ELSE "record")
    /\ UNCHANGED <<attempt, proc, ctx, doc, at, pending, result, store>>

\* Mutant of RecordFailed: the year returns its failure as an error.
RecordFailedAborts(y) ==
    /\ pc[y] = "record"
    /\ ctx = "live"
    /\ failed' = failed \cup {Run(y)}
    /\ result' = [result EXCEPT ![y] = "failed"]
    /\ ctx' = "cancelled"
    /\ Goto(y, "done")
    /\ UNCHANGED <<attempt, proc, doc, at, pending, rows, objects>>

\* RecordFailedRun: one autocommitted status='failed' row under a new run id.
RecordFailed(y) ==
    /\ pc[y] = "record"
    /\ ctx = "live"
    /\ failed' = failed \cup {Run(y)}
    /\ result' = [result EXCEPT ![y] = "failed"]
    /\ Goto(y, "done")
    /\ UNCHANGED <<attempt, proc, ctx, doc, at, pending, rows, objects>>

\* Ingest step 1, one snapshot: read <sha>.bin and put it under its key.
Upload(y) ==
    /\ pc[y] = "upload"
    /\ ctx = "live"
    /\ Uploading(y)
    /\ IF NextItem(y).key \in doc[y].bins
       THEN /\ objects' = objects \cup {<<y, NextItem(y).key>>}
            /\ at' = [at EXCEPT ![y] = @ + 1]
            /\ UNCHANGED <<attempt, proc, ctx, pc, doc, pending, result, rows, failed>>
       ELSE Fails(y)

\* Mutant of Begin: the ingestion_run row is written outside the transaction.
BeginAutocommits(y) ==
    /\ pc[y] = "upload"
    /\ ctx = "live"
    /\ ~ Uploading(y)
    /\ rows' = rows \cup {RunRow(y)}
    /\ at' = [at EXCEPT ![y] = 1]
    /\ Goto(y, "insert")
    /\ UNCHANGED <<attempt, proc, ctx, doc, pending, result, failed, objects>>

\* Begin, and Ingest step 2: the ingestion_run row, whose key is fresh.
Begin(y) ==
    /\ pc[y] = "upload"
    /\ ctx = "live"
    /\ ~ Uploading(y)
    /\ pending' = [pending EXCEPT ![y] = {RunRow(y)}]
    /\ at' = [at EXCEPT ![y] = 1]
    /\ Goto(y, "insert")
    /\ UNCHANGED <<attempt, proc, ctx, doc, result, store>>

\* Ingest steps 3 to 9, one row: ON CONFLICT DO NOTHING when the key exists,
\* a new row when its references resolve, an error otherwise.
Insert(y) ==
    /\ pc[y] = "insert"
    /\ ctx = "live"
    /\ More(y)
    /\ ~ Blocked(y)
    /\ LET r == RowOf(y, NextItem(y))
       IN  IF Key(r) \in Visible(y) \/ r.refs \subseteq Visible(y) \cup StatementKeys(y)
           THEN /\ pending' = IF Key(r) \in Visible(y) THEN pending
                              ELSE [pending EXCEPT ![y] = @ \cup {r}]
                /\ at' = [at EXCEPT ![y] = @ + 1]
                /\ UNCHANGED <<attempt, proc, ctx, pc, doc, result, store>>
           ELSE Fails(y)

\* Commit: the transaction's rows appear together.  If the reply is lost the
\* rows are there and RunYear still returns an error.
Commit(y) ==
    /\ pc[y] = "insert"
    /\ ctx = "live"
    /\ ~ More(y)
    /\ rows' = rows \cup pending[y]
    /\ pending' = [pending EXCEPT ![y] = {}]
    /\ at' = [at EXCEPT ![y] = 1]
    /\ Goto(y, "done")
    /\ \/ result' = [result EXCEPT ![y] = "succeeded"] /\ UNCHANGED ctx
       \/ /\ "lostack" \in Faults
          /\ result' = [result EXCEPT ![y] = "error"]
          /\ ctx' = "cancelled"
    /\ UNCHANGED <<attempt, proc, doc, failed, objects>>

\* A subprocess that cannot start, a lost connection, an object-store error.
InfraFailure(y) ==
    /\ "infra" \in Faults
    /\ pc[y] \in {"info", "fetch", "record", "upload", "insert"}
    /\ Fails(y)

\* Mutant of Interrupted: RecordFailedRun retries under a cancelled context.
InterruptedUnlessRecording(y) ==
    /\ ctx = "cancelled"
    /\ pc[y] \in {"info", "fetch", "upload", "insert"}
    /\ Fails(y)

\* Every call made under the cancelled context returns its error.
Interrupted(y) ==
    /\ ctx = "cancelled"
    /\ pc[y] \in {"info", "fetch", "record", "upload", "insert"}
    /\ Fails(y)

\* Postgres breaks a cycle of waiting transactions by failing one of them.
DeadlockVictim(y) == Deadlocked(y) /\ Fails(y)

\* Backfill's Wait returns and the process exits: 1 on an error, 3 when a year
\* was recorded as failed, 0 otherwise.
Exit ==
    /\ proc = "running"
    /\ \A y \in Years : pc[y] = "done"
    /\ proc' = IF \E y \in Years : result[y] = "error" THEN "exit1"
               ELSE IF \E y \in Years : result[y] = "failed" THEN "exit3"
               ELSE "exit0"
    /\ UNCHANGED <<attempt, ctx, local, store>>

\* The process dies: Postgres rolls back what was open, objects stay.
Crash ==
    /\ "crash" \in Faults
    /\ proc = "running"
    /\ proc' = "crashed"
    /\ ForgetLocal
    /\ UNCHANGED <<attempt, store>>

\* The operator runs the same backfill again.
Rerun ==
    /\ proc # "running"
    /\ attempt < MaxAttempts
    /\ attempt' = attempt + 1
    /\ proc' = "running"
    /\ ForgetLocal
    /\ UNCHANGED store

\* The bound on attempts is reached and the process has stopped.
Finished ==
    /\ proc # "running"
    /\ attempt = MaxAttempts
    /\ UNCHANGED vars

YearStep(y) ==
    \/ Launch(y) \/ Info(y) \/ Fetch(y) \/ Verify(y) \/ RecordFailed(y)
    \/ Upload(y) \/ Begin(y) \/ Insert(y) \/ Commit(y)
    \/ Interrupted(y) \/ DeadlockVictim(y)

Next ==
    \/ \E y \in Years : YearStep(y) \/ InfraFailure(y)
    \/ Exit \/ Crash \/ Rerun \/ Finished

\* The Go scheduler and Postgres eventually take a step that stays possible;
\* nothing obliges infrastructure to fail, the process to crash or the
\* operator to run the backfill again.
Fairness ==
    /\ \A y \in Years : WF_vars(YearStep(y))
    /\ WF_vars(Exit)

Spec == Init /\ [][Next]_vars

FairSpec == Spec /\ Fairness

-----------------------------------------------------------------------------
(***************************************************************************)
(* Properties.                                                             *)
(***************************************************************************)
RunIds == [attempt : 1 .. MaxAttempts, year : Years]

RowKeys == ({"run"} \X RunIds) \cup (Tables \X ItemKeys)

Row ==
    [table : {"run"}, key : RunIds, by : RunIds, refs : {{}}]
        \cup [table : Tables, key : ItemKeys, by : RunIds, refs : SUBSET RowKeys]

TypeOK ==
    /\ attempt \in 1 .. MaxAttempts
    /\ proc \in {"running", "crashed", "exit0", "exit1", "exit3"}
    /\ ctx \in {"live", "cancelled"}
    /\ pc \in [Years -> Stages]
    /\ doc \in [Years -> Document]
    /\ at \in [Years -> Nat \ {0}]
    /\ pending \in [Years -> SUBSET Row]
    /\ result \in [Years -> {"none", "succeeded", "failed", "error"}]
    /\ rows \subseteq Row
    /\ failed \subseteq RunIds
    /\ objects \subseteq Years \X ItemKeys

\* No two committed rows share a primary key, whichever transactions raced to
\* write it: the row a key names is settled by the first run to commit it, so
\* a fact keeps its original run (D21).
OneRowPerKey == \A r, s \in rows : Key(r) = Key(s) => r = s

\* Every committed row's references resolve to committed rows, and the bytes
\* behind every raw_snapshot row are in object storage: a public number can be
\* followed to its source whatever crashed on the way (ingest.go: upload first,
\* then one transaction).
Provenance ==
    /\ \A r \in rows : r.refs \subseteq Keys(rows)
    /\ \A r \in rows : r.table = "snap" => L!StorageKey(r) \in objects

\* A run's rows are public exactly when its ingestion_run row is, and a run
\* recorded as failed has none: no crash, error or deadlock leaves half a run.
RunsAtomic ==
    \A r \in rows : L!RunKey(r.by) \in Keys(rows) /\ r.by \notin failed

\* A year reported as succeeded has every row of its document in the ledger
\* (its own or an earlier run's), although it checked each key long before it
\* committed; a year reported as failed has its failed row, and exit code 0 is
\* returned only when every year is complete.
ReportedOutcomesHold ==
    /\ \A y \in Years : result[y] = "succeeded" =>
          /\ L!RunKey(Run(y)) \in Keys(rows)
          /\ \A i \in 1 .. Len(Items(y)) : Key(Items(y)[i]) \in Keys(rows)
    /\ \A y \in Years : result[y] = "failed" => Run(y) \in failed
    /\ proc = "exit0" => \A y \in Years : result[y] = "succeeded"

\* Siblings are cancelled only by an infrastructure error: a year recorded as
\* failed does not abort the others (orchestrator.go, Backfill).
FailedYearAbortsNobody ==
    ctx = "cancelled" => \E y \in Years : result[y] = "error"

\* What the store promises: rows appear run by run and never change.
ImplementsLedger == L!LedgerSpec

\* A backfill that is not killed exits: no year waits for ever, neither on a
\* transaction of a sibling nor on a cancelled context.
BackfillExits == proc = "running" ~> proc # "running"

-----------------------------------------------------------------------------
(***************************************************************************)
(* The inductive strengthening of the safety invariants above (proved in   *)
(* IngestProofs): what holds of a year between its steps.                  *)
(***************************************************************************)
DocKeys(y) == {Key(Items(y)[i]) : i \in 1 .. Len(Items(y))}

\* Every snapshot of y's document is in object storage.
AllUploaded(y) ==
    \A i \in 1 .. Len(Items(y)) :
        Items(y)[i].table = "snap" => <<y, Items(y)[i].key>> \in objects

\* An open transaction holds the run's row, then rows of its document under
\* keys nobody has committed, and has dealt with the items before at[y].
OpenTransaction(y) ==
    /\ AllUploaded(y)
    /\ at[y] <= Len(Items(y)) + 1
    /\ RunRow(y) \in pending[y]
    /\ \A r \in pending[y] :
          /\ r = RunRow(y) \/ (r.table # "run" /\ r.by = Run(y) /\ Key(r) \in DocKeys(y))
          /\ r.refs \subseteq Visible(y) \cup DocKeys(y)
          /\ Key(r) \notin Keys(rows)
    /\ \A r, s \in pending[y] : Key(r) = Key(s) => r = s
    /\ \A i \in 1 .. at[y] - 1 : Key(Items(y)[i]) \in Visible(y)

\* How far each year has come, and that a stopped process runs no year.
Progress ==
    /\ \A y \in Years : pc[y] = "insert" => OpenTransaction(y)
    /\ \A y \in Years : pc[y] # "insert" => pending[y] = {}
    /\ \A y \in Years : pc[y] \in {"verify", "upload", "insert"} => InWriteOrder(doc[y])
    /\ \A y \in Years : pc[y] = "upload" =>
          \A i \in 1 .. Len(Items(y)) :
             i < at[y] => Items(y)[i].table = "snap" /\ <<y, Items(y)[i].key>> \in objects
    /\ \A y \in Years : pc[y] \in {"idle", "info", "fetch", "verify"} => at[y] = 1
    /\ \A y \in Years : pc[y] # "done" => result[y] = "none"
    /\ \A y \in Years : pc[y] = "done" => result[y] # "none"
    /\ proc # "running" => \A y \in Years : pc[y] \in {"idle", "done"}

\* Two open transactions never hold the same key.
Isolated ==
    \A y, z \in Years : y # z => Keys(pending[y]) \cap Keys(pending[z]) = {}

\* Nothing is recorded under the run id of a year still under way, nor under
\* that of a later attempt.
FreshRuns ==
    /\ \A y \in Years : proc = "running" /\ pc[y] # "done" =>
          Run(y) \notin failed /\ L!RunKey(Run(y)) \notin Keys(rows)
    /\ \A r \in rows : r.by.attempt <= attempt /\ (r.table = "run" => r.key = r.by)
    /\ \A run \in failed : run.attempt <= attempt

IInv ==
    /\ TypeOK
    /\ Progress
    /\ Isolated
    /\ FreshRuns
    /\ OneRowPerKey
    /\ Provenance
    /\ RunsAtomic
    /\ ReportedOutcomesHold
    /\ FailedYearAbortsNobody

-----------------------------------------------------------------------------
\* D22: "Every attempt yields exactly one append-only ingestion_run row
\* (succeeded via the ingest tx, or a standalone failed row)."
EveryAttemptIsRecorded ==
    \A y \in Years : pc[y] = "done" => Run(y) \in failed \/ L!RunKey(Run(y)) \in Keys(rows)
=============================================================================
