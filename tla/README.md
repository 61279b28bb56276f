# Outlays: a TLA+ verification project

Outlays collects what governments spend into an append-only PostgreSQL ledger. Adapters
fetch and normalise source data, an orchestrator ingests it, reviewed mappings classify it,
a read API and a columnar engine serve it, and an on-chain registry anchors each run. This
directory holds TLA+ models of that code, the configurations TLC checks them with, and
proofs TLAPS checks. Paths below are relative to `src/`; `core/` is the Go core.
`ARCHITECTURE.md` is the repository's normative document; its decisions are cited as D20 and
so on.

## 1. Inventory

| Component | State it keeps | Operations | What is hard about it |
|---|---|---|---|
| Orchestrator (`core/internal/ingest/orchestrator.go`, `core/cmd/orchestrator`) | goroutines of one backfill, a shared context, outcomes | `RunYear`, `Backfill`, exit codes | years run concurrently; a failed year must not stop its siblings, an infrastructure error must; kills and repeats |
| Ledger write path (`core/internal/store/{ingest,runs,objectstore}.go`, migrations 1, 2) | the append-only tables, object storage | `Ingest`, `RecordFailedRun`, `Put` | content-derived keys shared by concurrent transactions, object storage and database written in turn, lost commit replies |
| COFOG loader (`core/internal/classify`) | `classification_assignment` rows | `LoadMapping`, `Apply` (plan, insert, reconcile) | plan, insert and reconcile are separate statements; reviewers, ingestion and other invocations run meanwhile; versions accumulate |
| Read queries (`core/internal/store/queries.go`) | none | views, drill-down, compare, flows, coverage, provenance | must agree on which facts are current and which version of an assignment counts |
| Anchoring (`core/internal/anchor`, `core/cmd/anchor`, `contracts/src/AnchorRegistry.sol`, `scripts/verify_anchor.py`) | the registry on chain, `run_anchor` | anchor a run, verify a run | three stores written in turn, transactions delayed, lost or raced; verdicts read at several moments |
| Columnar engine (`core/internal/engine`) | Parquet objects, `parquet_export`, a local cache | export, cached views | four statements with a snapshot each, exports racing each other, one temporary file per cache entry shared by requests |
| Leads (`core/internal/leads`, `core/cmd/leads`) | `lead`, `lead_event` | run rules, inspect, set status | status is the newest event by the start of its transaction; a lead's identity is its evidence, while its text also quotes figures of others |
| Read API (`core/internal/api`, `core/cmd/api`) and the drill-down page (`packages/web`) | none | HTTP handlers over the queries | a page is two parallel requests, paging is by offset over a store that grows |
| Contract and result hash (`core/internal/contract`, `core/internal/verify`) | none | validate, recompute hashes | both SDKs and the core must agree on an order |
| Adapter SDKs (`packages/adapter-sdk-ts`, `py/adapter_sdk`) | fixtures, rate limiter | run, fetch, record, hash | asynchronous check-then-act |
| Adapters (`packages/adapters`) | none | info, fetch one year | paging loops, money normalisation |
| Conformance, migrations, schema, web | none of their own | | sequential or generated |

How they interact. The orchestrator starts an adapter as a subprocess, twice per year (info
and fetch), reads the document from its output and the snapshots from a directory, and calls
the ledger. The ledger's tables are shared state for everything else: the loader reads facts
and source assignments and appends assignments; the queries, the engine and the leads rules
read facts and assignments; anchoring reads a run's fact hashes. Nothing is updated or
deleted (D20, `core/migrations/00002_append_only.sql`): corrections are new rows that name
what they supersede.

What makes each component correct:

- Orchestrator and ledger: a run's rows become public all at once and only with its run row;
  keys are unique whatever years overlap; references resolve and every snapshot row's bytes are
  stored; what is reported of a year is so in the ledger; every attempt leaves one run row (D22);
  the backfill ends.
- Loader: only what a reviewer mapped is assigned; re-applying adds nothing; an applied mapping
  takes effect; human rows stand; the view drops nothing (D24, D28).
- Queries: trees, drill-downs, the comparison, cross-cuts and coverage count the same facts, each once,
  and of the flow they speak of.
- Anchoring: one anchor per run; `run_anchor` is true of the chain; verdicts are neither false
  alarms nor false matches; a successful anchor is recorded (D31).
- Engine: the files of an export belong together and their views are the store's views of one
  moment; a registered export can be fetched; a file in the cache is whole, or somebody is to blame.
- Leads: the status shown is the last reviewer's; one lead per body of evidence; evidence never
  counts a fact and its correction. Read API: no fact of a node is lost between two pages.

`PROJECT.json` lists the hazards behind these, each at its line of code.

## 2. Modules

| Module | Models | Kind |
|---|---|---|
| `Ledger` | what the store promises: rows only grow, a run's rows appear together | abstract specification |
| `Ingest` | `Backfill`, `RunYear`, `store.Ingest`, `RecordFailedRun`, PostgreSQL as the code uses it | detailed specification, implements `Ledger` |
| `IngestProofs` | | theorems about `Ingest` |
| `Views` | the read queries as operators over facts and assignments | pure |
| `ViewsProofs` | | lemmas about sums, theorems about the views for any facts and assignments |
| `Classify` | `orchestrator classify`, `classify.Apply` | EXTENDS `Views` |
| `ClassifyProofs` | | theorems about `Classify` |
| `Notary` | what anchoring promises: a root is settled once, attestations are of settled roots | abstract specification |
| `Merkle` | the D31 root | pure |
| `Anchor` | `anchor anchor`, the registry, `verify_anchor.py` | EXTENDS `Merkle`, implements `Notary` |
| `AnchorProofs` | | theorems about `Anchor` |
| `Store` | the committed facts and assignments as readers see them | EXTENDS `Views` |
| `Export` | `orchestrator export-parquet`, the DuckDB views over its files | EXTENDS `Store` |
| `ExportProofs` | | theorems about `Export` |
| `ReadApi` | the drill-down page, `/view` and `/v1/facts`, paging | composes readers with `Export` and the store |
| `ReadApiProofs` | | theorems about `ReadApi` |
| `Duck` | the cache of the DuckDB engine: requests, files, renames | detailed; `Export` supplies its registry |
| `DuckProofs` | | theorems about `Duck` |
| `Leads` | `leads run`, `leads set-status`, statuses and publication | EXTENDS `Store` |
| `LeadsProofs` | | theorems about `Leads` |
| `MCIngest`, `MCClassify`, `MCAnchor`, `MCReadApi`, `MCDuck`, `MCLeads` | | instances for TLC |

### Ingest

One process runs one goroutine per year (`pc[y]`), at most `Limit` at once. Actions follow
`RunYear`: `Launch`, `Info`, `Fetch`, `Verify`, `RecordFailed` on a rejected or failed document,
otherwise `Upload` (one snapshot per step), `Begin` (transaction and run row), `Insert` (one row
per step), `Commit`. `InfraFailure` is an error return of any database or storage call;
`Interrupted` is what a year sees once a sibling cancelled the shared context; `DeadlockVictim` is
PostgreSQL's answer to a cycle of lock waits; `Crash` kills the process and rolls back; `Exit`
computes the exit code; `Rerun` is the operator starting again. A document is the sequence of rows
`Ingest` would write, in table order. `pending[y]` is the open transaction. An insert whose key is
committed does nothing; one whose key another open transaction holds waits (`Blocked`).

Not modelled here: two backfill processes at once; a server-side transaction that lingers after
its client died; `--years` naming a year twice; wording of errors. Run ids are fresh UUIDs and are
modelled as the pair of attempt and year.

### Classify and Views

`Views` has the queries as the SQL defines them: `Current` (nothing supersedes it, from any partition),
`Latest` (highest version, ties to the lowest code), the view, drill-down and compare. `Classify` has
one process per invocation of the loader: `Plan` is the one statement of `buildPlan`, `Insert` the
transaction of `insertPlan`, `CountFacts` and `ReadView` the two statements of `reconcile`. `Publish` is
an ingest commit. `store.Ingest` upserts facts and assignments each under its own key, and `factHash`
leaves assignments out (D15), so a document that states a stored fact again under another source code
adds an assignment to it: what a loader planned from may no longer be what the source says. The history
variable `overtaken` keeps the rule rows that this happened to after they were planned. `Review` is a
reviewer's row, which no code of the repository writes (its integration test does by hand) and is
therefore external. `clean[l]` is a history variable: nobody else wrote since `l` planned. The report's
per-category counts are left out. An assignment's identity is `<<fact, scheme, code, version>>`, as in
`AssignmentID`.

### Anchor and Merkle

`Merkle` builds the root level by level as the Go code does, over hashes taken as collision-free terms.
`Anchor` has one process per invocation of the command and of the script; the contract's `anchor` is
executed by `Mine` when a pending transaction reaches a block; `Drop` is a transaction the network
forgets; `Agree` is the script's comparison of the three roots; `Fail` a call that fails or a killed
process, at any point. `Damage` loses rows of a run outside the program, which is what an anchor is
there to detect. A mined block is final in the model; anyone but these invocations calling the contract,
and several registries, are left out.

`Notary` is the write-once registry that this amounts to: `Mine` maps to `Settle`, `Persist` to
`Attest`, everything else to a stutter; damage to a run's rows cannot show in it.

### Store, Export and ReadApi

`Store` abstracts `Ingest` and `Classify` to what a reader can tell: a set of transactions
(`Transactions`, documents or loader batches) that commit whole, in any order their references allow.
Entities and codes are written in the transaction whose rows refer to them, so `PayeesOf` and
`CodesOf` derive them. A batch may hold several versions of a fact's code.

`Export` has one process per invocation of `export-parquet`: four `Read` steps in the order of
`readPartition`, each with the snapshot of its own statement, one `Upload` per artifact, `Register`.
An artifact is its table and rows; its key is the hash of its bytes and `writeTableParquet` is
deterministic, so equal rows are one object. `DuckViewByScheme` and `DuckViewByPayee` are the two SQL
texts of `duck.go` over an export's files.

`ReadApi` adds readers. A page of a node is `ReadView` and `ReadFacts` in either order (the page
awaits both in one `Promise.all`); `ShowPage` follows the Next link as long as the node counts more
facts than were shown. `Clamp` is `clampLimit`. `steady[r]` is a history variable: no fact left the
reader's node, and nothing was committed between a page's two answers. `OneVersion` is finding 3's
exception: where a fact of the reader's scheme has several versions, a node lists more than it counts.

### Duck

Requests (`engine=duckdb`) share a cache directory that outlives the server. The state is the file
system as `os.WriteFile` and `os.Rename` see it: a path leads to one file, and a request that has a
file open writes that file even after it was renamed. `Open` truncates a temporary file another
request is writing; `Rename` puts whatever the temporary path leads to in the cache. The write of a
file's bytes is one step: Go hands `os.WriteFile`'s buffer to one write(2), which a local file system
completes or fails. `Fail` is an error or a killed server at any step.

### Leads

`RuleQuery` is the one statement of the embedded rule, `InsertDrafts` the transaction with ON CONFLICT
DO NOTHING, `Inspect`, `BeginInsert` and `AppendEvent` the steps of `SetStatus`. `created_at` is the
`now()` of the transaction, taken at `BeginInsert`; the event id, which breaks ties, is random (`tie`).
The clock ticks when an event commits: a call that starts later has a later `now()` (the table has
microseconds; two calls one after the other never share one). A banned term in one generated text fails
a whole rule run, also the leads of everyone else; that is as coded, and no document says otherwise.

## 3. Runs

State counts are TLC's distinct states.

| Run | Question | Bounds | Result |
|---|---|---|---|
| `ingest` | Is the ledger whole, are reports truthful, does a backfill end? | 2 years, 2 attempts, 7 documents, all faults; 48,789 states | holds, with refinement of `Ledger` and liveness |
| `ingest_record` | Does every attempt leave one run row (D22)? | the two well-formed documents, no faults | violated: finding 1 |
| `classify` | Is what was reviewed applied, once, and nothing dropped? | 3 invocations, 3 mappings, a fact, its correction and its restatement under another code, 1 human row; 1,023,168 states | holds |
| `classify_human` | Is a human's row never overridden? | 1 invocation | violated: finding 2 |
| `classify_drilldown` | Does the drill-down mirror the view? | 1 invocation, 2 facts | violated: finding 3 |
| `anchor` | One anchor, true records, sound verdicts, a write-once notary? | 2 runs, 2 invocations, 1 verifier; 371,751 states | holds, with refinement of `Notary` |
| `anchor_persisted` | Does a successful anchor have its row (D31)? | 2 invocations | violated: finding 5 |
| `read_api` | Do an export's files belong together and mirror the store, does a pager lose a fact, do the queries agree? | 3 transactions, 2 exports or 1 reader; 24,661 states | holds |
| `read_flows` | Is a payee's cross-cut its spending? | as `read_api` | violated: finding 4 |
| `duck` | When is a file in the cache torn, and does it heal? | 3 requests, 2 exports sharing an artifact; 1.36 million states | holds, with liveness |
| `leads` | Is the status the last word, one lead per evidence, evidence consistent? | 2 rule runs, 2 reviewers; 50,000 states | holds |
| `leads_claim` | Are the figures a run finds those of the lead? | 2 rule runs | violated: finding 6 |

Why the bounds are enough. Two years are what it takes to share a key, block, deadlock or cancel
one another; the documents share two vendors in opposite orders and one source file, and include a
rejected one, one with a dangling reference, one with a missing `.bin` and a correction; two attempts
cover a crash or a lost commit reply and its repeat. Three loader invocations let a mapping be applied,
revised and applied again while two overlap; the mappings differ by basis only, by code, by withdrawal
and by conflict. Two anchor invocations are a first that dies or stalls and a second that races or
follows it; three leaves make an odd level. Bounds are `MaxAttempts` and `MaxHuman`, and the sets of
processes. Loader, anchor, export, rule and set-status invocations are interchangeable, hence the
symmetry sets (in runs without liveness only).

`read_api`'s three transactions are a document, one with a correction, a new payee, an aggregate and a
fact of another jurisdiction, and one with two more facts of the first payee, one of them revenue, and a
code with its revision for a fact that came before; two exports overlap in every order, a reader needs
two pages of two facts. Its CONSTRAINT `ReadersOrExports` keeps to behaviours in which either readers or
exports act: they share nothing but the committed transactions, which neither changes, so the
interleavings left out show neither of them anything new. `duck` needs three requests: with two, a file
that is whole in the cache cannot yet be replaced by a torn one. Two rule runs and two reviewers are the
race; the transactions of `leads` correct a fact of the evidence, add a competitor's fact and a vendor
with a banned name, and recode the competitor's. `MCAnchor` also evaluates the assumption
`RootIsTreeHash`: the Merkle root is the tree hash of RFC 6962, for up to nine leaves.

`CHECK_DEADLOCK FALSE` is set where all invocations may be done (`Classify`, `Anchor`, `ReadApi`,
`Duck`, `Leads`): nothing obliges anyone to start another. Both configurations of `Ingest` check
deadlock; its finished state stutters explicitly (`Finished`).

Fairness is assumed in `Ingest` and `Duck`. In `Ingest`, `Fairness` is weak fairness of each year's own
steps and of `Exit`. The Go scheduler runs a runnable goroutine, `exec` and `pgx` calls return, and
PostgreSQL resolves lock waits and deadlocks; a continuously enabled step therefore happens. Nothing is
assumed of faults, crashes or the operator. `BackfillExits` then says that `Wait` returns. In `Duck`,
each request's own steps are weakly fair, as a goroutine of the server that is not killed; `TornHeals`
then says that torn files become whole again, unless their writer failed.

Each property of a passing run has a mutant in `PROJECT.json`: a change of one mapped definition
such as a plausible bug would make (a dropped guard, a wrong query scope, a missing status check) with
which TLC finds the property violated.

### Findings

1. Two concurrent years with well-formed documents that name the same two vendors in opposite orders
   deadlock in PostgreSQL; the victim's `RunYear` returns an error and no run row is left, whereas D22
   says every attempt yields exactly one.
2. `classify.Apply` reads the latest assignment and inserts `latest+1` in another transaction. A human
   row committed in between has the same version and loses if its code is higher.
3. `ListFacts` matches any version of an assignment, the view only the latest.
4. `EntityFlowsByDepartment` filters by payee and year only, so the cross-cut documented as "one entity's
   spending" adds revenue facts. The schema and the API know revenue; no adapter emits it yet. The coverage
   numerator has no flow either, and is divided by the control total of spending. `QueriesAgree` therefore
   holds both to the trees only where there is no revenue.
5. An anchor whose process died between `Submit` and `Persist` is never recorded: later invocations
   report `alreadyAnchored` with exit 0.
6. A lead's id is its evidence, the facts of one vendor. When a competitor's fact is ingested between
   two rule runs, the vendor's evidence and so the id stay the same, ON CONFLICT keeps the old row, and
   the lead goes on showing the old group total and share, although `leadID` is documented to name one
   reviewable claim.

Also seen, and as coded. `Compare` (`queries.go:398`) joins every version of an assignment, so a fact
given one code twice (a changed basis is enough) is counted twice, although D24 has assignments
de-duplicated "to avoid double counting"; `ComparisonIsListed` holds it to the drill-downs for all other
codes. A pager can miss a fact when a commit falls between the two answers of one page load; a loader
reports a mismatch when facts are published between its two statements; of two overlapping exports the
one that read first may be registered last. No document promises otherwise, and the properties except
exactly these cases. `duck.go` says of a cached file that "present means verified at write time";
`TornOnlyWhileWritten` is how far that holds: the file may be one that another request has opened for
writing, and when that one fails the torn file stays, since the cache is never checked again. A DuckDB
view filters superseded facts within the partition's own export, so a correction filed under another
partition makes it differ from PostgreSQL's; `DuckMirrorsStore` therefore assumes `CorrectedInPlace`. An
export may hold assignments younger than its facts, so that the scheme view's split by code can mix two
moments; totals and counts, and the payee view, cannot.

## 4. Proofs

`IngestProofs` proves, for every set of years, documents, faults, concurrency limit and number of
attempts: `TypeCorrect`, `RowsAreUnique`, `ProvenanceHolds`, `RunsAreAtomic`, `OutcomesAreTrue`,
`SiblingsSurvive`, and `Refinement` (every behaviour of `Ingest` is one of `Ledger`). The assumptions
are the named `ASSUME`s of `Ingest`. The safety properties are not inductive alone: that a committed
row's references resolve depends on what an open transaction has inserted or found committed so far.
`IInv` adds `Progress` (an open transaction has its run row, holds only rows of its document under keys
nobody committed, has dealt with all items before `at[y]`, and its snapshots are stored), `Isolated`
(two open transactions hold no common key) and `FreshRuns` (nothing is recorded under a run id still
in use). Each action is then shown to preserve each part; `Commit` maps to `Publish`, `RecordFailed` to
`RecordFailure`, `Upload` to `StoreObject`, everything else to a stutter.

`AnchorProofs` proves, for every set of runs and any number of invocations and verifiers:
`TypeCorrect`, `AnchorsAreUnique`, `RecordsAreTrue`, `VerdictsAreSound`, and `NotaryIsImplemented` (the
refinement of `Notary`). The inductive invariant adds
that a transaction carries what its invocation read (`SentIsRead`), that what was read is the run's
leaves unless damaged (`ReadsLeaves`), that receipts and the registry agree with the events, and that
what a process learnt of the chain stays true.

`DamageNeverPasses` (`DamageIsDetected`) needs more: that equal roots mean equal fact sets.
`RootTellsSetsApart` proves it for finite sets of any size. A node's depth is the number of left
children down to a leaf; on level k every node but the last has depth k and the last, which may have
been promoted, at most k. A promoted node is thus never taken for a pair, so a level's successor
determines the level (`NextTellsLevelsApart`). The levels of two sets with one root meet at the height
of both their sizes together, and so are equal down to the leaves, which `SortedIsOnto` shows to be the
fact hashes, each once. What is assumed is in `Merkle`: hashes are terms, so that SHA-256 has no
collisions. On top of `IInv`, `VerdictIsOfRead` says that whoever reported a match is done and the
registry keeps the root of what it read.

`ViewsProofs` has what the other modules need of the queries. A sum over a set is a fold of a
CHOOSE-recursive function; the lemmas show that it exists and does not depend on the order (`SumsExist`,
`SumsAgree`), how it splits over unions, groups and renamed indices, and from that:
`ViewBySchemeCountsAll`, `ViewByPayeeCountsAll`, `EntityFlowsCountAll`, `NodesAreListed`, each for any
finite set of facts and any assignments. `NodesAreListed` is what finding 3 leaves of the mirror:
whatever versions there are, a node's count is the number of facts its drill-down lists whose latest
code is the node's, so the drill-down may list too much but misses nothing. It needs that a latest
version exists (`LatestExists`). The library's induction theorems take an operator and cannot be used
here; `NaturalInduction` and `SetInduction` are proved instead for a set in place of the predicate, from
the well-foundedness of < on the naturals.

`ClassifyProofs` proves, for any facts, mapping files, reviewers and number of overlapping loaders:
`TypeCorrect`, `NothingIsInvented`, `ReappliesAreNoOps`, `FilesTakeEffect`, and `ReconciliationHolds`,
the action property `ViewDropsNothing`, from `ViewBySchemeCountsAll`. The inductive invariant says of
each rule row, committed or planned, that it restates a reviewed entry for one of its fact's source
categories (the candidates of a fact only grow, `CandidatesGrow`) and that no other candidate disagrees
unless the row is `overtaken` (without a new assignment of the fact they stay the same,
`CandidatesStay`), and that, beyond version 1, a row with another code or basis has the version just
below; that versions are bounded, so that the latest exists; and that the plan of a loader nobody wrote
beside is what it would plan now.

`ExportProofs` proves, for any transactions, partition, scheme and number of exports: `TypeCorrect`,
`ExportsAreClosed`, `ExportsAreFetchable`, `LaterExportsGrow`, and `DuckMirrorsTheStore`, whose payee
half is `PayeeViewIsTheStores` and whose scheme half needs that both views count every fact in scope.
The invariant compares each table an export holds with what was committed when it read the facts: the
facts it holds are exactly those, each later table read so far is closed over the earlier ones, and
holds what the exports registered before it hold.

`DuckProofs` proves `TypeCorrect` and `CacheIsWhole` for any number of requests, exports and artifacts:
the invariant says it of the temporary paths as well: whatever a path leads to is whole, or the file of
a request that is writing it or failed there.

`LeadsProofs` proves, for any transactions, thresholds, runs and finitely many calls: `TypeCorrect`,
`OneLeadPerEvidence`, `EvidenceStaysConsistent`, `StatusIsTheLastWord`. The invariant adds that a lead's id is
its evidence, that no draft counts a fact with its correction, and that a call's time stamp is later than
those of the calls that had returned when it began. How the rule sums and compares is never expanded.

`ReadApiProofs` proves, for any transactions, readers, nodes and page size: `ReadersOnlyRead`
(behaviours with readers are behaviours of `Export`, so `ExportsWhileRead` carries its theorems over),
`PagersMissNothing` and `QueriesTellOneStory`. The pager's argument is about places: a fact's place is
the number of facts before it in the node's order, which only grows while facts are only added;
`ReadInv` says that whatever the node had all along and was not shown has a place at or after the
reader's offset, and that the answers of a page in progress are still true. `QueriesAgree` follows from
the theorems of `ViewsProofs`, by splitting the sums of cross-cuts and comparisons over scopes.

Each inductive invariant was checked by TLC on the run of its module before it was proved.

Assumptions. Besides the types of the constants, the proofs use what the schema and the code enforce:
amounts are integers, codes and versions naturals, a fact's grain one of the three the CHECK constraint
allows, fact ids are ranked without ties (`RankAssumption`; `ORDER BY amount DESC, fact_id`), and a run
publishes finitely many fact hashes, ordered like numbers (`PublishedAssumption`).

Only model-checked: `BackfillExits` and `TornHeals` (liveness is out of the prover's reach), and that
the Merkle root is the tree hash of RFC 6962 (its definition is RECURSIVE). All other properties of the
passing runs are stated by a theorem. The findings are counterexamples, and no theorem touches what they
violate.

## 5. Not modelled, and what is left

Not modelled, with the reason:

- The result hash (`verify.go`, both SDKs) and money (`AddDecimals`, `parseMinor`, the SDKs' and the web's
  decimals): string arithmetic and canonical JSON. Amounts are integers in the models, and the order of the
  result hash's facts is not represented.
- The rate limit and the recording of fixtures in `adapter-sdk-ts`, the paging loops of the adapters, the
  Python SDK: `Ingest` takes what an adapter may answer as its input.
- Provenance, entity search, the listing handlers, parameter syntax of the API, the coverage denominator
  (a `control_total` is inserted once and never revised; no run would show it change).
- The conformance suite, the migrations runner, generated types, the schema, web rendering: they keep no state
  or are sequential drivers of parts modelled elsewhere.

Next, in this order:

1. `Money` and `ResultHash` as pure modules over bounded inputs, with 64-bit width.
2. `AdapterHttp`: rate limit and recording as asynchronous tasks.
3. A refinement of `Store` by `Ingest` and `Classify`: its transactions are their commits.
