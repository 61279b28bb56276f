------------------------------- MODULE Ledger -------------------------------
(***************************************************************************)
(* What the Outlays store promises about its public record: a ledger of    *)
(* rows that only ever grows, in which a run's rows appear all at once.    *)
(*                                                                         *)
(* A row is a record [table, key, by, refs]: the table it is in, its       *)
(* primary key, the run whose transaction wrote it, and the (table, key)   *)
(* pairs its foreign keys name.  A run is a record [attempt, year].        *)
(* Module Ingest is the orchestrator that implements this specification.   *)
(***************************************************************************)
EXTENDS Naturals

VARIABLES
    rows,       \* the committed rows of the append-only data tables
    failed,     \* the runs recorded as status='failed' in ingestion_run
    objects     \* the raw-snapshot keys present in object storage

lvars == <<rows, failed, objects>>

-----------------------------------------------------------------------------
Key(r) == <<r.table, r.key>>

Keys(R) == {Key(r) : r \in R}

\* The (table, key) of the ingestion_run row of a run.
RunKey(run) == <<"run", run>>

\* The object-storage key of a raw_snapshot row: its partition and its hash.
StorageKey(r) == <<r.by.year, r.key>>

-----------------------------------------------------------------------------
LedgerInit ==
    /\ rows = {}
    /\ failed = {}
    /\ objects = {}

\* One run's rows become visible in one step: they name new keys, each once,
\* their references resolve, their bytes are already stored, and the run's own
\* row is among them.
Publish ==
    LET batch == rows' \ rows
    IN  /\ rows \subseteq rows'
        /\ \E r \in batch :
              /\ Key(r) = RunKey(r.by)
              /\ \A s \in batch : s.by = r.by
              /\ r.by \notin failed
        /\ \A r \in batch : Key(r) \notin Keys(rows)
        /\ \A r, s \in batch : Key(r) = Key(s) => r = s
        /\ \A r \in batch : r.refs \subseteq Keys(rows')
        /\ \A r \in batch : r.table = "snap" => StorageKey(r) \in objects
        /\ UNCHANGED <<failed, objects>>

\* A run that did not publish is recorded as failed, once.
RecordFailure ==
    /\ \E run \in failed' \ failed :
          /\ failed' = failed \cup {run}
          /\ RunKey(run) \notin Keys(rows)
    /\ UNCHANGED <<rows, objects>>

\* Snapshot bytes are stored; nothing is ever removed.
StoreObject ==
    /\ objects \subseteq objects'
    /\ UNCHANGED <<rows, failed>>

LedgerNext == Publish \/ RecordFailure \/ StoreObject

LedgerSpec == LedgerInit /\ [][LedgerNext]_lvars
=============================================================================
