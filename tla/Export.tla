------------------------------- MODULE Export -------------------------------
(***************************************************************************)
(* `orchestrator export-parquet` (D29): an invocation reads a partition    *)
(* with one statement per table while transactions commit, puts one        *)
(* artifact per table in object storage and registers the export.          *)
(*                                                                         *)
(* An artifact is <<table, rows>>: its key is the hash of its bytes, which *)
(* are written deterministically, so equal contents are one object.        *)
(***************************************************************************)
EXTENDS Store, Sequences

CONSTANTS
    Scope,          \* the partition exported, [jur, year], and the flow viewed
    Scheme,         \* the scheme viewed
    Exports         \* invocations of export-parquet for the partition

VARIABLES
    objects,    \* the artifacts in object storage
    registry,   \* the exports with a parquet_export row, in the order of exported_at
    pc,         \* pc[e]: how far an export has come
    at,         \* at[e]: the table it reads next, by its place in Tables
    held,       \* held[e][t]: the rows it read from table t
    asOf,       \* history, asOf[e]: what was committed when e read the facts
    after       \* history, after[e]: the exports registered when e began

reading == <<at, held, asOf, after>>
vars == <<committed, objects, registry, pc, reading>>

-----------------------------------------------------------------------------
InPartition(F) == {f \in F : f.jur = Scope.jur /\ f.year = Scope.year}

\* Mutants of Tables: the order of readPartition's statements.
TablesEntitiesFirst == <<"entities", "facts", "assignments", "codes">>
TablesAssignmentsFirst == <<"assignments", "facts", "codes", "entities">>
TablesCodesFirst == <<"codes", "facts", "assignments", "entities">>

\* The order in which the tables are read, uploaded and cached.
Tables == <<"facts", "assignments", "codes", "entities">>

TableNames == {"facts", "assignments", "codes", "entities"}

\* Mutant of Contents: the export leaves superseded facts out.
ContentsCurrent(t) ==
    LET F == InPartition(Facts)
    IN  CASE t = "facts" -> InPartition(Current(Facts))
          [] t = "assignments" -> {a \in Asg : \E f \in F : f.id = a.fact}
          [] t = "codes" -> CodesOf(Asg)
          [] t = "entities" -> PayeesOf(F)

\* What readPartition selects from a table.
Contents(t) ==
    LET F == InPartition(Facts)
    IN  CASE t = "facts" -> F
          [] t = "assignments" -> {a \in Asg : \E f \in F : f.id = a.fact}
          [] t = "codes" -> CodesOf(Asg)
          [] t = "entities" -> PayeesOf(F)

NothingRead == [t \in TableNames |-> {}]

\* Mutant of Artifact: the file keeps the name of the first table.
ArtifactMisnamed(e, t) == <<"facts", held[e][t]>>

Artifact(e, t) == <<t, held[e][t]>>

Registered == {registry[i] : i \in 1..Len(registry)}

\* The queries of duck.go over an export's files.
DuckViewByScheme(e) == ViewByScheme(held[e]["facts"], held[e]["assignments"], Scope, Scheme)
DuckViewByPayee(e) == ViewByPayee(held[e]["facts"], held[e]["entities"], Scope)

Goto(e, stage) == pc' = [pc EXCEPT ![e] = stage]

\* The export fails, and what it had read is gone.
Ends(e) ==
    /\ Goto(e, "failed")
    /\ at' = [at EXCEPT ![e] = 1]
    /\ held' = [held EXCEPT ![e] = NothingRead]
    /\ asOf' = [asOf EXCEPT ![e] = {}]
    /\ after' = [after EXCEPT ![e] = {}]

Init ==
    /\ committed = {}
    /\ objects = {}
    /\ registry = <<>>
    /\ pc = [e \in Exports |-> "read"]
    /\ at = [e \in Exports |-> 1]
    /\ held = [e \in Exports |-> NothingRead]
    /\ asOf = [e \in Exports |-> {}]
    /\ after = [e \in Exports |-> {}]

-----------------------------------------------------------------------------
\* A document is ingested, or a batch of the classification loader applied.
Commit(x) ==
    /\ StoreCommit(x)
    /\ UNCHANGED <<objects, registry, pc, reading>>

\* readPartition: one statement, with a snapshot of its own, per table.
Read(e) ==
    /\ pc[e] = "read"
    /\ LET t == Tables[at[e]]
       IN  /\ held' = [held EXCEPT ![e][t] = Contents(t)]
           /\ asOf' = [asOf EXCEPT ![e] = IF t = "facts" THEN committed ELSE @]
    /\ after' = [after EXCEPT ![e] = IF at[e] = 1 THEN Registered ELSE @]
    /\ IF at[e] < Len(Tables) THEN at' = [at EXCEPT ![e] = @ + 1] /\ UNCHANGED pc
       ELSE at' = [at EXCEPT ![e] = 1] /\ Goto(e, "upload")
    /\ UNCHANGED <<committed, objects, registry>>

\* Mutant of Upload: an upload that fails is not noticed.
UploadUnchecked(e) ==
    /\ pc[e] = "upload"
    /\ \E n \in 0..Len(Tables) :
          objects' = objects \cup {Artifact(e, Tables[i]) : i \in 1..n}
    /\ Goto(e, "register")
    /\ UNCHANGED <<committed, registry, reading>>

\* The artifacts are put under their hashes, in order; a failure leaves the first
\* few of them.
Upload(e) ==
    /\ pc[e] = "upload"
    /\ \E n \in 0..Len(Tables) :
          /\ objects' = objects \cup {Artifact(e, Tables[i]) : i \in 1..n}
          /\ IF n = Len(Tables) THEN Goto(e, "register") /\ UNCHANGED reading ELSE Ends(e)
    /\ UNCHANGED <<committed, registry>>

\* The parquet_export row, with exported_at = now(), the newest so far.
Register(e) ==
    /\ pc[e] = "register"
    /\ registry' = Append(registry, e)
    /\ Goto(e, "done")
    /\ UNCHANGED <<committed, objects, reading>>

\* A statement fails, or the process is killed: what it stored stays.
Fail(e) ==
    /\ pc[e] \notin {"done", "failed"}
    /\ Ends(e)
    /\ UNCHANGED <<committed, objects, registry>>

Next ==
    \/ \E x \in Transactions : Commit(x)
    \/ \E e \in Exports : Read(e) \/ Upload(e) \/ Register(e) \/ Fail(e)

Spec == Init /\ [][Next]_vars

-----------------------------------------------------------------------------
(***************************************************************************)
(* Properties.                                                             *)
(***************************************************************************)
RowPool(t) ==
    CASE t = "facts" -> FactPool
      [] t = "assignments" -> AsgPool
      [] t = "codes" -> CodesOf(AsgPool)
      [] t = "entities" -> PayeesOf(FactPool)

TypeOK ==
    /\ committed \subseteq Transactions
    /\ \A a \in objects : a[1] \in TableNames /\ a[2] \subseteq RowPool(a[1])
    /\ registry \in Seq(Exports)
    /\ pc \in [Exports -> {"read", "upload", "register", "done", "failed"}]
    /\ at \in [Exports -> 1..Len(Tables)]
    /\ DOMAIN held = Exports
    /\ \A e \in Exports : DOMAIN held[e] = TableNames /\ \A t \in TableNames : held[e][t] \subseteq RowPool(t)
    /\ asOf \in [Exports -> SUBSET Transactions]
    /\ after \in [Exports -> SUBSET Exports]

\* The tables are read at different moments, and the files still belong together:
\* every payee has its entity, every code its label, and each fact the assignments
\* it had when the facts were read, whatever committed in between.
ExportIsClosed ==
    \A e \in Registered :
        /\ PayeesOf(held[e]["facts"]) \subseteq held[e]["entities"]
        /\ CodesOf(held[e]["assignments"]) \subseteq held[e]["codes"]
        /\ \A a \in AsgOf(asOf[e]) :
              (\E f \in held[e]["facts"] : f.id = a.fact) => a \in held[e]["assignments"]

\* duck.go: "ViewByPayee mirrors store.ViewByPayee": the payee view of an export is
\* the store's at the moment its facts were read, corrections included, and so are
\* the totals of its scheme view, provided that facts are corrected in their own
\* partition.  How the scheme view splits them by code may mix two moments.
CorrectedInPlace(F) ==
    \A f, g \in F : g.supersedes = f.id => f.jur = g.jur /\ f.year = g.year

DuckMirrorsStore ==
    \A e \in Registered :
        LET F == FactsOf(asOf[e])
            byScheme == ViewByScheme(F, AsgOf(asOf[e]), Scope, Scheme)
        IN  CorrectedInPlace(F) =>
                /\ DuckViewByPayee(e) = ViewByPayee(F, PayeesOf(F), Scope)
                /\ DuckViewByScheme(e).total = byScheme.total
                /\ DuckViewByScheme(e).count = byScheme.count

\* A registered export has its four objects, whatever failed before or since: a
\* request that finds it can fetch it.
RegisteredIsFetchable ==
    \A e \in Registered, t \in TableNames : Artifact(e, t) \in objects

\* An export that began after another was registered holds all that one holds:
\* only exports that overlap can leave the newest row with older contents.
LaterExportsHoldMore ==
    \A e \in Registered : \A d \in after[e], t \in TableNames : held[d][t] \subseteq held[e][t]
=============================================================================
