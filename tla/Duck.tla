-------------------------------- MODULE Duck --------------------------------
(***************************************************************************)
(* The API's DuckDB engine (duck.go): requests that find the newest export *)
(* of a partition, copy its artifacts into one cache directory, which      *)
(* outlives the server, and query the copies.                              *)
(*                                                                         *)
(* A copy is a file (an inode) [artifact, by], named by the request that   *)
(* created it.  A path leads to one file at a time: <sha256>.parquet.tmp   *)
(* to one of `tmp`, <sha256>.parquet to one of `cached`; a request that    *)
(* has a file open writes that file wherever its path has been renamed to. *)
(***************************************************************************)
EXTENDS Naturals, Sequences, SequencesExt

CONSTANTS
    Exports,    \* exports of the partition
    Artifacts,  \* artifacts in object storage, each named by its hash
    Files,      \* Files[e]: the artifacts of e in the order they are fetched
    Requests    \* view requests with engine=duckdb

ASSUME FilesAssumption == Files \in [Exports -> Seq(Artifacts) \ {<<>>}]

Copies == [artifact : Artifacts, by : Requests]
NoCopy == [artifact |-> "none", by |-> "none"]

VARIABLES
    registry,   \* the exports registered, in the order of exported_at
    tmp,        \* the files at the temporary paths
    cached,     \* the files at the cache paths
    whole,      \* the files that hold all their bytes
    pc,         \* pc[q]: how far a request has come
    wanted,     \* wanted[q]: the export it serves
    at,         \* at[q]: the artifact it fetches or reads next, by its place in Files
    fd          \* fd[q]: the file it writes; still named if it fails there

files == <<tmp, cached, whole>>
vars == <<registry, files, pc, wanted, at, fd>>

NoExport == "none"

-----------------------------------------------------------------------------
Artifact(q) == Files[wanted[q]][at[q]]

Of(S, a) == {f \in S : f.artifact = a}

Goto(q, stage) == pc' = [pc EXCEPT ![q] = stage]

\* The request is answered, or fails.
Ends(q, outcome) ==
    /\ Goto(q, outcome)
    /\ wanted' = [wanted EXCEPT ![q] = NoExport]
    /\ at' = [at EXCEPT ![q] = 1]

\* Mutant of IsLast: the loop goes one artifact too far.
IsLastTooLate(q) == at[q] > Len(Files[wanted[q]])

IsLast(q) == at[q] = Len(Files[wanted[q]])

\* The artifact is in the cache: the next one is looked for, or the files are read.
NextArtifact(q) ==
    /\ IF IsLast(q) THEN Goto(q, "query") ELSE Goto(q, "stat")
    /\ at' = [at EXCEPT ![q] = IF IsLast(q) THEN 1 ELSE @ + 1]
    /\ UNCHANGED wanted

Init ==
    /\ registry = <<>>
    /\ tmp = {} /\ cached = {} /\ whole = {}
    /\ pc = [q \in Requests |-> "lookup"]
    /\ wanted = [q \in Requests |-> NoExport]
    /\ at = [q \in Requests |-> 1]
    /\ fd = [q \in Requests |-> NoCopy]

-----------------------------------------------------------------------------
\* An export is registered; its objects are in storage (Export!RegisteredIsFetchable).
Register(e) ==
    /\ e \notin ToSet(registry)
    /\ registry' = Append(registry, e)
    /\ UNCHANGED <<files, pc, wanted, at, fd>>

\* partition: the newest row, or ErrNoExport, a 409.
Lookup(q) ==
    /\ pc[q] = "lookup"
    /\ IF registry = <<>> THEN Goto(q, "noExport") /\ UNCHANGED wanted
       ELSE wanted' = [wanted EXCEPT ![q] = Last(registry)] /\ Goto(q, "stat")
    /\ UNCHANGED <<registry, files, at, fd>>

\* ensureCached: a file at the cache path is taken as it is; otherwise the artifact
\* is fetched and its hash checked in memory.
Stat(q) ==
    /\ pc[q] = "stat"
    /\ IF Of(cached, Artifact(q)) # {} THEN NextArtifact(q)
       ELSE Goto(q, "open") /\ UNCHANGED <<at, wanted>>
    /\ UNCHANGED <<registry, files, fd>>

\* os.WriteFile opens the temporary file: a file already there is emptied and shared.
Open(q) ==
    /\ pc[q] = "open"
    /\ LET here == Of(tmp, Artifact(q))
           file == IF here = {} THEN [artifact |-> Artifact(q), by |-> q] ELSE CHOOSE f \in here : TRUE
       IN  /\ tmp' = tmp \cup {file}
           /\ whole' = whole \ {file}
           /\ fd' = [fd EXCEPT ![q] = file]
    /\ Goto(q, "write")
    /\ UNCHANGED <<registry, cached, wanted, at>>

\* Mutant of Write: the bytes go to whatever the temporary path leads to.
WriteByPath(q) ==
    /\ pc[q] = "write"
    /\ whole' = whole \cup Of(tmp, Artifact(q))
    /\ fd' = [fd EXCEPT ![q] = NoCopy]
    /\ Goto(q, "rename")
    /\ UNCHANGED <<registry, tmp, cached, wanted, at>>

\* ... and writes all the bytes to the file it has open, in one write.
Write(q) ==
    /\ pc[q] = "write"
    /\ whole' = whole \cup {fd[q]}
    /\ fd' = [fd EXCEPT ![q] = NoCopy]
    /\ Goto(q, "rename")
    /\ UNCHANGED <<registry, tmp, cached, wanted, at>>

\* Mutant of Rename: a write that fails is not noticed.
RenameUnwritten(q) ==
    /\ pc[q] \in {"write", "rename"}
    /\ LET here == Of(tmp, Artifact(q))
       IN  IF here = {} THEN Ends(q, "failed") /\ UNCHANGED files
           ELSE /\ cached' = (cached \ Of(cached, Artifact(q))) \cup here
                /\ tmp' = tmp \ here
                /\ NextArtifact(q)
                /\ UNCHANGED whole
    /\ UNCHANGED <<registry, fd>>

\* os.Rename: whatever the temporary path leads to replaces what the cache path led
\* to; when another request has renamed it before, there is nothing to rename.
Rename(q) ==
    /\ pc[q] = "rename"
    /\ LET here == Of(tmp, Artifact(q))
       IN  IF here = {} THEN Ends(q, "failed") /\ UNCHANGED files
           ELSE /\ cached' = (cached \ Of(cached, Artifact(q))) \cup here
                /\ tmp' = tmp \ here
                /\ NextArtifact(q)
                /\ UNCHANGED whole
    /\ UNCHANGED <<registry, fd>>

\* The view's query reads the cached files, one after the other; DuckDB refuses a
\* file that is not a whole Parquet file.
Query(q) ==
    /\ pc[q] = "query"
    /\ IF Of(cached, Artifact(q)) \subseteq whole /\ ~ IsLast(q)
       THEN at' = [at EXCEPT ![q] = @ + 1] /\ UNCHANGED <<pc, wanted>>
       ELSE Ends(q, IF Of(cached, Artifact(q)) \subseteq whole THEN "done" ELSE "failed")
    /\ UNCHANGED <<registry, files, fd>>

Step(q) == Lookup(q) \/ Stat(q) \/ Open(q) \/ Write(q) \/ Rename(q) \/ Query(q)

\* A fetch or a write fails, or the server is killed: files stay as they are.
Fail(q) ==
    /\ pc[q] \in {"stat", "open", "write", "rename", "query"}
    /\ Ends(q, "failed")
    /\ UNCHANGED <<registry, files, fd>>

Next ==
    \/ \E e \in Exports : Register(e)
    \/ \E q \in Requests : Step(q) \/ Fail(q)

Spec == Init /\ [][Next]_vars

\* A request that is being served goes on.
FairSpec == Spec /\ \A q \in Requests : WF_vars(Step(q))

-----------------------------------------------------------------------------
(***************************************************************************)
(* Properties.                                                             *)
(***************************************************************************)
TypeOK ==
    /\ registry \in Seq(Exports)
    /\ tmp \subseteq Copies /\ cached \subseteq Copies /\ whole \subseteq Copies
    /\ pc \in [Requests -> {"lookup", "stat", "open", "write", "rename", "query", "done", "failed", "noExport"}]
    /\ fd \in [Requests -> Copies \cup {NoCopy}]
    /\ wanted \in [Requests -> Exports \cup {NoExport}]
    /\ at \in [Requests -> Nat \ {0}]
    /\ \A q \in Requests : wanted[q] # NoExport => at[q] \in 1..Len(Files[wanted[q]])
    /\ \A f, g \in tmp : f.artifact = g.artifact => f = g
    /\ \A f, g \in cached : f.artifact = g.artifact => f = g

\* duck.go, on a file found in the cache: "content-addressed: present means verified
\* at write time".  That is so except while another request, which opened the
\* temporary file before it was renamed, still writes it, or if that one failed there.
TornOnlyWhileWritten ==
    \A f \in cached \ whole : \E q \in Requests : fd[q] = f /\ pc[q] \in {"write", "failed"}

\* Torn files in the cache become whole again: a request that emptied one writes it
\* under its new name, unless that request fails, and then it stays torn.
TornHeals == []<>(\A f \in cached \ whole : \E q \in Requests : fd[q] = f /\ pc[q] = "failed")
=============================================================================
