----------------------------- MODULE DuckProofs -----------------------------
(***************************************************************************)
(* Theorems about module Duck, for any number of exports, artifacts shared *)
(* between them, and concurrent requests.                                  *)
(***************************************************************************)
EXTENDS Duck, TLAPS

Serving == {"stat", "open", "write", "rename", "query"}
Idle == {"lookup", "done", "failed", "noExport"}

\* A request being served is at an artifact of the export it serves.
ServesItsExport ==
    \A q \in Requests :
        IF pc[q] \in Serving THEN wanted[q] \in Exports /\ at[q] \in 1..Len(Files[wanted[q]])
        ELSE wanted[q] = NoExport /\ at[q] = 1

\* A request that writes has a file open.
WritersHaveFiles == \A q \in Requests : pc[q] = "write" => fd[q] \in Copies

\* Not only the cached files: whatever a path leads to is whole, or the file of a
\* request that writes it or failed there.
TornIsHeld ==
    \A f \in (tmp \cup cached) \ whole : \E q \in Requests : fd[q] = f /\ pc[q] \in {"write", "failed"}

IInv ==
    /\ TypeOK
    /\ ServesItsExport
    /\ WritersHaveFiles
    /\ TornIsHeld

-----------------------------------------------------------------------------
\* An export has artifacts.
LEMMA FilesFacts ==
  ASSUME NEW e \in Exports
  PROVE  /\ Len(Files[e]) \in Nat \ {0}
         /\ \A i \in 1..Len(Files[e]) : Files[e][i] \in Artifacts
  <1>1. Files[e] \in Seq(Artifacts) /\ Files[e] # <<>>
    BY FilesAssumption
  <1>2. QED
    BY <1>1

\* The last export registered is one.
LEMMA LastFacts ==
  ASSUME registry \in Seq(Exports), registry # <<>>
  PROVE  Last(registry) \in Exports
  BY DEF Last

\* What a request being served fetches is an artifact.
LEMMA ArtifactType ==
  ASSUME IInv, NEW q \in Requests, pc[q] \in Serving
  PROVE  Artifact(q) \in Artifacts
  <1>1. wanted[q] \in Exports /\ at[q] \in 1..Len(Files[wanted[q]])
    BY DEF IInv, ServesItsExport
  <1>2. QED
    BY <1>1, FilesFacts DEF Artifact

\* The stages of a request.
LEMMA Stages == Serving \cap Idle = {}
  BY DEF Serving, Idle

\* The initial state.
LEMMA InvInit == Init => IInv
  <1> SUFFICES ASSUME Init PROVE IInv
    OBVIOUS
  <1>1. TypeOK
    BY DEF Init, TypeOK
  <1>2. ServesItsExport /\ WritersHaveFiles /\ TornIsHeld
    BY DEF Init, ServesItsExport, WritersHaveFiles, TornIsHeld, Serving
  <1>3. QED
    BY <1>1, <1>2 DEF IInv

-----------------------------------------------------------------------------
(***************************************************************************)
(* Where a request stands.                                                 *)
(***************************************************************************)
Stage == {"lookup", "stat", "open", "write", "rename", "query", "done", "failed", "noExport"}

\* The part of TypeOK and of the invariant that is about a request's place.
Placed ==
    /\ pc \in [Requests -> Stage]
    /\ wanted \in [Requests -> Exports \cup {NoExport}]
    /\ at \in [Requests -> Nat \ {0}]
    /\ ServesItsExport

\* A request that ends is at no artifact.
LEMMA EndsPlace ==
  ASSUME Placed, NEW q \in Requests, NEW o \in Idle, Ends(q, o)
  PROVE  Placed' /\ pc' = [pc EXCEPT ![q] = o]
  BY DEF Placed, Ends, Goto, Idle, Stage, Serving, ServesItsExport

\* The next artifact is one of the same export.
LEMMA NextPlace ==
  ASSUME Placed, NEW q \in Requests, pc[q] \in Serving, NextArtifact(q)
  PROVE  Placed' /\ \E s \in {"stat", "query"} : pc' = [pc EXCEPT ![q] = s]
  <1>1. wanted[q] \in Exports /\ at[q] \in 1..Len(Files[wanted[q]]) /\ wanted' = wanted
    BY DEF Placed, ServesItsExport, NextArtifact
  <1>2. Len(Files[wanted[q]]) \in Nat \ {0}
    BY <1>1, FilesFacts
  <1>3. CASE IsLast(q)
    <2>1. pc' = [pc EXCEPT ![q] = "query"] /\ at' = [at EXCEPT ![q] = 1]
      BY <1>3 DEF NextArtifact, Goto
    <2>2. QED
      BY <1>1, <1>2, <2>1 DEF Placed, ServesItsExport, Serving, Stage
  <1>4. CASE ~ IsLast(q)
    <2>1. pc' = [pc EXCEPT ![q] = "stat"] /\ at' = [at EXCEPT ![q] = at[q] + 1]
      BY <1>4 DEF NextArtifact, Goto
    <2>2. at[q] + 1 \in 1..Len(Files[wanted[q]]) /\ at[q] + 1 \in Nat \ {0}
      BY <1>1, <1>2, <1>4 DEF IsLast
    <2>3. QED
      BY <1>1, <2>1, <2>2 DEF Placed, ServesItsExport, Serving, Stage
  <1>5. QED
    BY <1>3, <1>4

\* A request goes on with the artifact it is at.
LEMMA GotoPlace ==
  ASSUME Placed, NEW q \in Requests, pc[q] \in Serving, NEW s \in Serving,
         pc' = [pc EXCEPT ![q] = s], UNCHANGED <<wanted, at>>
  PROVE  Placed'
  BY DEF Placed, Serving, Stage, ServesItsExport

\* Every step keeps every request in its place.
LEMMA PlaceStep == ASSUME IInv, [Next]_vars PROVE Placed'
  <1>0. Placed
    BY DEF IInv, TypeOK, Placed, Stage
  <1>1. ASSUME NEW e \in Exports, Register(e) PROVE Placed'
    BY <1>0, <1>1 DEF Register, Placed, ServesItsExport
  <1>2. ASSUME NEW q \in Requests, Lookup(q) PROVE Placed'
    <2>1. pc[q] = "lookup" /\ wanted[q] = NoExport /\ at[q] = 1 /\ at' = at
      BY <1>0, <1>2 DEF Lookup, Placed, ServesItsExport, Serving
    <2>2. CASE registry = <<>>
      BY <1>0, <1>2, <2>1, <2>2 DEF Lookup, Goto, Placed, ServesItsExport, Serving, Stage
    <2>3. CASE registry # <<>>
      <3>1. wanted' = [wanted EXCEPT ![q] = Last(registry)] /\ pc' = [pc EXCEPT ![q] = "stat"]
        BY <1>2, <2>3 DEF Lookup, Goto
      <3>2. Last(registry) \in Exports
        BY <2>3, LastFacts DEF IInv, TypeOK
      <3>3. 1 \in 1..Len(Files[Last(registry)])
        BY <3>2, FilesFacts
      <3>4. QED
        BY <1>0, <2>1, <3>1, <3>2, <3>3 DEF Placed, ServesItsExport, Serving, Stage
    <2>4. QED
      BY <2>2, <2>3
  <1>3. ASSUME NEW q \in Requests, Stat(q) PROVE Placed'
    <2>1. pc[q] \in Serving
      BY <1>3 DEF Stat, Serving
    <2>2. CASE Of(cached, Artifact(q)) # {}
      BY <1>0, <1>3, <2>1, <2>2, NextPlace DEF Stat
    <2>3. CASE Of(cached, Artifact(q)) = {}
      <3>1. pc' = [pc EXCEPT ![q] = "open"] /\ "open" \in Serving /\ UNCHANGED <<wanted, at>>
        BY <1>3, <2>3 DEF Stat, Goto, Serving
      <3>2. QED
        BY <1>0, <2>1, <3>1, GotoPlace
    <2>4. QED
      BY <2>2, <2>3
  <1>4. ASSUME NEW q \in Requests, Open(q) PROVE Placed'
    <2>1. pc[q] \in Serving /\ pc' = [pc EXCEPT ![q] = "write"] /\ "write" \in Serving /\ UNCHANGED <<wanted, at>>
      BY <1>4 DEF Open, Goto, Serving
    <2>2. QED
      BY <1>0, <2>1, GotoPlace
  <1>5. ASSUME NEW q \in Requests, Write(q) PROVE Placed'
    <2>1. pc[q] \in Serving /\ pc' = [pc EXCEPT ![q] = "rename"] /\ "rename" \in Serving /\ UNCHANGED <<wanted, at>>
      BY <1>5 DEF Write, Goto, Serving
    <2>2. QED
      BY <1>0, <2>1, GotoPlace
  <1>6. ASSUME NEW q \in Requests, Rename(q) PROVE Placed'
    <2>1. pc[q] \in Serving /\ "failed" \in Idle /\ (Ends(q, "failed") \/ NextArtifact(q))
      BY <1>6 DEF Rename, Serving, Idle
    <2>2. QED
      BY <1>0, <2>1, EndsPlace, NextPlace
  <1>7. ASSUME NEW q \in Requests, Query(q) PROVE Placed'
    <2>1. pc[q] \in Serving /\ pc[q] = "query"
      BY <1>7 DEF Query, Serving
    <2>2. CASE Of(cached, Artifact(q)) \subseteq whole /\ ~ IsLast(q)
      <3>1. at' = [at EXCEPT ![q] = at[q] + 1] /\ UNCHANGED <<pc, wanted>>
        BY <1>7, <2>2 DEF Query
      <3>2. at[q] \in 1..Len(Files[wanted[q]]) /\ wanted[q] \in Exports
        BY <1>0, <2>1 DEF Placed, ServesItsExport
      <3>3. at[q] + 1 \in 1..Len(Files[wanted[q]]) /\ at[q] + 1 \in Nat \ {0}
        BY <2>2, <3>2, FilesFacts DEF IsLast
      <3>4. QED
        BY <1>0, <2>1, <3>1, <3>2, <3>3 DEF Placed, ServesItsExport
    <2>3. CASE ~ (Of(cached, Artifact(q)) \subseteq whole /\ ~ IsLast(q))
      <3>1. \E o \in {"done", "failed"} : Ends(q, o)
        BY <1>7, <2>3 DEF Query
      <3>2. {"done", "failed"} \subseteq Idle
        BY DEF Idle
      <3>3. QED
        BY <1>0, <3>1, <3>2, EndsPlace
    <2>4. QED
      BY <2>2, <2>3
  <1>8. ASSUME NEW q \in Requests, Fail(q) PROVE Placed'
    <2>1. Ends(q, "failed") /\ "failed" \in Idle
      BY <1>8 DEF Fail, Idle
    <2>2. QED
      BY <1>0, <2>1, EndsPlace
  <1>9. CASE UNCHANGED vars
    BY <1>0, <1>9 DEF vars, Placed, ServesItsExport
  <1>10. QED
    BY <1>1, <1>2, <1>3, <1>4, <1>5, <1>6, <1>7, <1>8, <1>9 DEF Next, Step

-----------------------------------------------------------------------------
(***************************************************************************)
(* The files.                                                              *)
(***************************************************************************)
\* The part of TypeOK and of the invariant that is about files.
Filed ==
    /\ registry \in Seq(Exports)
    /\ tmp \subseteq Copies /\ cached \subseteq Copies /\ whole \subseteq Copies
    /\ fd \in [Requests -> Copies \cup {NoCopy}]
    /\ \A f, g \in tmp : f.artifact = g.artifact => f = g
    /\ \A f, g \in cached : f.artifact = g.artifact => f = g
    /\ WritersHaveFiles
    /\ TornIsHeld

\* A request goes on, ends or fails without touching a file; it keeps the one it
\* had open.
LEMMA SameFiles ==
  ASSUME Filed, pc \in [Requests -> Stage], UNCHANGED <<registry, files, fd>>,
         NEW q \in Requests, NEW s \in Stage, s # "write",
         pc' = [pc EXCEPT ![q] = s] \/ UNCHANGED pc,
         pc[q] \in {"write", "failed"} => s = "failed"
  PROVE  Filed'
  <1>1. UNCHANGED <<registry, tmp, cached, whole, fd>>
    BY DEF files
  <1>2. \A r \in Requests :
           /\ pc'[r] = "write" => pc[r] = "write"
           /\ pc[r] \in {"write", "failed"} => pc'[r] \in {"write", "failed"}
    OBVIOUS
  <1>3. WritersHaveFiles' /\ TornIsHeld'
    BY <1>1, <1>2 DEF Filed, WritersHaveFiles, TornIsHeld
  <1>4. QED
    BY <1>1, <1>3 DEF Filed

\* Every step keeps names unique, and leaves no torn file without its writer.
LEMMA FilesStep == ASSUME IInv, [Next]_vars PROVE Filed'
  <1>0. Filed /\ pc \in [Requests -> Stage] /\ Placed
    BY DEF IInv, TypeOK, Filed, Stage, Placed
  <1>1. ASSUME NEW e \in Exports, Register(e) PROVE Filed'
    <2>1. registry' = Append(registry, e) /\ UNCHANGED <<tmp, cached, whole, pc, fd>>
      BY <1>1 DEF Register, files
    <2>2. registry' \in Seq(Exports)
      BY <1>0, <2>1 DEF Filed
    <2>3. WritersHaveFiles' /\ TornIsHeld'
      BY <1>0, <2>1 DEF Filed, WritersHaveFiles, TornIsHeld
    <2>4. QED
      BY <1>0, <2>1, <2>2, <2>3 DEF Filed
  <1>2. ASSUME NEW q \in Requests, Lookup(q) PROVE Filed'
    <2>1. /\ pc[q] = "lookup" /\ UNCHANGED <<registry, files, fd>>
          /\ \E s \in {"noExport", "stat"} : pc' = [pc EXCEPT ![q] = s]
      BY <1>2 DEF Lookup, Goto
    <2>2. QED
      BY <1>0, <2>1, SameFiles DEF Stage
  <1>3. ASSUME NEW q \in Requests, Stat(q) PROVE Filed'
    <2>1. pc[q] = "stat" /\ pc[q] \in Serving /\ UNCHANGED <<registry, files, fd>>
      BY <1>3 DEF Stat, Serving
    <2>2. \E s \in {"stat", "query", "open"} : pc' = [pc EXCEPT ![q] = s]
      BY <1>0, <1>3, <2>1, NextPlace DEF Stat, Goto
    <2>3. QED
      BY <1>0, <2>1, <2>2, SameFiles DEF Stage
  <1>4. ASSUME NEW q \in Requests, Open(q) PROVE Filed'
    <2> DEFINE here == Of(tmp, Artifact(q))
               file == IF here = {} THEN [artifact |-> Artifact(q), by |-> q] ELSE CHOOSE f \in here : TRUE
    <2>1. /\ tmp' = tmp \cup {file} /\ whole' = whole \ {file} /\ fd' = [fd EXCEPT ![q] = file]
          /\ pc[q] = "open" /\ pc' = [pc EXCEPT ![q] = "write"] /\ UNCHANGED <<registry, cached>>
      BY <1>4 DEF Open, Goto
    <2>2. Artifact(q) \in Artifacts
      BY <2>1, ArtifactType DEF Serving
    <2>3. /\ file \in Copies /\ file.artifact = Artifact(q)
          /\ \A f \in tmp : f.artifact = Artifact(q) => f = file
      <3>1. CASE here = {}
        BY <2>2, <3>1 DEF Of, Copies
      <3>2. CASE here # {}
        <4>1. file \in here
          BY <3>2
        <4>2. QED
          BY <1>0, <4>1 DEF Of, Filed
      <3>3. QED
        BY <3>1, <3>2
    <2> HIDE DEF file, here
    <2>4. tmp' \subseteq Copies /\ cached' \subseteq Copies /\ whole' \subseteq Copies
      BY <1>0, <2>1, <2>3 DEF Filed
    <2>5. \A f, g \in tmp' : f.artifact = g.artifact => f = g
      BY <1>0, <2>1, <2>3 DEF Filed
    <2>6. fd' \in [Requests -> Copies \cup {NoCopy}] /\ fd'[q] = file /\ pc'[q] = "write"
      BY <1>0, <2>1, <2>3 DEF Filed
    <2>7. \A r \in Requests \ {q} : fd'[r] = fd[r] /\ pc'[r] = pc[r]
      BY <1>0, <2>1 DEF Filed
    <2>8. WritersHaveFiles'
      BY <1>0, <2>3, <2>6, <2>7 DEF Filed, WritersHaveFiles
    <2>9. TornIsHeld'
      <3>1. SUFFICES ASSUME NEW f \in (tmp' \cup cached') \ whole'
                     PROVE  \E r \in Requests : fd'[r] = f /\ pc'[r] \in {"write", "failed"}
        BY DEF TornIsHeld
      <3>2. CASE f = file
        BY <2>6, <3>2
      <3>3. CASE f # file
        <4>1. f \in (tmp \cup cached) \ whole
          BY <2>1, <3>3
        <4>2. PICK r \in Requests : fd[r] = f /\ pc[r] \in {"write", "failed"}
          BY <1>0, <4>1 DEF Filed, TornIsHeld
        <4>3. r # q
          BY <2>1, <4>2
        <4>4. QED
          BY <2>7, <4>2, <4>3
      <3>4. QED
        BY <3>2, <3>3
    <2>10. QED
      BY <1>0, <2>1, <2>4, <2>5, <2>6, <2>8, <2>9 DEF Filed
  <1>5. ASSUME NEW q \in Requests, Write(q) PROVE Filed'
    <2>1. /\ whole' = whole \cup {fd[q]} /\ fd' = [fd EXCEPT ![q] = NoCopy]
          /\ pc[q] = "write" /\ pc' = [pc EXCEPT ![q] = "rename"] /\ UNCHANGED <<registry, tmp, cached>>
      BY <1>5 DEF Write, Goto
    <2>2. fd[q] \in Copies
      BY <1>0, <2>1 DEF Filed, WritersHaveFiles
    <2>3. fd' \in [Requests -> Copies \cup {NoCopy}]
      BY <1>0, <2>1 DEF Filed
    <2>4. /\ \A r \in Requests \ {q} : fd'[r] = fd[r] /\ pc'[r] = pc[r]
          /\ pc'[q] = "rename"
      BY <1>0, <2>1 DEF Filed
    <2>5. WritersHaveFiles'
      BY <1>0, <2>4 DEF Filed, WritersHaveFiles
    <2>6. TornIsHeld'
      <3>1. SUFFICES ASSUME NEW f \in (tmp' \cup cached') \ whole'
                     PROVE  \E r \in Requests : fd'[r] = f /\ pc'[r] \in {"write", "failed"}
        BY DEF TornIsHeld
      <3>2. f \in (tmp \cup cached) \ whole /\ f # fd[q]
        BY <2>1
      <3>3. PICK r \in Requests : fd[r] = f /\ pc[r] \in {"write", "failed"}
        BY <1>0, <3>2 DEF Filed, TornIsHeld
      <3>4. QED
        BY <2>4, <3>2, <3>3
    <2>7. QED
      BY <1>0, <2>1, <2>2, <2>3, <2>5, <2>6 DEF Filed
  <1>6. ASSUME NEW q \in Requests, Rename(q) PROVE Filed'
    <2> DEFINE here == Of(tmp, Artifact(q))
    <2>1. pc[q] = "rename" /\ pc[q] \in Serving /\ UNCHANGED <<registry, fd>>
      BY <1>6 DEF Rename, Serving
    <2>2. CASE here = {}
      <3>1. Ends(q, "failed") /\ UNCHANGED files
        BY <1>6, <2>2 DEF Rename
      <3>2. pc' = [pc EXCEPT ![q] = "failed"]
        BY <3>1 DEF Ends, Goto
      <3>3. QED
        BY <1>0, <2>1, <3>1, <3>2, SameFiles DEF Stage
    <2>3. CASE here # {}
      <3>1. /\ cached' = (cached \ Of(cached, Artifact(q))) \cup here /\ tmp' = tmp \ here
            /\ NextArtifact(q) /\ whole' = whole
        BY <1>6, <2>3 DEF Rename
      <3>2. \E s \in {"stat", "query"} : pc' = [pc EXCEPT ![q] = s]
        BY <1>0, <2>1, <3>1, NextPlace
      <3>3. /\ \A r \in Requests \ {q} : pc'[r] = pc[r]
            /\ pc'[q] \in {"stat", "query"}
        BY <1>0, <3>2
      <3>4. tmp' \cup cached' \subseteq tmp \cup cached /\ tmp' \subseteq tmp
        BY <3>1 DEF Of
      <3>5. \A f, g \in cached' : f.artifact = g.artifact => f = g
        BY <1>0, <3>1 DEF Filed, Of
      <3>6. WritersHaveFiles'
        BY <1>0, <2>1, <3>3 DEF Filed, WritersHaveFiles
      <3>7. TornIsHeld'
        <4>1. SUFFICES ASSUME NEW f \in (tmp' \cup cached') \ whole'
                       PROVE  \E r \in Requests : fd'[r] = f /\ pc'[r] \in {"write", "failed"}
          BY DEF TornIsHeld
        <4>2. f \in (tmp \cup cached) \ whole
          BY <3>1, <3>4
        <4>3. PICK r \in Requests : fd[r] = f /\ pc[r] \in {"write", "failed"}
          BY <1>0, <4>2 DEF Filed, TornIsHeld
        <4>4. QED
          BY <2>1, <3>3, <4>3
      <3>8. QED
        BY <1>0, <2>1, <3>1, <3>4, <3>5, <3>6, <3>7 DEF Filed
    <2>4. QED
      BY <2>2, <2>3
  <1>7. ASSUME NEW q \in Requests, Query(q) PROVE Filed'
    <2>1. /\ pc[q] = "query" /\ UNCHANGED <<registry, files, fd>>
          /\ UNCHANGED pc \/ \E s \in {"done", "failed"} : pc' = [pc EXCEPT ![q] = s]
      BY <1>7 DEF Query, Ends, Goto
    <2>2. QED
      BY <1>0, <2>1, SameFiles DEF Stage
  <1>8. ASSUME NEW q \in Requests, Fail(q) PROVE Filed'
    <2>1. UNCHANGED <<registry, files, fd>> /\ pc' = [pc EXCEPT ![q] = "failed"]
      BY <1>8 DEF Fail, Ends, Goto
    <2>2. QED
      BY <1>0, <2>1, SameFiles DEF Stage
  <1>9. CASE UNCHANGED vars
    <2>1. UNCHANGED <<registry, tmp, cached, whole, pc, fd>>
      BY <1>9 DEF vars, files
    <2>2. WritersHaveFiles' /\ TornIsHeld'
      BY <1>0, <2>1 DEF Filed, WritersHaveFiles, TornIsHeld
    <2>3. QED
      BY <1>0, <2>1, <2>2 DEF Filed
  <1>10. QED
    BY <1>1, <1>2, <1>3, <1>4, <1>5, <1>6, <1>7, <1>8, <1>9 DEF Next, Step

-----------------------------------------------------------------------------
(***************************************************************************)
(* The theorems.                                                           *)
(***************************************************************************)
LEMMA InvStep == IInv /\ [Next]_vars => IInv'
  <1> SUFFICES ASSUME IInv, [Next]_vars PROVE IInv'
    OBVIOUS
  <1>1. Placed' /\ Filed'
    BY PlaceStep, FilesStep
  <1>2. \A q \in Requests : wanted'[q] # NoExport => at'[q] \in 1..Len(Files[wanted'[q]])
    BY <1>1 DEF Placed, ServesItsExport
  <1>3. QED
    BY <1>1, <1>2 DEF IInv, TypeOK, Placed, Filed, Stage

\* The inductive invariant of the cache.
THEOREM Invariance == Spec => []IInv
  BY InvInit, InvStep, PTL DEF Spec

\* Every variable keeps its type, and a path leads to one file.
THEOREM TypeCorrect == Spec => []TypeOK
  <1>1. IInv => TypeOK
    BY DEF IInv
  <1>2. QED
    BY <1>1, Invariance, PTL

\* A file found in the cache is whole, unless a request that opened it before it was
\* renamed still writes it, or failed there.
THEOREM CacheIsWhole == Spec => []TornOnlyWhileWritten
  <1>1. IInv => TornOnlyWhileWritten
    BY DEF IInv, TornIsHeld, TornOnlyWhileWritten
  <1>2. QED
    BY <1>1, Invariance, PTL
=============================================================================
