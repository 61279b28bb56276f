------------------------------- MODULE Anchor -------------------------------
(***************************************************************************)
(* Anchoring a run (`anchor anchor`, D31): invocations of the command read *)
(* a run's fact hashes, ask the registry contract whether the run is       *)
(* anchored, submit its Merkle root and record the transaction in          *)
(* run_anchor; verify_anchor.py recomputes the root and compares it with   *)
(* the chain.  Any of them may be killed, any answer of the chain lost.    *)
(***************************************************************************)
EXTENDS Merkle

CONSTANTS
    Runs,           \* ingestion runs
    Published,      \* Published[r]: the hashes of the facts run r inserts
    Malformed,      \* fact_hash values that are not 64 lowercase hex digits
    Clis,           \* invocations of `anchor anchor`; each sends one transaction at most
    Verifiers       \* invocations of verify_anchor.py

ASSUME PublishedAssumption ==
    /\ Published \in [Runs -> SUBSET Nat]
    /\ \A r \in Runs : IsFiniteSet(Published[r])
    /\ \A r, s \in Runs : r # s => Published[r] \cap Published[s] = {}
ASSUME MalformedAssumption == Malformed \subseteq Nat
ASSUME ProcessesAssumption == Clis \cap Verifiers = {}

\* bytes32(0), what get() answers for a run that is not anchored.
Unset == <<>>

\* The process has chosen no run, and has read no root.
NoRun == "none"

Processes == Clis \cup Verifiers

VARIABLES
    facts,      \* facts[r]: fact_hash of the fiscal_fact rows of run r
    damaged,    \* history: runs whose rows were lost or changed outside the program
    anchors,    \* anchors[r]: the merkleRoot the registry stores
    events,     \* the Anchored events
    pool,       \* transactions sent and not yet in a block
    receipts,   \* receipts[c]: how the transaction of invocation c ended
    rows,       \* run_anchor
    pc,         \* pc[p]: how far an invocation has come
    run,        \* run[p]: the run it was started for
    read,       \* read[p]: the hashes it read from the database
    seen,       \* seen[v]: the root of the event a verifier read
    outcome     \* outcome[p]: what it reported

chain == <<anchors, events, pool, receipts>>
vars == <<facts, damaged, anchors, events, pool, receipts, rows, pc, run, read, seen, outcome>>

-----------------------------------------------------------------------------
\* Mutant of FactHashes: the query is not restricted to the run.
FactHashesOfAllRuns(r) == UNION {facts[s] : s \in Runs} \ Malformed

\* The Merkle leaves of a run.
FactHashes(r) == facts[r] \ Malformed

\* Mutant of Refused: an empty fact set is anchored like any other.
RefusedNever(S) == FALSE

\* "refusing to anchor an empty fact set".
Refused(S) == S = {}

\* Go returns the zero root with the error.
RootOf(S) == IF S = {} THEN Unset ELSE Root(S)

\* Mutant of Reverts: the contract looks at the root only.
RevertsEmptyOnly(r, root) == root = Unset

\* EmptyRoot and AlreadyAnchored.
Reverts(r, root) == root = Unset \/ anchors[r] # Unset

\* Mutant of Accepted: the receipt's status is not looked at.
AcceptedAny(receipt) == receipt # "none"

Accepted(receipt) == receipt = "success"

\* Mutant of Agree: the script compares the event with get() and forgets the facts.
AgreeOnChain(v) == seen[v] = anchors[run[v]]

\* verify_anchor.py: the root recomputed, the event's and get()'s are the same.
Agree(v) == RootOf(read[v]) = seen[v] /\ seen[v] = anchors[run[v]]

Goto(p, stage) == pc' = [pc EXCEPT ![p] = stage]

\* The process reports o and exits.
Ends(p, o) == Goto(p, "done") /\ outcome' = [outcome EXCEPT ![p] = o]

Continues(p, stage) == Goto(p, stage) /\ UNCHANGED outcome

Init ==
    /\ facts = [r \in Runs |-> {}]
    /\ damaged = {}
    /\ anchors = [r \in Runs |-> Unset]
    /\ events = {}
    /\ pool = {}
    /\ receipts = [c \in Clis |-> "none"]
    /\ rows = {}
    /\ pc = [p \in Processes |-> "idle"]
    /\ run = [p \in Processes |-> NoRun]
    /\ read = [p \in Processes |-> {}]
    /\ seen = [v \in Verifiers |-> Unset]
    /\ outcome = [p \in Processes |-> "none"]

-----------------------------------------------------------------------------
\* An ingest transaction commits the run with its facts (Ingest).
Publish(r) ==
    /\ facts[r] = {} /\ r \notin damaged
    /\ Published[r] # {}
    /\ facts' = [facts EXCEPT ![r] = Published[r]]
    /\ UNCHANGED <<damaged, chain, rows, pc, run, read, seen, outcome>>

\* Rows of a run are lost outside the program: a disk fault, an older backup.
Damage(r) ==
    /\ r \notin damaged
    /\ \E S \in SUBSET facts[r] :
          S # facts[r] /\ facts' = [facts EXCEPT ![r] = S]
    /\ damaged' = damaged \cup {r}
    /\ UNCHANGED <<chain, rows, pc, run, read, seen, outcome>>

\* The command or the script is started for a run.
Start(p) ==
    /\ pc[p] = "idle"
    /\ \E r \in Runs : run' = [run EXCEPT ![p] = r]
    /\ Continues(p, "facts")
    /\ UNCHANGED <<facts, damaged, chain, rows, read, seen>>

\* FactHashes and Root; both programs refuse an empty set.
ReadFacts(p) ==
    /\ pc[p] = "facts"
    /\ LET S == FactHashes(run[p])
       IN  IF Refused(S) THEN Ends(p, "error") /\ UNCHANGED read
           ELSE /\ read' = [read EXCEPT ![p] = S]
                /\ Continues(p, IF p \in Clis THEN "isAnchored" ELSE "events")
    /\ UNCHANGED <<facts, damaged, chain, rows, run, seen>>

\* isAnchored(runId).
IsAnchored(c) ==
    /\ pc[c] = "isAnchored"
    /\ Continues(c, IF anchors[run[c]] # Unset THEN "compare" ELSE "submit")
    /\ UNCHANGED <<facts, damaged, chain, rows, run, read, seen>>

\* The run is anchored: its root is read and compared, nothing is written.
Compare(c) ==
    /\ pc[c] = "compare"
    /\ Ends(c, IF anchors[run[c]] = RootOf(read[c]) THEN "already" ELSE "diverged")
    /\ UNCHANGED <<facts, damaged, chain, rows, run, read, seen>>

\* cast send: the transaction is simulated first, and sent if it would succeed.
Send(c) ==
    /\ pc[c] = "submit"
    /\ LET root == RootOf(read[c])
       IN  IF Reverts(run[c], root) THEN Ends(c, "error") /\ UNCHANGED pool
           ELSE /\ pool' = pool \cup {[tx |-> c, run |-> run[c], root |-> root]}
                /\ Continues(c, "receipt")
    /\ UNCHANGED <<facts, damaged, anchors, events, receipts, rows, run, read, seen>>

\* The chain executes anchor(runId, merkleRoot, uri).
Mine(t) ==
    /\ pool' = pool \ {t}
    /\ IF Reverts(t.run, t.root)
       THEN /\ receipts' = [receipts EXCEPT ![t.tx] = "reverted"]
            /\ UNCHANGED <<anchors, events>>
       ELSE /\ receipts' = [receipts EXCEPT ![t.tx] = "success"]
            /\ anchors' = [anchors EXCEPT ![t.run] = t.root]
            /\ events' = events \cup {t}
    /\ UNCHANGED <<facts, damaged, rows, pc, run, read, seen, outcome>>

\* The network forgets a transaction.
Drop(t) ==
    /\ pool' = pool \ {t}
    /\ UNCHANGED <<facts, damaged, anchors, events, receipts, rows, pc, run, read, seen, outcome>>

\* cast send answers with the receipt; a reverted transaction is an error.
Receipt(c) ==
    /\ pc[c] = "receipt"
    /\ receipts[c] # "none"
    /\ IF Accepted(receipts[c]) THEN Continues(c, "persist") ELSE Ends(c, "error")
    /\ UNCHANGED <<facts, damaged, chain, rows, run, read, seen>>

\* The run_anchor row is inserted; the reply may be lost.
Persist(c) ==
    /\ pc[c] = "persist"
    /\ rows' = rows \cup {[tx |-> c, run |-> run[c], root |-> RootOf(read[c])]}
    /\ \E o \in {"anchored", "error"} : Ends(c, o)
    /\ UNCHANGED <<facts, damaged, chain, run, read, seen>>

\* verify_anchor.py reads the Anchored events of the run.
ReadEvents(v) ==
    /\ pc[v] = "events"
    /\ LET logs == {e \in events : e.run = run[v]}
       IN  CASE logs = {} -> Ends(v, "error") /\ UNCHANGED seen
             [] Cardinality(logs) > 1 -> Ends(v, "broken") /\ UNCHANGED seen
             [] OTHER -> /\ seen' = [seen EXCEPT ![v] = (CHOOSE e \in logs : TRUE).root]
                         /\ Continues(v, "get")
    /\ UNCHANGED <<facts, damaged, chain, rows, run, read>>

\* ... and get(runId), and compares the three roots.
ReadGet(v) ==
    /\ pc[v] = "get"
    /\ Ends(v, IF Agree(v) THEN "match" ELSE "mismatch")
    /\ UNCHANGED <<facts, damaged, chain, rows, run, read, seen>>

\* A call fails or times out, or the process is killed, before its effect.
Fail(p) ==
    /\ pc[p] \notin {"idle", "done"}
    /\ Ends(p, "error")
    /\ UNCHANGED <<facts, damaged, chain, rows, run, read, seen>>

Next ==
    \/ \E r \in Runs : Publish(r) \/ Damage(r)
    \/ \E p \in Processes : Start(p) \/ ReadFacts(p) \/ Fail(p)
    \/ \E c \in Clis : IsAnchored(c) \/ Compare(c) \/ Send(c) \/ Receipt(c) \/ Persist(c)
    \/ \E t \in pool : Mine(t) \/ Drop(t)
    \/ \E v \in Verifiers : ReadEvents(v) \/ ReadGet(v)

Spec == Init /\ [][Next]_vars

-----------------------------------------------------------------------------
(***************************************************************************)
(* Properties.                                                             *)
(***************************************************************************)
\* The leaves of a run as it was published.
Leaves(r) == Published[r] \ Malformed

Roots == {RootOf(S) : S \in UNION {SUBSET Leaves(r) : r \in Runs}}

Transaction == [tx : Clis, run : Runs, root : Roots]

Stages == {"idle", "facts", "isAnchored", "compare", "submit", "receipt", "persist", "events", "get", "done"}

TypeOK ==
    /\ facts \in [Runs -> SUBSET UNION {Published[r] : r \in Runs}]
    /\ damaged \subseteq Runs
    /\ anchors \in [Runs -> Roots \cup {Unset}]
    /\ pool \subseteq Transaction /\ events \subseteq Transaction /\ rows \subseteq Transaction
    /\ receipts \in [Clis -> {"none", "success", "reverted"}]
    /\ pc \in [Processes -> Stages]
    /\ run \in [Processes -> Runs \cup {NoRun}]
    /\ read \in [Processes -> SUBSET UNION {Leaves(r) : r \in Runs}]
    /\ seen \in [Verifiers -> Roots \cup {Unset}]
    /\ \A p \in Processes : pc[p] \notin {"idle", "facts", "done"} => read[p] # {}
    /\ outcome \in [Processes -> {"none", "error", "anchored", "already", "diverged",
                                  "match", "mismatch", "broken"}]

\* verify_anchor.py's "contract invariant": a run has one Anchored event, and
\* get() answers its root, although invocations that all saw the run not yet
\* anchored have sent transactions of their own.
OneAnchorPerRun ==
    /\ \A e \in events : anchors[e.run] = e.root
    /\ \A e, f \in events : e.run = f.run => e = f

\* Whatever run_anchor records is on the chain, under that transaction: the
\* newest row of a run is its anchor.
RowsAreOnChain == rows \subseteq events

\* An invocation, or the script, reports a divergence only for a run whose rows
\* were changed outside the program: no commit, race or retry looks like one.  That
\* takes for granted that only these invocations call the contract, whose anchor() is
\* open to anyone (AnchorRegistry.sol:29).
NoFalseAlarm ==
    \A p \in Processes : outcome[p] \in {"diverged", "mismatch", "broken"} => run[p] \in damaged

\* Once a run as published is anchored, a match is reported only of a database
\* that still has exactly its facts.
DamageIsDetected ==
    \A p \in Processes :
        outcome[p] \in {"already", "match"} /\ anchors[run[p]] = RootOf(Leaves(run[p]))
            => read[p] = Leaves(run[p])

\* What anchoring promises: a run's root is settled once, by whichever transaction
\* is mined first, and run_anchor never attests another one.
N == INSTANCE Notary WITH root <- anchors, attested <- {[run |-> row.run, root |-> row.root] : row \in rows}

ImplementsNotary == N!NotarySpec

\* D31: "The tx ref is persisted append-only in run_anchor": when no invocation
\* is running, a run of which one reported success has its row.
AnchoredIsPersisted ==
    (\A p \in Processes : pc[p] \in {"idle", "done"}) =>
        \A c \in Clis : outcome[c] \in {"anchored", "already"} =>
            \E row \in rows : row.run = run[c]
=============================================================================
