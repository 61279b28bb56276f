---------------------------- MODULE AnchorProofs ----------------------------
(***************************************************************************)
(* Theorems about module Anchor, for every set of runs, whatever facts     *)
(* they publish, and any number of invocations of the command and of the   *)
(* verification script.  The first part needs of the Merkle root only that *)
(* it is the same for the same facts; the second proves that it is         *)
(* different for different ones, and so that a damaged run never passes.   *)
(***************************************************************************)
EXTENDS Anchor, FiniteSetTheorems, TLAPS

\* What a process past its first read knows: the run it is for, and leaves of
\* that run, all of them unless the run's rows were damaged.
ReadsLeaves ==
    \A p \in Processes :
        /\ IF pc[p] = "idle" THEN read[p] = {} /\ outcome[p] = "none" ELSE run[p] \in Runs
        /\ read[p] # {} =>
              /\ run[p] \in Runs
              /\ read[p] \subseteq Leaves(run[p])
              /\ run[p] \notin damaged => read[p] = Leaves(run[p])
        /\ pc[p] \in {"isAnchored", "compare", "submit", "receipt", "persist"} => p \in Clis
        /\ pc[p] \in {"events", "get"} => p \in Verifiers

\* A run's rows are none or all of those it published, unless damaged.
FactsWhole ==
    \A r \in Runs :
        /\ facts[r] \subseteq Published[r]
        /\ r \notin damaged => facts[r] \in {{}, Published[r]}

\* A transaction, pending or mined, carries what its invocation read, and its
\* root is the run's as published, unless damaged.
SentIsRead ==
    \A t \in pool \cup events :
        /\ pc[t.tx] \notin {"idle", "facts", "isAnchored", "compare", "submit"}
        /\ t.run = run[t.tx] /\ t.root = RootOf(read[t.tx])
        /\ read[t.tx] # {}

\* A receipt says success only of a transaction that made an event, and comes
\* after the transaction was sent and has left the pool.
ReceiptsAreTrue ==
    /\ \A c \in Clis : receipts[c] = "success" => \E e \in events : e.tx = c
    /\ \A c \in Clis : pc[c] = "persist" => receipts[c] = "success"
    /\ \A c \in Clis :
          pc[c] \in {"idle", "facts", "isAnchored", "compare", "submit"} => receipts[c] = "none"
    /\ \A t \in pool : receipts[t.tx] = "none"

\* What the registry stores is what the events say.
RegistryIsEvents ==
    /\ \A r \in Runs : anchors[r] # Unset <=> \E e \in events : e.run = r
    /\ \A e \in events : e.root # Unset

\* What a process has learnt of the chain is still so.
LearntIsTrue ==
    /\ \A c \in Clis : pc[c] = "compare" => \E e \in events : e.run = run[c]
    /\ \A v \in Verifiers : pc[v] = "get" => \E e \in events : e.run = run[v] /\ e.root = seen[v]

IInv ==
    /\ TypeOK
    /\ ReadsLeaves
    /\ FactsWhole
    /\ SentIsRead
    /\ ReceiptsAreTrue
    /\ RegistryIsEvents
    /\ OneAnchorPerRun
    /\ LearntIsTrue
    /\ RowsAreOnChain
    /\ NoFalseAlarm

-----------------------------------------------------------------------------
(***************************************************************************)
(* Type correctness.                                                       *)
(***************************************************************************)
\* The initial state has the right types.
LEMMA TypeInit == Init => TypeOK
  BY DEF Init, TypeOK, Stages

\* The leaves a run has now, as it was published, and the roots of both.
LEMMA HashesType ==
  ASSUME FactsWhole, NEW r \in Runs
  PROVE  /\ FactHashes(r) \subseteq Leaves(r)
         /\ r \notin damaged => FactHashes(r) \in {{}, Leaves(r)}
  BY DEF FactsWhole, FactHashes, Leaves

\* A process's run and root make a transaction.
LEMMA TransactionType ==
  ASSUME NEW c \in Clis, NEW r \in Runs, NEW S \in SUBSET Leaves(r)
  PROVE  [tx |-> c, run |-> r, root |-> RootOf(S)] \in Transaction
  <1>1. S \in UNION {SUBSET Leaves(q) : q \in Runs}
    OBVIOUS
  <1>2. RootOf(S) \in Roots
    BY <1>1 DEF Roots
  <1>3. QED
    BY <1>2 DEF Transaction

\* Every step keeps every variable in its type.
LEMMA TypeStep == ASSUME IInv, [Next]_vars PROVE TypeOK'
  <1> USE DEF Stages, Goto, Ends, Continues, chain
  <1>0. TypeOK /\ ReadsLeaves /\ FactsWhole
    BY DEF IInv
  <1>1. ASSUME NEW r \in Runs, Publish(r) PROVE TypeOK'
    BY <1>0, <1>1 DEF TypeOK, Publish
  <1>2. ASSUME NEW r \in Runs, Damage(r) PROVE TypeOK'
    BY <1>0, <1>2 DEF TypeOK, Damage
  <1>3. ASSUME NEW p \in Processes, Start(p) PROVE TypeOK'
    BY <1>0, <1>3 DEF TypeOK, Start
  <1>4. ASSUME NEW p \in Processes, ReadFacts(p) PROVE TypeOK'
    <2>1. CASE Refused(FactHashes(run[p]))
      <3>1. pc' = [pc EXCEPT ![p] = "done"] /\ outcome' = [outcome EXCEPT ![p] = "error"]
        BY <1>4, <2>1 DEF ReadFacts
      <3>2. UNCHANGED <<facts, damaged, chain, rows, run, read, seen>>
        BY <1>4, <2>1 DEF ReadFacts
      <3>3. /\ pc' \in [Processes -> Stages]
            /\ outcome' \in [Processes -> {"none", "error", "anchored", "already", "diverged",
                                          "match", "mismatch", "broken"}]
        BY <1>0, <3>1 DEF TypeOK
      <3>4. \A q \in Processes : pc'[q] \notin {"idle", "facts", "done"} => read'[q] # {}
        BY <1>0, <3>1, <3>2 DEF TypeOK
      <3>5. QED
        BY <1>0, <3>2, <3>3, <3>4 DEF TypeOK
    <2>2. CASE ~ Refused(FactHashes(run[p]))
      <3>1. \E stage \in {"isAnchored", "events"} : pc' = [pc EXCEPT ![p] = stage]
        BY <1>4, <2>2 DEF ReadFacts
      <3>2. read' = [read EXCEPT ![p] = FactHashes(run[p])] /\ UNCHANGED outcome
        BY <1>4, <2>2 DEF ReadFacts
      <3>3. UNCHANGED <<facts, damaged, chain, rows, run, seen>>
        BY <1>4, <2>2 DEF ReadFacts
      <3>4. ASSUME NEW q \in Processes, pc'[q] \notin {"idle", "facts", "done"}
            PROVE  read'[q] # {}
        BY <1>0, <2>2, <3>1, <3>2, <3>4 DEF TypeOK, ReadsLeaves, Refused
      <3>5. FactHashes(run[p]) \subseteq UNION {Leaves(r) : r \in Runs}
        BY <1>0, <1>4, HashesType DEF ReadFacts, ReadsLeaves
      <3>6. read' \in [Processes -> SUBSET UNION {Leaves(r) : r \in Runs}]
        BY <1>0, <3>2, <3>5 DEF TypeOK
      <3>7. pc' \in [Processes -> Stages]
        BY <1>0, <3>1 DEF TypeOK
      <3>8. QED
        BY <1>0, <3>2, <3>3, <3>4, <3>6, <3>7 DEF TypeOK
    <2>3. QED
      BY <2>1, <2>2
  <1>5. ASSUME NEW p \in Processes, Fail(p) PROVE TypeOK'
    BY <1>0, <1>5 DEF TypeOK, Fail
  <1>6. ASSUME NEW c \in Clis, IsAnchored(c) PROVE TypeOK'
    BY <1>0, <1>6 DEF TypeOK, IsAnchored, Processes
  <1>7. ASSUME NEW c \in Clis, Compare(c) PROVE TypeOK'
    BY <1>0, <1>7 DEF TypeOK, Compare, Processes
  <1>8. ASSUME NEW c \in Clis, Send(c) PROVE TypeOK'
    <2>1. run[c] \in Runs /\ read[c] \in SUBSET Leaves(run[c])
      BY <1>0, <1>8 DEF Send, ReadsLeaves, TypeOK, Processes
    <2>2. [tx |-> c, run |-> run[c], root |-> RootOf(read[c])] \in Transaction
      BY <2>1, TransactionType
    <2>3. pool' \subseteq Transaction
      BY <1>0, <1>8, <2>2 DEF Send, TypeOK
    <2>4. QED
      BY <1>0, <1>8, <2>3 DEF TypeOK, Send, Processes
  <1>9. ASSUME NEW c \in Clis, Receipt(c) PROVE TypeOK'
    BY <1>0, <1>9 DEF TypeOK, Receipt, Processes
  <1>10. ASSUME NEW c \in Clis, Persist(c) PROVE TypeOK'
    <2>1. run[c] \in Runs /\ read[c] \in SUBSET Leaves(run[c])
      BY <1>0, <1>10 DEF Persist, ReadsLeaves, TypeOK, Processes
    <2>2. [tx |-> c, run |-> run[c], root |-> RootOf(read[c])] \in Transaction
      BY <2>1, TransactionType
    <2>3. rows' \subseteq Transaction
      BY <1>0, <1>10, <2>2 DEF Persist, TypeOK
    <2>4. QED
      BY <1>0, <1>10, <2>3 DEF TypeOK, Persist, Processes
  <1>11. ASSUME NEW t \in pool, Mine(t) PROVE TypeOK'
    <2>1. t \in Transaction
      BY <1>0 DEF TypeOK
    <2>2. t.tx \in Clis
      BY <2>1 DEF Transaction
    <2>3. t.run \in Runs /\ t.root \in Roots
      BY <2>1 DEF Transaction
    <2>4. QED
      BY <1>0, <1>11, <2>1, <2>2, <2>3 DEF TypeOK, Mine
  <1>12. ASSUME NEW t \in pool, Drop(t) PROVE TypeOK'
    BY <1>0, <1>12 DEF TypeOK, Drop
  <1>13. ASSUME NEW v \in Verifiers, ReadEvents(v) PROVE TypeOK'
    <2> DEFINE logs == {e \in events : e.run = run[v]}
    <2>1. \/ /\ pc' = [pc EXCEPT ![v] = "done"]
             /\ \E o \in {"error", "broken"} : outcome' = [outcome EXCEPT ![v] = o]
             /\ UNCHANGED seen
          \/ /\ logs # {}
             /\ pc' = [pc EXCEPT ![v] = "get"] /\ UNCHANGED outcome
             /\ seen' = [seen EXCEPT ![v] = (CHOOSE e \in logs : TRUE).root]
      BY <1>13 DEF ReadEvents
    <2>2. UNCHANGED <<facts, damaged, chain, rows, run, read>> /\ pc[v] = "events"
      BY <1>13 DEF ReadEvents
    <2>3. v \in Processes
      BY DEF Processes
    <2>4. logs # {} => (CHOOSE e \in logs : TRUE).root \in Roots
      <3>1. \A e \in logs : e.root \in Roots
        BY <1>0 DEF TypeOK, Transaction
      <3>2. QED
        BY <3>1
    <2>5. seen' \in [Verifiers -> Roots \cup {Unset}]
      BY <1>0, <2>1, <2>4 DEF TypeOK
    <2>6. QED
      BY <1>0, <2>1, <2>2, <2>3, <2>5 DEF TypeOK
  <1>14. ASSUME NEW v \in Verifiers, ReadGet(v) PROVE TypeOK'
    BY <1>0, <1>14 DEF TypeOK, ReadGet, Processes
  <1>15. CASE UNCHANGED vars
    BY <1>0, <1>15 DEF TypeOK, vars
  <1>16. QED
    BY <1>1, <1>2, <1>3, <1>4, <1>5, <1>6, <1>7, <1>8, <1>9, <1>10, <1>11, <1>12, <1>13, <1>14,
       <1>15 DEF Next

-----------------------------------------------------------------------------
(***************************************************************************)
(* The parts of the inductive invariant, one by one.                       *)
(***************************************************************************)
\* No commit or damage gives a run rows it did not publish.
LEMMA FactsWholeStep == ASSUME IInv, [Next]_vars PROVE FactsWhole'
  <1>0. TypeOK /\ FactsWhole
    BY DEF IInv
  <1>1. ASSUME NEW r \in Runs, Publish(r) PROVE FactsWhole'
    BY <1>0, <1>1 DEF TypeOK, FactsWhole, Publish
  <1>2. ASSUME NEW r \in Runs, Damage(r) PROVE FactsWhole'
    BY <1>0, <1>2 DEF TypeOK, FactsWhole, Damage
  <1>3. CASE UNCHANGED <<facts, damaged>>
    BY <1>0, <1>3 DEF FactsWhole
  <1>4. QED
    BY <1>1, <1>2, <1>3 DEF Next, vars, Start, ReadFacts, Fail, IsAnchored, Compare, Send, Receipt,
       Persist, Mine, Drop, ReadEvents, ReadGet

\* What a process has read stays its run's leaves.
LEMMA ReadsLeavesStep == ASSUME IInv, [Next]_vars PROVE ReadsLeaves'
  <1> USE DEF Goto, Ends, Continues, chain
  <1>0. TypeOK /\ ReadsLeaves /\ FactsWhole
    BY DEF IInv
  <1>1. ASSUME NEW r \in Runs, Publish(r) PROVE ReadsLeaves'
    BY <1>0, <1>1 DEF ReadsLeaves, Publish
  <1>2. ASSUME NEW r \in Runs, Damage(r) PROVE ReadsLeaves'
    BY <1>0, <1>2 DEF ReadsLeaves, Damage
  <1>3. ASSUME NEW p \in Processes, Start(p) PROVE ReadsLeaves'
    BY <1>0, <1>3 DEF TypeOK, ReadsLeaves, Start
  <1>4. ASSUME NEW p \in Processes, ReadFacts(p) PROVE ReadsLeaves'
    <2>1. run[p] \in Runs
      BY <1>0, <1>4 DEF ReadFacts, ReadsLeaves
    <2>2. /\ FactHashes(run[p]) \subseteq Leaves(run[p])
          /\ run[p] \notin damaged => FactHashes(run[p]) \in {{}, Leaves(run[p])}
      BY <1>0, <2>1, HashesType
    <2>3. QED
      BY <1>0, <1>4, <2>1, <2>2 DEF TypeOK, ReadsLeaves, ReadFacts, Processes
  <1>5. ASSUME NEW p \in Processes, Fail(p) PROVE ReadsLeaves'
    BY <1>0, <1>5 DEF TypeOK, ReadsLeaves, Fail
  <1>6. ASSUME NEW c \in Clis, IsAnchored(c) \/ Compare(c) \/ Send(c) \/ Receipt(c) \/ Persist(c)
        PROVE  ReadsLeaves'
    <2>1. /\ pc[c] # "idle"
          /\ UNCHANGED <<damaged, run, read>>
          /\ c \in Processes
          /\ \/ UNCHANGED outcome
             \/ \E o \in {"error", "already", "diverged", "anchored"} :
                   outcome' = [outcome EXCEPT ![c] = o]
      BY <1>6 DEF Processes, IsAnchored, Compare, Send, Receipt, Persist
    <2>2. \E stage \in {"compare", "submit", "receipt", "persist", "done"} :
             pc' = [pc EXCEPT ![c] = stage]
      BY <1>6 DEF IsAnchored, Compare, Send, Receipt, Persist
    <2>3. QED
      BY <1>0, <2>1, <2>2 DEF TypeOK, ReadsLeaves, Processes
  <1>7. ASSUME NEW v \in Verifiers, ReadEvents(v) \/ ReadGet(v) PROVE ReadsLeaves'
    BY <1>0, <1>7 DEF TypeOK, ReadsLeaves, ReadEvents, ReadGet
  <1>8. ASSUME NEW t \in pool, Mine(t) \/ Drop(t) PROVE ReadsLeaves'
    BY <1>0, <1>8 DEF ReadsLeaves, Mine, Drop
  <1>9. CASE UNCHANGED vars
    BY <1>0, <1>9 DEF ReadsLeaves, vars
  <1>10. QED
    BY <1>1, <1>2, <1>3, <1>4, <1>5, <1>6, <1>7, <1>8, <1>9 DEF Next

\* A transaction goes on carrying what its invocation read.
LEMMA SentIsReadStep == ASSUME IInv, [Next]_vars PROVE SentIsRead'
  <1> USE DEF Goto, Ends, Continues, chain
  <1>0. TypeOK /\ SentIsRead
    BY DEF IInv
  <1>a. \A t \in pool \cup events : t.tx \in Processes
    BY <1>0 DEF TypeOK, Transaction, Processes
  <1>1. ASSUME NEW r \in Runs, Publish(r) \/ Damage(r) PROVE SentIsRead'
    BY <1>0, <1>1 DEF SentIsRead, Publish, Damage
  <1>2. ASSUME NEW p \in Processes, Start(p) PROVE SentIsRead'
    BY <1>0, <1>2, <1>a DEF TypeOK, SentIsRead, Start
  <1>3. ASSUME NEW p \in Processes, ReadFacts(p) PROVE SentIsRead'
    BY <1>0, <1>3, <1>a DEF TypeOK, SentIsRead, ReadFacts
  <1>4. ASSUME NEW p \in Processes, Fail(p) PROVE SentIsRead'
    BY <1>0, <1>4, <1>a DEF TypeOK, SentIsRead, Fail
  <1>5. ASSUME NEW c \in Clis, IsAnchored(c) \/ Compare(c) \/ Receipt(c) \/ Persist(c) PROVE SentIsRead'
    BY <1>0, <1>5, <1>a DEF TypeOK, SentIsRead, IsAnchored, Compare, Receipt, Persist
  <1>6. ASSUME NEW c \in Clis, Send(c) PROVE SentIsRead'
    <2>1. c \in Processes /\ read[c] # {}
      BY <1>0, <1>6 DEF TypeOK, Send, Processes
    <2>2. CASE Reverts(run[c], RootOf(read[c]))
      BY <1>0, <1>6, <1>a, <2>1, <2>2 DEF TypeOK, SentIsRead, Send
    <2>3. CASE ~ Reverts(run[c], RootOf(read[c]))
      <3>1. pc' = [pc EXCEPT ![c] = "receipt"]
        BY <1>6, <2>3 DEF Send
      <3>2. /\ pool' = pool \cup {[tx |-> c, run |-> run[c], root |-> RootOf(read[c])]}
            /\ UNCHANGED <<events, run, read>>
        BY <1>6, <2>3 DEF Send
      <3>3. QED
        BY <1>0, <1>a, <2>1, <3>1, <3>2 DEF TypeOK, SentIsRead
    <2>4. QED
      BY <2>2, <2>3
  <1>7. ASSUME NEW v \in Verifiers, ReadEvents(v) \/ ReadGet(v) PROVE SentIsRead'
    BY <1>0, <1>7, <1>a DEF TypeOK, SentIsRead, ReadEvents, ReadGet
  <1>8. ASSUME NEW t \in pool, Mine(t) \/ Drop(t) PROVE SentIsRead'
    BY <1>0, <1>8 DEF SentIsRead, Mine, Drop
  <1>9. CASE UNCHANGED vars
    BY <1>0, <1>9 DEF SentIsRead, vars
  <1>10. QED
    BY <1>1, <1>2, <1>3, <1>4, <1>5, <1>6, <1>7, <1>8, <1>9 DEF Next

\* No receipt comes before its transaction is mined, and none is invented.
LEMMA ReceiptsStep == ASSUME IInv, [Next]_vars PROVE ReceiptsAreTrue'
  <1> USE DEF Goto, Ends, Continues, chain
  <1> DEFINE Early == {"idle", "facts", "isAnchored", "compare", "submit"}
  <1>0. TypeOK /\ ReceiptsAreTrue /\ SentIsRead
    BY DEF IInv
  <1>1. ASSUME NEW r \in Runs, Publish(r) \/ Damage(r) PROVE ReceiptsAreTrue'
    BY <1>0, <1>1 DEF ReceiptsAreTrue, Publish, Damage
  <1>2. ASSUME NEW p \in Processes, Start(p) PROVE ReceiptsAreTrue'
    BY <1>0, <1>2 DEF TypeOK, ReceiptsAreTrue, Start, Processes
  <1>3. ASSUME NEW p \in Processes, ReadFacts(p) PROVE ReceiptsAreTrue'
    BY <1>0, <1>3 DEF TypeOK, ReceiptsAreTrue, ReadFacts, Processes
  <1>4. ASSUME NEW p \in Processes, Fail(p) PROVE ReceiptsAreTrue'
    BY <1>0, <1>4 DEF TypeOK, ReceiptsAreTrue, Fail, Processes
  <1>5. ASSUME NEW c \in Clis, IsAnchored(c) \/ Compare(c) \/ Persist(c) PROVE ReceiptsAreTrue'
    BY <1>0, <1>5 DEF TypeOK, ReceiptsAreTrue, IsAnchored, Compare, Persist, Processes
  <1>6. ASSUME NEW c \in Clis, Receipt(c) PROVE ReceiptsAreTrue'
    BY <1>0, <1>6 DEF TypeOK, ReceiptsAreTrue, Receipt, Accepted, Processes
  <1>7. ASSUME NEW c \in Clis, Send(c) PROVE ReceiptsAreTrue'
    <2>1. receipts[c] = "none" /\ pc[c] = "submit" /\ c \in Processes
      BY <1>0, <1>7 DEF ReceiptsAreTrue, Send, Processes
    <2>2. /\ pool' \subseteq pool \cup {[tx |-> c, run |-> run[c], root |-> RootOf(read[c])]}
          /\ UNCHANGED <<events, receipts>>
      BY <1>7 DEF Send
    <2>3. \E stage \in {"receipt", "done"} : pc' = [pc EXCEPT ![c] = stage]
      BY <1>7 DEF Send
    <2>4. QED
      BY <1>0, <2>1, <2>2, <2>3 DEF TypeOK, ReceiptsAreTrue
  <1>8. ASSUME NEW v \in Verifiers, ReadEvents(v) \/ ReadGet(v) PROVE ReceiptsAreTrue'
    <2>1. UNCHANGED <<pool, events, receipts>> /\ v \notin Clis
      BY <1>8, ProcessesAssumption DEF ReadEvents, ReadGet
    <2>2. \A c \in Clis : pc'[c] = pc[c]
      BY <1>0, <1>8, <2>1 DEF TypeOK, ReadEvents, ReadGet, Processes
    <2>3. QED
      BY <1>0, <2>1, <2>2 DEF ReceiptsAreTrue
  <1>9. ASSUME NEW t \in pool, Mine(t) PROVE ReceiptsAreTrue'
    <2>1. /\ receipts[t.tx] = "none" /\ t.tx \in Clis /\ pc[t.tx] \notin Early /\ UNCHANGED pc
          /\ pc[t.tx] # "persist"
      BY <1>0, <1>9 DEF TypeOK, Transaction, ReceiptsAreTrue, SentIsRead, Mine
    <2>2. \A u \in pool : u.tx = t.tx => u = t
      BY <1>0 DEF TypeOK, Transaction, SentIsRead
    <2>3. pool' = pool \ {t} /\ events \subseteq events'
      BY <1>9 DEF Mine
    <2>4. \E o \in {"success", "reverted"} :
             /\ receipts' = [receipts EXCEPT ![t.tx] = o]
             /\ o = "success" => t \in events'
      BY <1>9 DEF Mine
    <2>5. QED
      BY <1>0, <2>1, <2>2, <2>3, <2>4 DEF TypeOK, ReceiptsAreTrue
  <1>10. ASSUME NEW t \in pool, Drop(t) PROVE ReceiptsAreTrue'
    BY <1>0, <1>10 DEF ReceiptsAreTrue, Drop
  <1>11. CASE UNCHANGED vars
    BY <1>0, <1>11 DEF ReceiptsAreTrue, vars
  <1>12. QED
    BY <1>1, <1>2, <1>3, <1>4, <1>5, <1>6, <1>7, <1>8, <1>9, <1>10, <1>11 DEF Next

\* The registry and its events change together, once for a run.
LEMMA RegistryStep ==
  ASSUME IInv, [Next]_vars
  PROVE  RegistryIsEvents' /\ OneAnchorPerRun'
  <1>0. TypeOK /\ RegistryIsEvents /\ OneAnchorPerRun
    BY DEF IInv
  <1>1. ASSUME NEW t \in pool, Mine(t) PROVE RegistryIsEvents' /\ OneAnchorPerRun'
    <2>1. t.run \in Runs /\ \A e \in events : e.run \in Runs
      BY <1>0 DEF TypeOK, Transaction
    <2>2. CASE Reverts(t.run, t.root)
      BY <1>0, <1>1, <2>2 DEF RegistryIsEvents, OneAnchorPerRun, Mine
    <2>3. CASE ~ Reverts(t.run, t.root)
      <3>1. t.root # Unset /\ anchors[t.run] = Unset
        BY <2>3 DEF Reverts
      <3>2. /\ anchors' = [anchors EXCEPT ![t.run] = t.root]
            /\ events' = events \cup {t}
        BY <1>1, <2>3 DEF Mine
      <3>3. \A e \in events : e.run # t.run
        BY <1>0, <2>1, <3>1 DEF RegistryIsEvents
      <3>4. QED
        BY <1>0, <2>1, <3>1, <3>2, <3>3 DEF TypeOK, RegistryIsEvents, OneAnchorPerRun
    <2>4. QED
      BY <2>2, <2>3
  <1>2. CASE UNCHANGED <<anchors, events>>
    BY <1>0, <1>2 DEF RegistryIsEvents, OneAnchorPerRun
  <1>3. QED
    BY <1>1, <1>2 DEF Next, vars, chain, Publish, Damage, Start, ReadFacts, Fail, IsAnchored, Compare,
       Send, Receipt, Persist, Drop, ReadEvents, ReadGet

\* Events are never taken back.
LEMMA EventsStay == ASSUME [Next]_vars PROVE events \subseteq events'
  BY DEF Next, vars, chain, Publish, Damage, Start, ReadFacts, Fail, IsAnchored, Compare,
     Send, Receipt, Persist, Mine, Drop, ReadEvents, ReadGet

\* What a process has learnt of the chain stays so.
LEMMA LearntStep == ASSUME IInv, [Next]_vars PROVE LearntIsTrue'
  <1> USE DEF Goto, Ends, Continues, chain
  <1>0. TypeOK /\ LearntIsTrue /\ ReadsLeaves /\ RegistryIsEvents
    BY DEF IInv
  <1>a. events \subseteq events'
    BY EventsStay
  <1>1. ASSUME NEW r \in Runs, Publish(r) \/ Damage(r) PROVE LearntIsTrue'
    BY <1>0, <1>1 DEF LearntIsTrue, Publish, Damage
  <1>2. ASSUME NEW p \in Processes, Start(p) PROVE LearntIsTrue'
    BY <1>0, <1>2 DEF TypeOK, LearntIsTrue, Start, Processes
  <1>3. ASSUME NEW p \in Processes, ReadFacts(p) PROVE LearntIsTrue'
    BY <1>0, <1>3 DEF TypeOK, LearntIsTrue, ReadFacts, Processes
  <1>4. ASSUME NEW p \in Processes, Fail(p) PROVE LearntIsTrue'
    BY <1>0, <1>4 DEF TypeOK, LearntIsTrue, Fail, Processes
  <1>5. ASSUME NEW c \in Clis, IsAnchored(c) PROVE LearntIsTrue'
    <2>1. c \in Processes /\ run[c] \in Runs
      BY <1>0, <1>5 DEF ReadsLeaves, IsAnchored, Processes
    <2>2. anchors[run[c]] # Unset => \E e \in events : e.run = run[c]
      BY <1>0, <2>1 DEF RegistryIsEvents
    <2>3. QED
      BY <1>0, <1>5, <2>1, <2>2 DEF TypeOK, LearntIsTrue, IsAnchored, Processes
  <1>6. ASSUME NEW c \in Clis, Compare(c) \/ Send(c) \/ Receipt(c) \/ Persist(c) PROVE LearntIsTrue'
    <2>1. \E stage \in {"receipt", "persist", "done"} : pc' = [pc EXCEPT ![c] = stage]
      BY <1>6 DEF Compare, Send, Receipt, Persist
    <2>2. UNCHANGED <<events, run, seen>>
      BY <1>6 DEF Compare, Send, Receipt, Persist
    <2>3. QED
      BY <1>0, <2>1, <2>2 DEF TypeOK, LearntIsTrue, Processes
  <1>7. ASSUME NEW t \in pool, Mine(t) \/ Drop(t) PROVE LearntIsTrue'
    BY <1>0, <1>7, <1>a DEF LearntIsTrue, Mine, Drop
  <1>8. ASSUME NEW v \in Verifiers, ReadEvents(v) PROVE LearntIsTrue'
    <2> DEFINE logs == {e \in events : e.run = run[v]}
    <2>1. \/ /\ pc' = [pc EXCEPT ![v] = "done"]
             /\ UNCHANGED seen
          \/ /\ logs # {}
             /\ pc' = [pc EXCEPT ![v] = "get"]
             /\ seen' = [seen EXCEPT ![v] = (CHOOSE e \in logs : TRUE).root]
      BY <1>8 DEF ReadEvents
    <2>2. logs # {} => \E e \in events : e.run = run[v] /\ e.root = (CHOOSE f \in logs : TRUE).root
      OBVIOUS
    <2>3. UNCHANGED <<events, run>> /\ v \in Processes
      BY <1>8 DEF ReadEvents, Processes
    <2>4. QED
      BY <1>0, <2>1, <2>2, <2>3 DEF TypeOK, LearntIsTrue, Processes
  <1>9. ASSUME NEW v \in Verifiers, ReadGet(v) PROVE LearntIsTrue'
    BY <1>0, <1>9 DEF TypeOK, LearntIsTrue, ReadGet, Processes
  <1>10. CASE UNCHANGED vars
    BY <1>0, <1>10 DEF LearntIsTrue, vars
  <1>11. QED
    BY <1>1, <1>2, <1>3, <1>4, <1>5, <1>6, <1>7, <1>8, <1>9, <1>10 DEF Next

\* A row is inserted only for a transaction that made an event.
LEMMA RowsStep == ASSUME IInv, [Next]_vars PROVE RowsAreOnChain'
  <1>0. TypeOK /\ RowsAreOnChain /\ ReceiptsAreTrue /\ SentIsRead
    BY DEF IInv
  <1>1. events \subseteq events'
    BY EventsStay
  <1>2. ASSUME NEW c \in Clis, Persist(c) PROVE RowsAreOnChain'
    <2>1. PICK e \in events : e.tx = c
      BY <1>0, <1>2 DEF ReceiptsAreTrue, Persist
    <2>2. e = [tx |-> c, run |-> run[c], root |-> RootOf(read[c])]
      BY <1>0, <2>1 DEF TypeOK, Transaction, SentIsRead
    <2>3. QED
      BY <1>0, <1>1, <1>2, <2>2 DEF RowsAreOnChain, Persist
  <1>3. CASE UNCHANGED rows
    BY <1>0, <1>1, <1>3 DEF RowsAreOnChain
  <1>4. QED
    BY <1>2, <1>3 DEF Next, vars, Publish, Damage, Start, ReadFacts, Fail, IsAnchored, Compare, Send,
       Receipt, Mine, Drop, ReadEvents, ReadGet

\* The event of an undamaged run has the root every process computes for it.
LEMMA EventIsMine ==
  ASSUME IInv, NEW p \in Processes, NEW e \in events, e.run = run[p], read[p] # {},
         run[p] \notin damaged
  PROVE  e.root = RootOf(read[p]) /\ anchors[run[p]] = RootOf(read[p])
  <1>1. read[p] = Leaves(run[p])
    BY DEF IInv, ReadsLeaves
  <1>2. e.tx \in Processes
    BY DEF IInv, TypeOK, Transaction, Processes
  <1>3. e.root = RootOf(read[e.tx]) /\ run[e.tx] = run[p] /\ read[e.tx] # {}
    BY DEF IInv, SentIsRead
  <1>4. read[e.tx] = Leaves(run[p])
    BY <1>2, <1>3 DEF IInv, ReadsLeaves
  <1>5. anchors[run[p]] = e.root
    BY DEF IInv, OneAnchorPerRun
  <1>6. QED
    BY <1>1, <1>3, <1>4, <1>5

\* Every report of a divergence is of a damaged run.
LEMMA VerdictStep == ASSUME IInv, [Next]_vars PROVE NoFalseAlarm'
  <1> USE DEF Goto, Ends, Continues
  <1>0. TypeOK /\ NoFalseAlarm /\ LearntIsTrue /\ ReadsLeaves
    BY DEF IInv
  <1>1. ASSUME NEW r \in Runs, Publish(r) \/ Damage(r) PROVE NoFalseAlarm'
    BY <1>0, <1>1 DEF NoFalseAlarm, Publish, Damage
  <1>2. ASSUME NEW p \in Processes, Start(p) PROVE NoFalseAlarm'
    BY <1>0, <1>2 DEF TypeOK, NoFalseAlarm, Start, ReadsLeaves
  <1>3. ASSUME NEW p \in Processes, ReadFacts(p) \/ Fail(p) PROVE NoFalseAlarm'
    <2>1. outcome' = [outcome EXCEPT ![p] = "error"] \/ outcome' = outcome
      BY <1>3 DEF ReadFacts, Fail
    <2>2. UNCHANGED <<run, damaged>>
      BY <1>3 DEF ReadFacts, Fail
    <2>3. QED
      BY <1>0, <2>1, <2>2 DEF TypeOK, NoFalseAlarm
  <1>4. ASSUME NEW c \in Clis, IsAnchored(c) \/ Send(c) \/ Receipt(c) \/ Persist(c) PROVE NoFalseAlarm'
    BY <1>0, <1>4 DEF TypeOK, NoFalseAlarm, IsAnchored, Send, Receipt, Persist, Processes
  <1>5. ASSUME NEW c \in Clis, Compare(c) PROVE NoFalseAlarm'
    <2>1. c \in Processes /\ read[c] # {}
      BY <1>0, <1>5 DEF TypeOK, Compare, Processes
    <2>2. \E e \in events : e.run = run[c]
      BY <1>0, <1>5 DEF LearntIsTrue, Compare
    <2>3. run[c] \notin damaged => anchors[run[c]] = RootOf(read[c])
      BY <2>1, <2>2, EventIsMine
    <2>4. QED
      BY <1>0, <1>5, <2>1, <2>3 DEF TypeOK, NoFalseAlarm, Compare
  <1>6. ASSUME NEW t \in pool, Mine(t) \/ Drop(t) PROVE NoFalseAlarm'
    BY <1>0, <1>6 DEF NoFalseAlarm, Mine, Drop
  <1>7. ASSUME NEW v \in Verifiers, ReadEvents(v) PROVE NoFalseAlarm'
    <2> DEFINE logs == {e \in events : e.run = run[v]}
    <2>1. \A e, f \in logs : e = f
      BY DEF IInv, OneAnchorPerRun
    <2>2. logs # {} => \E e : logs = {e}
      BY <2>1
    <2>3. logs # {} => Cardinality(logs) = 1
      BY <2>2, FS_Singleton
    <2>4. Cardinality(logs) \in {0, 1}
      BY <2>3, FS_EmptySet
    <2>5. outcome' = [outcome EXCEPT ![v] = "error"] \/ outcome' = outcome
      <3>1. CASE logs = {}
        BY <1>7, <2>4, <3>1 DEF ReadEvents
      <3>2. CASE logs # {}
        BY <1>7, <2>4, <3>2 DEF ReadEvents
      <3>3. QED
        BY <3>1, <3>2
    <2>6. UNCHANGED <<run, damaged>>
      BY <1>7 DEF ReadEvents
    <2>7. QED
      BY <1>0, <2>5, <2>6 DEF TypeOK, NoFalseAlarm, Processes
  <1>8. ASSUME NEW v \in Verifiers, ReadGet(v) PROVE NoFalseAlarm'
    <2>1. v \in Processes /\ read[v] # {}
      BY <1>0, <1>8 DEF TypeOK, ReadGet, Processes
    <2>2. PICK e \in events : e.run = run[v] /\ e.root = seen[v]
      BY <1>0, <1>8 DEF LearntIsTrue, ReadGet
    <2>3. run[v] \notin damaged => seen[v] = RootOf(read[v]) /\ anchors[run[v]] = RootOf(read[v])
      BY <2>1, <2>2, EventIsMine
    <2>4. QED
      BY <1>0, <1>8, <2>1, <2>3 DEF TypeOK, NoFalseAlarm, ReadGet, Agree
  <1>9. CASE UNCHANGED vars
    BY <1>0, <1>9 DEF NoFalseAlarm, vars
  <1>10. QED
    BY <1>1, <1>2, <1>3, <1>4, <1>5, <1>6, <1>7, <1>8, <1>9 DEF Next

-----------------------------------------------------------------------------
(***************************************************************************)
(* The theorems.                                                           *)
(***************************************************************************)
\* The invariant holds before anything is published or started.
LEMMA InvInit == Init => IInv
  <1> SUFFICES ASSUME Init PROVE IInv
    OBVIOUS
  <1>1. TypeOK
    BY TypeInit
  <1>2. ReadsLeaves /\ FactsWhole /\ LearntIsTrue /\ NoFalseAlarm
    BY DEF Init, ReadsLeaves, FactsWhole, LearntIsTrue, NoFalseAlarm, Processes
  <1>3. SentIsRead /\ ReceiptsAreTrue /\ RegistryIsEvents /\ OneAnchorPerRun /\ RowsAreOnChain
    BY DEF Init, SentIsRead, ReceiptsAreTrue, RegistryIsEvents, OneAnchorPerRun, RowsAreOnChain, Processes
  <1>4. QED
    BY <1>1, <1>2, <1>3 DEF IInv

\* No step of the command, the contract, the script or the network breaks it.
LEMMA InvStep == IInv /\ [Next]_vars => IInv'
  <1> SUFFICES ASSUME IInv, [Next]_vars PROVE IInv'
    OBVIOUS
  <1>1. TypeOK' /\ ReadsLeaves' /\ FactsWhole'
    BY TypeStep, ReadsLeavesStep, FactsWholeStep
  <1>2. SentIsRead' /\ ReceiptsAreTrue' /\ RegistryIsEvents' /\ OneAnchorPerRun'
    BY SentIsReadStep, ReceiptsStep, RegistryStep
  <1>3. LearntIsTrue' /\ RowsAreOnChain' /\ NoFalseAlarm'
    BY LearntStep, RowsStep, VerdictStep
  <1>4. QED
    BY <1>1, <1>2, <1>3 DEF IInv

\* The inductive invariant of anchoring.
THEOREM Invariance == Spec => []IInv
  BY InvInit, InvStep, PTL DEF Spec

\* Every variable keeps its type, and no process past its first read goes on
\* with an empty fact set.
THEOREM TypeCorrect == Spec => []TypeOK
  <1>1. IInv => TypeOK
    BY DEF IInv
  <1>2. QED
    BY <1>1, Invariance, PTL

\* However many invocations send a transaction for a run, the registry keeps
\* one anchor and emitted one event for it.
THEOREM AnchorsAreUnique == Spec => []OneAnchorPerRun
  <1>1. IInv => OneAnchorPerRun
    BY DEF IInv
  <1>2. QED
    BY <1>1, Invariance, PTL

\* run_anchor records only transactions that anchored their run.
THEOREM RecordsAreTrue == Spec => []RowsAreOnChain
  <1>1. IInv => RowsAreOnChain
    BY DEF IInv
  <1>2. QED
    BY <1>1, Invariance, PTL

\* No race, lost answer or retry makes a run look diverged.
THEOREM VerdictsAreSound == Spec => []NoFalseAlarm
  <1>1. IInv => NoFalseAlarm
    BY DEF IInv
  <1>2. QED
    BY <1>1, Invariance, PTL

-----------------------------------------------------------------------------
(***************************************************************************)
(* Anchoring implements the notary.                                        *)
(***************************************************************************)
Mark(x) == [run |-> x.run, root |-> x.root]

Attested == {Mark(x) : x \in rows}

\* Only Mine changes the registry, and only of a run that had no root; only
\* Persist changes the rows, by one whose root the registry has.
LEMMA NotaryStep ==
  ASSUME IInv, IInv', [Next]_vars
  PROVE  [N!NotaryNext]_<<anchors, Attested>>
  <1>0. TypeOK /\ TypeOK' /\ RowsAreOnChain' /\ OneAnchorPerRun' /\ RegistryIsEvents'
    BY DEF IInv
  <1>1. ASSUME NEW t \in pool, Mine(t) PROVE N!Settle \/ UNCHANGED <<anchors, Attested>>
    <2>1. UNCHANGED Attested
      BY <1>1 DEF Mine, Attested
    <2>2. CASE Reverts(t.run, t.root)
      BY <1>1, <2>1, <2>2 DEF Mine
    <2>3. CASE ~ Reverts(t.run, t.root)
      <3>1. t.run \in Runs /\ anchors[t.run] = Unset /\ t.root # Unset
        BY <1>0, <2>3 DEF TypeOK, Transaction, Reverts
      <3>2. anchors' = [anchors EXCEPT ![t.run] = t.root]
        BY <1>1, <2>3 DEF Mine
      <3>3. anchors'[t.run] = t.root
        BY <1>0, <3>1, <3>2 DEF TypeOK
      <3>4. QED
        BY <2>1, <3>1, <3>2, <3>3 DEF N!Settle, Attested, Mark
    <2>4. QED
      BY <2>2, <2>3
  <1>2. ASSUME NEW c \in Clis, Persist(c) PROVE N!Attest
    <2> DEFINE row == [tx |-> c, run |-> run[c], root |-> RootOf(read[c])]
               mark == [run |-> run[c], root |-> RootOf(read[c])]
    <2>1. rows' = rows \cup {row} /\ UNCHANGED anchors
      BY <1>2 DEF Persist, chain
    <2>2. Attested' = Attested \cup {mark} /\ mark \in Attested'
      <3>1. mark = Mark(row) /\ Attested' = {Mark(x) : x \in rows'}
        BY DEF Attested, Mark
      <3> HIDE DEF row, mark
      <3>2. QED
        BY <2>1, <3>1 DEF Attested
    <2>3. row \in events'
      BY <1>0, <2>1 DEF RowsAreOnChain
    <2>4. anchors[mark.run] = mark.root /\ mark.root # Unset
      BY <1>0, <2>1, <2>3 DEF OneAnchorPerRun, RegistryIsEvents
    <2> HIDE DEF mark
    <2>5. QED
      BY <2>1, <2>2, <2>4 DEF N!Attest, Attested, Mark
  <1>3. CASE UNCHANGED <<anchors, rows>>
    BY <1>3 DEF Attested
  <1>4. QED
    BY <1>1, <1>2, <1>3 DEF Next, vars, chain, Publish, Damage, Start, ReadFacts, Fail, IsAnchored, Compare, Send,
       Receipt, Drop, ReadEvents, ReadGet, N!NotaryNext

\* The command, the contract and the chain between them are a notary: a run's root
\* is settled once, and run_anchor attests no other.
THEOREM NotaryIsImplemented == Spec => ImplementsNotary
  <1>1. Init => N!NotaryInit
    BY DEF Init, N!NotaryInit
  <1>2. IInv /\ IInv' /\ [Next]_vars
           => [N!NotaryNext]_<<anchors, {[run |-> row.run, root |-> row.root] : row \in rows}>>
    <2>1. Attested = {[run |-> row.run, root |-> row.root] : row \in rows}
      BY DEF Attested, Mark
    <2>2. Attested' = {[run |-> row.run, root |-> row.root] : row \in rows'}
      BY DEF Attested, Mark
    <2>3. QED
      BY NotaryStep, <2>1, <2>2
  <1>3. QED
    BY <1>1, <1>2, Invariance, PTL DEF Spec, ImplementsNotary, N!NotarySpec

-----------------------------------------------------------------------------
(***************************************************************************)
(* The Merkle root tells sets of fact hashes apart.                        *)
(***************************************************************************)
\* The order of the natural numbers, as a relation.
SmallerNat == {p \in Nat \X Nat : p[1] < p[2]}

\* A set of naturals that has 0 and the successor of each member has them all.
LEMMA NaturalInduction ==
  ASSUME NEW P, 0 \in P, \A n \in Nat : n \in P => n + 1 \in P
  PROVE  \A n \in Nat : n \in P
  <1> DEFINE T == Nat \ P
  <1>1. SUFFICES ASSUME T # {} PROVE FALSE
    OBVIOUS
  <1>2. IsWellFoundedOn(SmallerNat, Nat)
    BY NatLessThanWellFounded, Zenon DEF OpToRel, SmallerNat
  <1>3. PICK m \in T : \A k \in T : ~ (<<k, m>> \in SmallerNat)
    <2>1. T \subseteq Nat
      OBVIOUS
    <2> HIDE DEF T
    <2>2. QED
      BY <1>1, <1>2, <2>1, WFMin
  <1>4. m # 0 /\ m - 1 \in Nat /\ m - 1 + 1 = m
    BY <1>3
  <1>5. <<m - 1, m>> \in SmallerNat
    BY <1>4 DEF SmallerNat
  <1>6. m - 1 \in P
    BY <1>3, <1>4, <1>5
  <1>7. m - 1 + 1 \in P
    BY <1>4, <1>6
  <1>8. QED
    BY <1>3, <1>4, <1>7

\* The place of x among the hashes S, counted from 0.
Below(S, x) == {y \in S : y < x}

\* The leaves are the hashes, each once.
LEMMA SortedIsOnto ==
  ASSUME NEW S \in SUBSET Nat, IsFiniteSet(S)
  PROVE  /\ \A i \in 1..Cardinality(S) : Sorted(S)[i] \in S
         /\ \A x \in S : \E i \in 1..Cardinality(S) : Sorted(S)[i] = x
  <1> DEFINE n == Cardinality(S)
             rank == [x \in S |-> Cardinality(Below(S, x))]
  <1>1. \A T \in SUBSET S : IsFiniteSet(T) /\ Cardinality(T) \in Nat /\ Cardinality(T) <= n
    BY FS_Subset, FS_CardinalityType
  <1>2. \A x \in S : Below(S, x) \in SUBSET S /\ x \notin Below(S, x)
    BY DEF Below
  <1>3. ASSUME NEW x \in S, NEW T \in SUBSET S, Below(S, x) \cup {x} \subseteq T
        PROVE  Cardinality(Below(S, x)) < Cardinality(T)
    <2>1. Cardinality(Below(S, x) \cup {x}) = Cardinality(Below(S, x)) + 1
      BY <1>1, <1>2, FS_AddElement
    <2>2. IsFiniteSet(T) /\ Cardinality(T) \in Nat
      BY <1>1
    <2>3. Cardinality(Below(S, x) \cup {x}) <= Cardinality(T)
      BY <1>3, <2>2, FS_Subset
    <2>4. Cardinality(Below(S, x)) \in Nat
      BY <1>1, <1>2
    <2>5. QED
      BY <2>1, <2>2, <2>3, <2>4
  <1>4. \A x \in S : rank[x] \in 0..(n - 1)
    <2>1. SUFFICES ASSUME NEW x \in S PROVE Cardinality(Below(S, x)) \in 0..(n - 1)
      OBVIOUS
    <2>2. Cardinality(Below(S, x)) < n /\ Cardinality(Below(S, x)) \in Nat /\ n \in Nat
      BY <1>1, <1>2, <1>3
    <2>3. QED
      BY <2>2
  <1>5. ASSUME NEW x \in S, NEW y \in S, x < y PROVE rank[x] < rank[y]
    <2>1. Below(S, x) \cup {x} \subseteq Below(S, y)
      <3>1. SUFFICES ASSUME NEW z \in Below(S, x) \cup {x} PROVE z \in Below(S, y)
        OBVIOUS
      <3>2. z \in S /\ (z < x \/ z = x)
        BY <3>1 DEF Below
      <3>3. z \in Nat /\ x \in Nat /\ y \in Nat
        BY <3>2
      <3>4. z < y
        BY <1>5, <3>2, <3>3
      <3>5. QED
        BY <3>2, <3>4 DEF Below
    <2>2. Cardinality(Below(S, x)) < Cardinality(Below(S, y))
      BY <1>2, <1>3, <2>1
    <2>3. QED
      BY <2>2
  <1>6. \A x, y \in S : rank[x] = rank[y] => x = y
    <2>1. SUFFICES ASSUME NEW x \in S, NEW y \in S, rank[x] = rank[y], x # y PROVE FALSE
      OBVIOUS
    <2>2. x \in Nat /\ y \in Nat /\ (x < y \/ y < x)
      BY <2>1
    <2>3. rank[x] \in Int /\ rank[y] \in Int
      BY <1>4
    <2>4. rank[x] < rank[y] \/ rank[y] < rank[x]
      BY <1>5, <2>2
    <2> HIDE DEF rank
    <2>5. QED
      BY <2>1, <2>3, <2>4
  <1>7. rank \in Injection(S, 0..(n - 1))
    BY <1>4, <1>6 DEF Injection, IsInjective
  <1>8. IsFiniteSet(0..(n - 1)) /\ Cardinality(0..(n - 1)) = n
    <2>1. n \in Nat
      BY FS_CardinalityType
    <2>2. n - 1 \in Int /\ (IF 0 > n - 1 THEN 0 ELSE (n - 1) - 0 + 1) = n
      BY <2>1
    <2>3. QED
      BY <2>2, FS_Interval
  <1>9. rank \in Surjection(S, 0..(n - 1))
    <2> HIDE DEF rank
    <2>1. QED
      BY <1>7, <1>8, FS_Injection
  <1>10. ASSUME NEW i \in 1..n PROVE \E x \in S : Cardinality(Below(S, x)) = i - 1
    <2>1. i - 1 \in 0..(n - 1)
      BY FS_CardinalityType
    <2>2. QED
      BY <1>9, <2>1 DEF Surjection
  <1>11. \A i \in 1..n : Sorted(S)[i] \in S /\ Cardinality(Below(S, Sorted(S)[i])) = i - 1
    BY <1>10 DEF Sorted, Below
  <1>12. ASSUME NEW x \in S PROVE \E i \in 1..n : Sorted(S)[i] = x
    <2> DEFINE i == rank[x] + 1
    <2>1. i \in 1..n /\ i - 1 = rank[x]
      <3>1. rank[x] \in 0..(n - 1) /\ n \in Nat
        BY <1>4, FS_CardinalityType
      <3> HIDE DEF rank
      <3>2. QED
        BY <3>1
    <2>2. Sorted(S)[i] \in S /\ rank[Sorted(S)[i]] = rank[x]
      BY <1>11, <2>1
    <2>3. Sorted(S)[i] = x
      BY <1>6, <2>2
    <2>4. QED
      BY <2>1, <2>3
  <1>13. QED
    BY <1>11, <1>12

-----------------------------------------------------------------------------
(***************************************************************************)
(* The levels of a root.                                                   *)
(***************************************************************************)
\* The leaves a root is built on, and its levels.
Leaf(S) == [i \in 1..Cardinality(S) |-> LeafHash(Sorted(S)[i])]

LevelsTo(level, S, D) ==
    level = [k \in D |-> IF k = 0 THEN Leaf(S) ELSE NextLevel(level[k - 1])]

\* The levels of a root exist, as far as one likes.
LEMMA LevelsExist ==
  ASSUME NEW S
  PROVE  \E level : LevelsTo(level, S, Nat)
  <1> DEFINE P == {n \in Nat : \E level : LevelsTo(level, S, 0..n)}
             upTo(n) == CHOOSE level : LevelsTo(level, S, 0..n)
  <1>1. 0 \in P
    <2>1. LevelsTo([k \in 0..0 |-> Leaf(S)], S, 0..0)
      BY DEF LevelsTo
    <2>2. QED
      BY <2>1
  <1>2. ASSUME NEW n \in Nat, n \in P PROVE n + 1 \in P
    <2>1. PICK level : LevelsTo(level, S, 0..n)
      BY <1>2
    <2> DEFINE next == [k \in 0..(n + 1) |-> IF k = 0 THEN Leaf(S) ELSE NextLevel(level[k - 1])]
    <2>2. \A k \in 0..n : next[k] = level[k]
      BY <2>1 DEF LevelsTo
    <2>3. \A k \in 0..(n + 1) : k # 0 => k - 1 \in 0..n
      OBVIOUS
    <2>4. \A k \in 0..(n + 1) : k # 0 => next[k - 1] = level[k - 1]
      BY <2>2, <2>3
    <2>5. next = [k \in 0..(n + 1) |-> IF k = 0 THEN Leaf(S) ELSE NextLevel(next[k - 1])]
      BY <2>4
    <2>6. LevelsTo(next, S, 0..(n + 1))
      BY <2>5 DEF LevelsTo
    <2>7. QED
      BY <2>6
  <1>3. \A n \in Nat : n \in P
    <2> HIDE DEF P
    <2>1. QED
      BY <1>1, <1>2, NaturalInduction
  <1>4. \A n \in Nat : LevelsTo(upTo(n), S, 0..n)
    BY <1>3
  <1>5. \A n \in Nat : \A k \in 0..n : upTo(n)[k] = IF k = 0 THEN Leaf(S) ELSE NextLevel(upTo(n)[k - 1])
    <2> HIDE DEF upTo
    <2>1. QED
      BY <1>4 DEF LevelsTo
  <1>6. \A k \in Nat : \A n \in Nat : k <= n => upTo(n)[k] = upTo(k)[k]
    <2> HIDE DEF upTo
    <2> DEFINE Q == {k \in Nat : \A m, n \in Nat : k <= n /\ k <= m => upTo(n)[k] = upTo(m)[k]}
    <2>1. 0 \in Q
      BY <1>5
    <2>2. ASSUME NEW k \in Nat, k \in Q PROVE k + 1 \in Q
      <3>1. SUFFICES ASSUME NEW m \in Nat, NEW n \in Nat, k + 1 <= n, k + 1 <= m
                     PROVE  upTo(n)[k + 1] = upTo(m)[k + 1]
        OBVIOUS
      <3>2. k + 1 \in 0..n /\ k + 1 \in 0..m /\ k + 1 # 0 /\ (k + 1) - 1 = k /\ k <= n /\ k <= m
        BY <3>1
      <3>3. upTo(n)[k + 1] = NextLevel(upTo(n)[k]) /\ upTo(m)[k + 1] = NextLevel(upTo(m)[k])
        BY <1>5, <3>2
      <3>4. upTo(n)[k] = upTo(m)[k]
        BY <2>2, <3>2
      <3>5. QED
        BY <3>3, <3>4
    <2>3. \A k \in Nat : k \in Q
      <3> HIDE DEF Q
      <3>1. QED
        BY <2>1, <2>2, NaturalInduction
    <2>4. QED
      BY <2>3
  <1> DEFINE all == [k \in Nat |-> upTo(k)[k]]
  <1>7. \A k \in Nat : k # 0 => k - 1 \in Nat /\ upTo(k)[k - 1] = all[k - 1]
    <2>1. SUFFICES ASSUME NEW k \in Nat, k # 0 PROVE k - 1 \in Nat /\ upTo(k)[k - 1] = upTo(k - 1)[k - 1]
      OBVIOUS
    <2>2. k - 1 \in Nat /\ k - 1 <= k
      BY <2>1
    <2> HIDE DEF upTo
    <2>3. QED
      BY <1>6, <2>2
  <1>8. \A k \in Nat : upTo(k)[k] = IF k = 0 THEN Leaf(S) ELSE NextLevel(all[k - 1])
    <2>1. SUFFICES ASSUME NEW k \in Nat
                   PROVE  upTo(k)[k] = IF k = 0 THEN Leaf(S) ELSE NextLevel(all[k - 1])
      OBVIOUS
    <2> HIDE DEF upTo
    <2>2. k \in 0..k
      OBVIOUS
    <2>3. upTo(k)[k] = IF k = 0 THEN Leaf(S) ELSE NextLevel(upTo(k)[k - 1])
      BY <1>5, <2>2
    <2>4. k # 0 => upTo(k)[k - 1] = all[k - 1]
      BY <1>7
    <2> HIDE DEF all
    <2>5. QED
      BY <2>3, <2>4
  <1>9. all = [k \in Nat |-> IF k = 0 THEN Leaf(S) ELSE NextLevel(all[k - 1])]
    <2> HIDE DEF upTo
    <2>1. [k \in Nat |-> upTo(k)[k]] = [k \in Nat |-> IF k = 0 THEN Leaf(S) ELSE NextLevel(all[k - 1])]
      <3> HIDE DEF all
      <3>1. QED
        BY <1>8
    <2>2. QED
      BY <2>1
  <1>10. QED
    BY <1>9 DEF LevelsTo

-----------------------------------------------------------------------------
\* The nodes the next level has.
Half(n) == (n + 1) \div 2

\* L is a list of n nodes.
IsList(L, n) == n \in Nat \ {0} /\ Len(L) = n /\ L = [i \in 1..n |-> L[i]]

\* A function on 1..n is a list.
LEMMA ListFromFunction ==
  ASSUME NEW n \in Nat \ {0}, NEW L, L = [i \in 1..n |-> L[i]]
  PROVE  IsList(L, n)
  <1> DEFINE R == {L[i] : i \in 1..n}
  <1>1. L \in [1..n -> R]
    OBVIOUS
  <1>2. L \in Seq(R) /\ Len(L) = n
    <2> HIDE DEF R
    <2>1. QED
      BY <1>1
  <1>3. QED
    BY <1>2 DEF IsList

\* The nodes paired at place i of the next level are nodes of this one, and only
\* the last one may be left without a partner.
LEMMA HalfFacts ==
  ASSUME NEW n \in Nat \ {0}
  PROVE  /\ Half(n) \in Nat \ {0}
         /\ \A i \in 1..Half(n) : 2 * i - 1 \in 1..n
         /\ \A i \in 1..Half(n) : i # Half(n) => 2 * i <= n /\ 2 * i - 1 \in 1..(n - 1)
         /\ 2 * Half(n) <= n => 2 * Half(n) - 1 \in 1..(n - 1)
         /\ ~ (2 * Half(n) <= n) => 2 * Half(n) - 1 = n
         /\ n = 1 => Half(n) = 1
         /\ n # 1 => Half(n) + 1 <= n
         /\ 2 * Half(n) = n \/ 2 * Half(n) - 1 = n
  BY DEF Half

\* A level's next level, node by node.
LEMMA NextLevelIs ==
  ASSUME NEW n, NEW L, IsList(L, n)
  PROVE  /\ IsList(NextLevel(L), Half(n))
         /\ \A i \in 1..Half(n) :
               NextLevel(L)[i] = IF 2 * i <= n THEN NodeHash(L[2 * i - 1], L[2 * i]) ELSE L[2 * i - 1]
  <1>1. n \in Nat \ {0} /\ Len(L) = n
    BY DEF IsList
  <1>2. NextLevel(L) =
           [i \in 1..Half(n) |-> IF 2 * i <= n THEN NodeHash(L[2 * i - 1], L[2 * i]) ELSE L[2 * i - 1]]
    BY <1>1 DEF NextLevel, Half
  <1>3. Half(n) \in Nat \ {0}
    BY <1>1, HalfFacts
  <1>4. NextLevel(L) = [i \in 1..Half(n) |-> NextLevel(L)[i]]
    BY <1>2
  <1>5. QED
    BY <1>2, <1>3, <1>4, ListFromFunction

-----------------------------------------------------------------------------
\* s goes from t down the left children to a leaf, in d steps.
Spine(s, t, d) ==
    /\ s[0] = t
    /\ \A i \in Nat : i < d => s[i][1] = 1 /\ s[i + 1] = s[i][2]
    /\ s[d][1] = 0

\* A leaf is d left children below t.
HasDepth(t, d) == \E s : Spine(s, t, d)

\* The tags of leaves and nodes, and what a node holds.
LEMMA Tags ==
  /\ \A h : LeafHash(h)[1] = 0 /\ LeafHash(h)[2] = h
  /\ \A l, r : NodeHash(l, r)[1] = 1 /\ NodeHash(l, r)[2] = l /\ NodeHash(l, r)[3] = r
  BY DEF LeafHash, NodeHash

\* A leaf has depth 0.
LEMMA LeafDepth == ASSUME NEW h PROVE HasDepth(LeafHash(h), 0)
  <1>1. Spine([i \in Nat |-> LeafHash(h)], LeafHash(h), 0)
    BY Tags DEF Spine
  <1>2. QED
    BY <1>1 DEF HasDepth

\* A node is one deeper than its left child.
LEMMA NodeDepth ==
  ASSUME NEW l, NEW r, NEW d \in Nat, HasDepth(l, d)
  PROVE  HasDepth(NodeHash(l, r), d + 1)
  <1>1. PICK s : Spine(s, l, d)
    BY DEF HasDepth
  <1> DEFINE t == NodeHash(l, r)
             u == [i \in Nat |-> IF i = 0 THEN t ELSE s[i - 1]]
  <1>2. t[1] = 1 /\ t[2] = l
    BY Tags
  <1> HIDE DEF t
  <1>3. u[0] = t /\ \A i \in Nat : u[i + 1] = s[i]
    <2>1. \A i \in Nat : i + 1 \in Nat /\ i + 1 # 0 /\ (i + 1) - 1 = i
      OBVIOUS
    <2>2. QED
      BY <2>1
  <1> HIDE DEF u
  <1>4. ASSUME NEW i \in Nat, i < d + 1 PROVE u[i][1] = 1 /\ u[i + 1] = u[i][2]
    <2>1. CASE i = 0
      <3>1. u[1] = s[0]
        BY <1>3
      <3>2. QED
        BY <1>1, <1>2, <1>3, <2>1, <3>1 DEF Spine
    <2>2. CASE i # 0
      <3>1. i - 1 \in Nat /\ i - 1 < d /\ (i - 1) + 1 = i
        BY <1>4, <2>2
      <3>2. u[i] = s[i - 1] /\ u[i + 1] = s[i]
        BY <1>3, <3>1
      <3>3. s[i - 1][1] = 1 /\ s[i] = s[i - 1][2]
        BY <1>1, <3>1 DEF Spine
      <3>4. QED
        BY <3>2, <3>3
    <2>3. QED
      BY <2>1, <2>2
  <1>5. u[d + 1][1] = 0
    BY <1>1, <1>3 DEF Spine
  <1>6. Spine(u, t, d + 1)
    BY <1>3, <1>4, <1>5 DEF Spine
  <1>7. QED
    BY <1>6 DEF HasDepth, t

\* A term has one depth.
LEMMA OneDepth ==
  ASSUME NEW t, NEW d \in Nat, NEW e \in Nat, HasDepth(t, d), HasDepth(t, e)
  PROVE  d = e
  <1>1. PICK s : Spine(s, t, d)
    BY DEF HasDepth
  <1>2. PICK u : Spine(u, t, e)
    BY DEF HasDepth
  <1> DEFINE P == {i \in Nat : i <= d /\ i <= e => s[i] = u[i]}
  <1>3. 0 \in P
    BY <1>1, <1>2 DEF Spine
  <1>4. ASSUME NEW i \in Nat, i \in P PROVE i + 1 \in P
    <2>1. SUFFICES ASSUME i + 1 <= d, i + 1 <= e PROVE s[i + 1] = u[i + 1]
      OBVIOUS
    <2>2. i < d /\ i < e /\ i <= d /\ i <= e
      BY <2>1
    <2>3. s[i] = u[i]
      BY <1>4, <2>2
    <2>4. s[i + 1] = s[i][2] /\ u[i + 1] = u[i][2]
      BY <1>1, <1>2, <2>2 DEF Spine
    <2>5. QED
      BY <2>3, <2>4
  <1>5. \A i \in Nat : i \in P
    <2> HIDE DEF P
    <2>1. QED
      BY <1>3, <1>4, NaturalInduction
  <1>6. ~ (d < e)
    <2>1. SUFFICES ASSUME d < e PROVE FALSE
      OBVIOUS
    <2>2. s[d] = u[d]
      BY <1>5, <2>1
    <2>3. s[d][1] = 0 /\ u[d][1] = 1
      BY <1>1, <1>2, <2>1 DEF Spine
    <2>4. QED
      BY <2>2, <2>3
  <1>7. ~ (e < d)
    <2>1. SUFFICES ASSUME e < d PROVE FALSE
      OBVIOUS
    <2>2. s[e] = u[e]
      BY <1>5, <2>1
    <2>3. s[e][1] = 1 /\ u[e][1] = 0
      BY <1>1, <1>2, <2>1 DEF Spine
    <2>4. QED
      BY <2>2, <2>3
  <1>8. QED
    BY <1>6, <1>7

-----------------------------------------------------------------------------
\* The k-th level: every node but the last has depth k, the last no more.
IsLevel(L, n, k) ==
    /\ IsList(L, n)
    /\ \A i \in 1..(n - 1) : HasDepth(L[i], k)
    /\ \E j \in Nat : j <= k /\ HasDepth(L[n], j)

\* Pairing makes every node one deeper, but for a promoted one.
LEMMA NextIsLevel ==
  ASSUME NEW n, NEW L, NEW k \in Nat, IsLevel(L, n, k)
  PROVE  IsLevel(NextLevel(L), Half(n), k + 1)
  <1>1. IsList(L, n) /\ n \in Nat \ {0}
    BY DEF IsLevel, IsList
  <1>2. /\ IsList(NextLevel(L), Half(n))
        /\ \A i \in 1..Half(n) :
              NextLevel(L)[i] = IF 2 * i <= n THEN NodeHash(L[2 * i - 1], L[2 * i]) ELSE L[2 * i - 1]
    BY <1>1, NextLevelIs
  <1>3. Half(n) \in Nat \ {0}
    BY <1>1, HalfFacts
  <1>4. ASSUME NEW i \in 1..Half(n), 2 * i <= n, 2 * i - 1 \in 1..(n - 1)
        PROVE  HasDepth(NextLevel(L)[i], k + 1)
    <2>1. HasDepth(L[2 * i - 1], k)
      BY <1>4 DEF IsLevel
    <2>2. HasDepth(NodeHash(L[2 * i - 1], L[2 * i]), k + 1)
      BY <2>1, NodeDepth
    <2>3. QED
      BY <1>2, <1>4, <2>2
  <1>5. ASSUME NEW i \in 1..(Half(n) - 1) PROVE HasDepth(NextLevel(L)[i], k + 1)
    <2>1. i \in 1..Half(n) /\ i # Half(n)
      BY <1>3
    <2>2. 2 * i <= n /\ 2 * i - 1 \in 1..(n - 1)
      BY <1>1, <2>1, HalfFacts
    <2>3. QED
      BY <1>4, <2>1, <2>2
  <1>6. \E j \in Nat : j <= k + 1 /\ HasDepth(NextLevel(L)[Half(n)], j)
    <2>1. Half(n) \in 1..Half(n)
      BY <1>3
    <2>2. CASE 2 * Half(n) <= n
      <3>1. 2 * Half(n) - 1 \in 1..(n - 1)
        BY <1>1, <2>2, HalfFacts
      <3>2. HasDepth(NextLevel(L)[Half(n)], k + 1)
        BY <1>4, <2>1, <2>2, <3>1
      <3>3. k + 1 \in Nat /\ k + 1 <= k + 1
        OBVIOUS
      <3>4. QED
        BY <3>2, <3>3
    <2>3. CASE ~ (2 * Half(n) <= n)
      <3>1. NextLevel(L)[Half(n)] = L[n]
        <4>1. 2 * Half(n) - 1 = n
          BY <1>1, <2>3, HalfFacts
        <4>2. NextLevel(L)[Half(n)] = L[2 * Half(n) - 1]
          BY <1>2, <2>1, <2>3
        <4>3. QED
          BY <4>1, <4>2
      <3>2. PICK j \in Nat : j <= k /\ HasDepth(L[n], j)
        BY DEF IsLevel
      <3>3. j <= k + 1
        BY <3>2
      <3>4. QED
        BY <3>1, <3>2, <3>3
    <2>4. QED
      BY <2>2, <2>3
  <1>7. QED
    BY <1>2, <1>5, <1>6 DEF IsLevel

\* Two levels of as many pairings have equally many nodes: a promoted node is too
\* shallow to be taken for a paired one.
LEMMA NoPairForAPromotion ==
  ASSUME NEW n, NEW m, NEW A, NEW B, NEW k \in Nat, IsLevel(A, n, k), IsLevel(B, m, k),
         Half(n) = Half(m), NextLevel(A)[Half(n)] = NextLevel(B)[Half(n)]
  PROVE  ~ (n < m)
  <1>1. n \in Nat \ {0} /\ m \in Nat \ {0} /\ IsList(A, n) /\ IsList(B, m)
    BY DEF IsLevel, IsList
  <1>2. SUFFICES ASSUME n < m PROVE FALSE
    OBVIOUS
  <1> DEFINE h == Half(n)
  <1>3. h \in Nat \ {0} /\ h \in 1..h /\ (2 * h = n \/ 2 * h - 1 = n) /\ (2 * h = m \/ 2 * h - 1 = m)
    BY <1>1, HalfFacts
  <1> HIDE DEF h
  <1>4. 2 * h - 1 = n /\ 2 * h = m /\ ~ (2 * h <= n) /\ 2 * h <= m /\ 2 * h - 1 \in 1..(m - 1)
    BY <1>1, <1>2, <1>3
  <1>5. NextLevel(A)[h] = A[2 * h - 1]
    BY <1>1, <1>3, <1>4, NextLevelIs DEF h
  <1>6. NextLevel(B)[h] = NodeHash(B[2 * h - 1], B[2 * h])
    BY <1>1, <1>3, <1>4, NextLevelIs DEF h
  <1>7. HasDepth(B[2 * h - 1], k)
    BY <1>4 DEF IsLevel
  <1>8. HasDepth(NextLevel(B)[h], k + 1)
    BY <1>6, <1>7, NodeDepth
  <1>9. PICK j \in Nat : j <= k /\ HasDepth(A[n], j)
    BY DEF IsLevel
  <1>10. HasDepth(NextLevel(B)[h], j)
    BY <1>4, <1>5, <1>9 DEF h
  <1>11. k + 1 \in Nat /\ k + 1 # j
    BY <1>9
  <1>12. QED
    BY <1>8, <1>10, <1>11, OneDepth

\* The next level tells the levels it comes from apart.
LEMMA NextTellsLevelsApart ==
  ASSUME NEW n, NEW m, NEW A, NEW B, NEW k \in Nat, IsLevel(A, n, k), IsLevel(B, m, k),
         NextLevel(A) = NextLevel(B)
  PROVE  n = m /\ A = B
  <1>1. n \in Nat \ {0} /\ m \in Nat \ {0} /\ IsList(A, n) /\ IsList(B, m)
    BY DEF IsLevel, IsList
  <1>2. Half(n) = Half(m)
    <2>1. IsList(NextLevel(A), Half(n)) /\ IsList(NextLevel(B), Half(m))
      BY <1>1, NextLevelIs
    <2>2. QED
      BY <2>1 DEF IsList
  <1>3. n = m
    <2>1. ~ (n < m)
      BY <1>2, NoPairForAPromotion
    <2>2. ~ (m < n)
      BY <1>2, NoPairForAPromotion
    <2>3. QED
      BY <1>1, <2>1, <2>2
  <1>4. ASSUME NEW i \in 1..n PROVE A[i] = B[i]
    <2> DEFINE q == Half(i)
    <2>1. q \in 1..Half(n) /\ (i = 2 * q - 1 \/ i = 2 * q) /\ q \in Nat
      BY <1>1 DEF Half
    <2> HIDE DEF q
    <2>2. NextLevel(A)[q] = IF 2 * q <= n THEN NodeHash(A[2 * q - 1], A[2 * q]) ELSE A[2 * q - 1]
      BY <1>1, <2>1, NextLevelIs
    <2>3. NextLevel(B)[q] = IF 2 * q <= n THEN NodeHash(B[2 * q - 1], B[2 * q]) ELSE B[2 * q - 1]
      BY <1>1, <1>2, <1>3, <2>1, NextLevelIs
    <2>4. CASE 2 * q <= n
      <3>1. NodeHash(A[2 * q - 1], A[2 * q]) = NodeHash(B[2 * q - 1], B[2 * q])
        BY <2>2, <2>3, <2>4
      <3>2. A[2 * q - 1] = B[2 * q - 1] /\ A[2 * q] = B[2 * q]
        BY <3>1, Tags
      <3>3. QED
        BY <2>1, <3>2
    <2>5. CASE ~ (2 * q <= n)
      <3>1. i = 2 * q - 1
        BY <2>1, <2>5
      <3>2. QED
        BY <2>2, <2>3, <2>5, <3>1
    <2>6. QED
      BY <2>4, <2>5
  <1>5. QED
    BY <1>1, <1>3, <1>4 DEF IsList

-----------------------------------------------------------------------------
\* The levels over S get narrower until one node is left.
LEMMA LevelsNarrow ==
  ASSUME NEW S \in SUBSET Nat, IsFiniteSet(S), S # {}, NEW level, LevelsTo(level, S, Nat)
  PROVE  \A k \in Nat : \E n \in Nat \ {0} :
            IsLevel(level[k], n, k) /\ (n = 1 \/ n + k <= Cardinality(S))
  <1> DEFINE c == Cardinality(S)
             P == {k \in Nat : \E n \in Nat \ {0} : IsLevel(level[k], n, k) /\ (n = 1 \/ n + k <= c)}
  <1>1. c \in Nat \ {0}
    BY FS_CardinalityType, FS_EmptySet
  <1> HIDE DEF c
  <1>2. level[0] = Leaf(S) /\ \A k \in Nat : level[k + 1] = NextLevel(level[k])
    <2>1. \A k \in Nat : k + 1 \in Nat /\ k + 1 # 0 /\ (k + 1) - 1 = k
      OBVIOUS
    <2>2. level = [k \in Nat |-> IF k = 0 THEN Leaf(S) ELSE NextLevel(level[k - 1])]
      BY DEF LevelsTo
    <2>3. \A k \in Nat : level[k] = IF k = 0 THEN Leaf(S) ELSE NextLevel(level[k - 1])
      BY <2>2
    <2>4. \A k \in Nat : level[k + 1] = NextLevel(level[(k + 1) - 1])
      BY <2>1, <2>3
    <2>5. QED
      BY <2>1, <2>3, <2>4
  <1>3. 0 \in P
    <2>1. \A i \in 1..c : Leaf(S)[i] = LeafHash(Sorted(S)[i])
      BY DEF Leaf, c
    <2>2. \A i \in 1..c : HasDepth(Leaf(S)[i], 0)
      BY <2>1, LeafDepth
    <2>3. IsList(Leaf(S), c)
      BY <1>1, ListFromFunction DEF Leaf, c
    <2>4. c \in 1..c /\ \A i \in 1..(c - 1) : i \in 1..c
      BY <1>1
    <2>5. IsLevel(Leaf(S), c, 0)
      BY <2>2, <2>3, <2>4 DEF IsLevel
    <2>6. QED
      BY <1>1, <1>2, <2>5
  <1>4. ASSUME NEW k \in Nat, k \in P PROVE k + 1 \in P
    <2>1. PICK n \in Nat \ {0} : IsLevel(level[k], n, k) /\ (n = 1 \/ n + k <= c)
      BY <1>4
    <2>2. IsLevel(level[k + 1], Half(n), k + 1)
      BY <1>2, <2>1, NextIsLevel
    <2>3. Half(n) \in Nat \ {0} /\ (n = 1 => Half(n) = 1) /\ (n # 1 => Half(n) + 1 <= n)
      BY HalfFacts
    <2>4. Half(n) = 1 \/ Half(n) + (k + 1) <= c
      BY <1>1, <2>1, <2>3
    <2>5. QED
      BY <2>2, <2>3, <2>4
  <1>5. \A k \in Nat : k \in P
    <2> HIDE DEF P
    <2>1. QED
      BY <1>3, <1>4, NaturalInduction
  <1>6. QED
    BY <1>5 DEF c

\* A level of one node.
Alone(node) == [i \in 1..1 |-> node]

\* Past as many levels as there are leaves, a level is the root alone.
LEMMA TopLevel ==
  ASSUME NEW S \in SUBSET Nat, IsFiniteSet(S), S # {}, NEW level, LevelsTo(level, S, Nat),
         NEW d \in Nat
  PROVE  level[Cardinality(S) + d] = Alone(level[Cardinality(S)][1])
  <1> DEFINE c == Cardinality(S)
             root == Alone(level[c][1])
             P == {e \in Nat : level[c + e] = root}
  <1>1. c \in Nat \ {0}
    BY FS_CardinalityType, FS_EmptySet
  <1>2. \A k \in Nat : level[k + 1] = NextLevel(level[k])
    <2>1. \A k \in Nat : k + 1 \in Nat /\ k + 1 # 0 /\ (k + 1) - 1 = k
      OBVIOUS
    <2>2. level = [k \in Nat |-> IF k = 0 THEN Leaf(S) ELSE NextLevel(level[k - 1])]
      BY DEF LevelsTo
    <2>3. \A k \in Nat : level[k + 1] = NextLevel(level[(k + 1) - 1])
      BY <2>1, <2>2
    <2>4. QED
      BY <2>1, <2>3
  <1>3. IsList(level[c], 1)
    <2>1. PICK n \in Nat \ {0} : IsLevel(level[c], n, c) /\ (n = 1 \/ n + c <= c)
      BY <1>1, LevelsNarrow
    <2>2. n = 1
      BY <1>1, <2>1
    <2>3. QED
      BY <2>1, <2>2 DEF IsLevel
  <1> HIDE DEF c
  <1>4. level[c] = root /\ IsList(root, 1)
    BY <1>3 DEF IsList, Alone
  <1>5. NextLevel(root) = root
    <2> HIDE DEF root
    <2>1. Half(1) = 1
      BY HalfFacts
    <2>2. IsList(NextLevel(root), 1) /\ NextLevel(root)[1] = root[1]
      <3>1. IsList(NextLevel(root), Half(1)) /\ 1 \in 1..Half(1)
        BY <1>4, <2>1, NextLevelIs
      <3>2. ~ (2 * 1 <= 1) /\ 2 * 1 - 1 = 1
        OBVIOUS
      <3>3. NextLevel(root)[1] =
               IF 2 * 1 <= 1 THEN NodeHash(root[2 * 1 - 1], root[2 * 1]) ELSE root[2 * 1 - 1]
        BY <1>4, <3>1, NextLevelIs
      <3>4. QED
        BY <2>1, <3>1, <3>2, <3>3
    <2>3. QED
      BY <1>4, <2>2 DEF IsList
  <1>6. 0 \in P
    BY <1>1, <1>4
  <1>7. ASSUME NEW e \in Nat, e \in P PROVE e + 1 \in P
    <2> HIDE DEF root
    <2>1. c + e \in Nat /\ c + (e + 1) = (c + e) + 1
      BY <1>1
    <2>2. level[(c + e) + 1] = NextLevel(level[c + e])
      BY <1>2, <2>1
    <2>3. QED
      BY <1>5, <1>7, <2>1, <2>2
  <1>8. \A e \in Nat : e \in P
    <2> HIDE DEF P
    <2>1. QED
      BY <1>6, <1>7, NaturalInduction
  <1>9. QED
    BY <1>8 DEF c

\* The root is the one node of the level as many levels up as there are leaves.
LEMMA RootIs ==
  ASSUME NEW S
  PROVE  \E level : LevelsTo(level, S, Nat) /\ Root(S) = level[Cardinality(S)][1]
  <1> DEFINE chosen == CHOOSE level :
                         level = [k \in Nat |-> IF k = 0 THEN Leaf(S) ELSE NextLevel(level[k - 1])]
  <1>1. LevelsTo(chosen, S, Nat)
    <2>1. \E level : level = [k \in Nat |-> IF k = 0 THEN Leaf(S) ELSE NextLevel(level[k - 1])]
      BY LevelsExist DEF LevelsTo
    <2>2. QED
      BY <2>1 DEF LevelsTo
  <1>2. Root(S) = chosen[Cardinality(S)][1]
    BY Zenon DEF Root, Leaf
  <1>3. QED
    BY <1>1, <1>2

\* Two towers of levels that meet at some height are the same all the way down.
LEMMA LevelsMeet ==
  ASSUME NEW S \in SUBSET Nat, IsFiniteSet(S), S # {}, NEW T \in SUBSET Nat, IsFiniteSet(T), T # {},
         NEW f, LevelsTo(f, S, Nat), NEW g, LevelsTo(g, T, Nat),
         NEW k \in Nat, f[k] = g[k]
  PROVE  Leaf(S) = Leaf(T)
  <1> DEFINE P == {j \in Nat : j <= k => f[k - j] = g[k - j]}
  <1>1. /\ f[0] = Leaf(S) /\ g[0] = Leaf(T)
        /\ \A j \in Nat : f[j + 1] = NextLevel(f[j]) /\ g[j + 1] = NextLevel(g[j])
    <2>1. \A j \in Nat : j + 1 \in Nat /\ j + 1 # 0 /\ (j + 1) - 1 = j
      OBVIOUS
    <2>2. /\ f = [j \in Nat |-> IF j = 0 THEN Leaf(S) ELSE NextLevel(f[j - 1])]
          /\ g = [j \in Nat |-> IF j = 0 THEN Leaf(T) ELSE NextLevel(g[j - 1])]
      BY DEF LevelsTo
    <2>3. \A j \in Nat : /\ f[j + 1] = NextLevel(f[(j + 1) - 1])
                         /\ g[j + 1] = NextLevel(g[(j + 1) - 1])
      BY <2>1, <2>2
    <2>4. f[0] = Leaf(S) /\ g[0] = Leaf(T)
      BY <2>2
    <2>5. QED
      BY <2>1, <2>3, <2>4
  <1>2. 0 \in P
    OBVIOUS
  <1>3. ASSUME NEW j \in Nat, j \in P PROVE j + 1 \in P
    <2>1. SUFFICES ASSUME j + 1 <= k PROVE f[k - (j + 1)] = g[k - (j + 1)]
      OBVIOUS
    <2>2. j <= k /\ k - (j + 1) \in Nat /\ (k - (j + 1)) + 1 = k - j
      BY <2>1
    <2> DEFINE i == k - (j + 1)
    <2> HIDE DEF i
    <2>3. i \in Nat /\ f[i + 1] = g[i + 1]
      BY <1>3, <2>2 DEF i
    <2>4. NextLevel(f[i]) = NextLevel(g[i])
      BY <1>1, <2>3
    <2>5. PICK n : IsLevel(f[i], n, i)
      BY <2>3, LevelsNarrow
    <2>6. PICK m : IsLevel(g[i], m, i)
      BY <2>3, LevelsNarrow
    <2>7. f[i] = g[i]
      BY <2>3, <2>4, <2>5, <2>6, NextTellsLevelsApart
    <2>8. QED
      BY <2>7 DEF i
  <1>4. \A j \in Nat : j \in P
    <2> HIDE DEF P
    <2>1. QED
      BY <1>2, <1>3, NaturalInduction
  <1>5. f[0] = g[0]
    <2>1. k \in P /\ k - k = 0 /\ k <= k
      BY <1>4
    <2>2. QED
      BY <2>1
  <1>6. QED
    BY <1>1, <1>5

\* Lists of leaves are of the same hashes.
LEMMA LeavesTellSetsApart ==
  ASSUME NEW S \in SUBSET Nat, IsFiniteSet(S), S # {}, NEW T \in SUBSET Nat, IsFiniteSet(T), T # {},
         Leaf(S) = Leaf(T)
  PROVE  S = T
  <1> DEFINE c == Cardinality(S)
  <1>1. c \in Nat \ {0} /\ Cardinality(T) \in Nat \ {0}
    BY FS_CardinalityType, FS_EmptySet
  <1>2. c = Cardinality(T)
    <2>1. IsList(Leaf(S), c) /\ IsList(Leaf(T), Cardinality(T))
      BY <1>1, ListFromFunction DEF Leaf
    <2>2. QED
      BY <2>1 DEF IsList
  <1>3. \A i \in 1..c : Sorted(S)[i] = Sorted(T)[i]
    <2>1. \A i \in 1..c : Leaf(S)[i] = LeafHash(Sorted(S)[i]) /\ Leaf(T)[i] = LeafHash(Sorted(T)[i])
      BY <1>2 DEF Leaf
    <2>2. \A i \in 1..c : LeafHash(Sorted(S)[i]) = LeafHash(Sorted(T)[i])
      BY <2>1
    <2>3. QED
      BY <2>2, Tags
  <1>4. /\ \A i \in 1..c : Sorted(S)[i] \in S
        /\ \A x \in S : \E i \in 1..c : Sorted(S)[i] = x
    BY SortedIsOnto
  <1>5. /\ \A i \in 1..c : Sorted(T)[i] \in T
        /\ \A x \in T : \E i \in 1..c : Sorted(T)[i] = x
    BY <1>2, SortedIsOnto
  <1>6. S \subseteq T
    <2>1. SUFFICES ASSUME NEW x \in S PROVE x \in T
      OBVIOUS
    <2>2. PICK i \in 1..c : Sorted(S)[i] = x
      BY <1>4
    <2>3. QED
      BY <1>3, <1>5, <2>2
  <1>7. T \subseteq S
    <2>1. SUFFICES ASSUME NEW x \in T PROVE x \in S
      OBVIOUS
    <2>2. PICK i \in 1..c : Sorted(T)[i] = x
      BY <1>5
    <2>3. QED
      BY <1>3, <1>4, <2>2
  <1>8. QED
    BY <1>6, <1>7

\* No two non-empty sets of fact hashes have the same root, whatever their sizes:
\* promoting an odd node lets no list of hashes pass for another.
THEOREM RootTellsSetsApart ==
  ASSUME NEW S \in SUBSET Nat, IsFiniteSet(S), S # {}, NEW T \in SUBSET Nat, IsFiniteSet(T), T # {},
         Root(S) = Root(T)
  PROVE  S = T
  <1>1. PICK f : LevelsTo(f, S, Nat) /\ Root(S) = f[Cardinality(S)][1]
    BY RootIs
  <1>2. PICK g : LevelsTo(g, T, Nat) /\ Root(T) = g[Cardinality(T)][1]
    BY RootIs
  <1>3. Cardinality(S) \in Nat /\ Cardinality(T) \in Nat
    BY FS_CardinalityType
  <1>4. f[Cardinality(S) + Cardinality(T)] = Alone(f[Cardinality(S)][1])
    <2> DEFINE d == Cardinality(T)
    <2>1. d \in Nat
      BY <1>3
    <2> HIDE DEF d
    <2>2. f[Cardinality(S) + d] = Alone(f[Cardinality(S)][1])
      BY <1>1, <2>1, TopLevel
    <2>3. QED
      BY <2>2 DEF d
  <1>5. g[Cardinality(T) + Cardinality(S)] = Alone(g[Cardinality(T)][1])
    <2> DEFINE d == Cardinality(S)
    <2>1. d \in Nat
      BY <1>3
    <2> HIDE DEF d
    <2>2. g[Cardinality(T) + d] = Alone(g[Cardinality(T)][1])
      BY <1>2, <2>1, TopLevel
    <2>3. QED
      BY <2>2 DEF d
  <1> DEFINE k == Cardinality(S) + Cardinality(T)
  <1>6. k \in Nat /\ f[k] = g[k]
    <2>1. k \in Nat /\ k = Cardinality(T) + Cardinality(S)
      BY <1>3
    <2>2. f[Cardinality(S)][1] = g[Cardinality(T)][1]
      BY <1>1, <1>2
    <2>3. QED
      BY <1>4, <1>5, <2>1, <2>2
  <1> HIDE DEF k
  <1>7. Leaf(S) = Leaf(T)
    BY <1>1, <1>2, <1>6, LevelsMeet
  <1>8. QED
    BY <1>7, LeavesTellSetsApart

-----------------------------------------------------------------------------
(***************************************************************************)
(* A verdict is about the facts that were read, and stays about them.      *)
(***************************************************************************)
\* Whoever reported that the root matches has compared the root of what it read
\* with the one the registry keeps, and is done.
VerdictIsOfRead ==
    \A p \in Processes :
        outcome[p] \in {"already", "match"} =>
            /\ pc[p] = "done"
            /\ run[p] \in Runs /\ read[p] # {}
            /\ anchors[run[p]] # Unset /\ anchors[run[p]] = RootOf(read[p])

\* An anchor is never replaced.
LEMMA AnchorStays ==
  ASSUME IInv, [Next]_vars, NEW r \in Runs, anchors[r] # Unset
  PROVE  anchors'[r] = anchors[r]
  <1>1. TypeOK
    BY DEF IInv
  <1>2. ASSUME NEW t \in pool, Mine(t) PROVE anchors'[r] = anchors[r]
    <2>1. CASE t.run = r
      BY <1>2, <2>1 DEF Mine, Reverts
    <2>2. CASE t.run # r
      BY <1>1, <1>2, <2>2 DEF TypeOK, Mine
    <2>3. QED
      BY <2>1, <2>2
  <1>3. CASE UNCHANGED anchors
    BY <1>3
  <1>4. QED
    BY <1>2, <1>3 DEF Next, vars, chain, Publish, Damage, Start, ReadFacts, Fail, IsAnchored, Compare,
       Send, Receipt, Persist, Drop, ReadEvents, ReadGet

\* What a process that is done reported, and what it read, stays.
LEMMA VerdictStays ==
  ASSUME IInv, [Next]_vars, NEW p \in Processes, pc[p] = "done"
  PROVE  /\ pc'[p] = "done"
         /\ run'[p] = run[p] /\ read'[p] = read[p] /\ outcome'[p] = outcome[p]
  <1> USE DEF Goto, Ends, Continues
  <1>0. TypeOK
    BY DEF IInv
  <1>1. ASSUME NEW q \in Processes, q # p, \E stage : pc' = [pc EXCEPT ![q] = stage],
               run' = run \/ \E r : run' = [run EXCEPT ![q] = r],
               read' = read \/ \E S : read' = [read EXCEPT ![q] = S],
               outcome' = outcome \/ \E o : outcome' = [outcome EXCEPT ![q] = o]
        PROVE  /\ pc'[p] = "done"
               /\ run'[p] = run[p] /\ read'[p] = read[p] /\ outcome'[p] = outcome[p]
    BY <1>0, <1>1 DEF TypeOK
  <1>2. CASE UNCHANGED <<pc, run, read, outcome>>
    BY <1>2
  <1>3. ASSUME NEW q \in Processes, Start(q) \/ ReadFacts(q) \/ Fail(q)
        PROVE  /\ pc'[p] = "done"
               /\ run'[p] = run[p] /\ read'[p] = read[p] /\ outcome'[p] = outcome[p]
    <2>1. q # p
      BY <1>3 DEF Start, ReadFacts, Fail
    <2>2. \E stage : pc' = [pc EXCEPT ![q] = stage]
      BY <1>3, Zenon DEF Start, ReadFacts, Fail
    <2>3. run' = run \/ \E r : run' = [run EXCEPT ![q] = r]
      BY <1>3, Zenon DEF Start, ReadFacts, Fail
    <2>4. read' = read \/ \E S : read' = [read EXCEPT ![q] = S]
      BY <1>3, Zenon DEF Start, ReadFacts, Fail
    <2>5. outcome' = outcome \/ \E o : outcome' = [outcome EXCEPT ![q] = o]
      BY <1>3, Zenon DEF Start, ReadFacts, Fail
    <2>6. QED
      BY <1>1, <2>1, <2>2, <2>3, <2>4, <2>5
  <1>4. ASSUME NEW c \in Clis, IsAnchored(c) \/ Compare(c) \/ Send(c) \/ Receipt(c) \/ Persist(c)
        PROVE  /\ pc'[p] = "done"
               /\ run'[p] = run[p] /\ read'[p] = read[p] /\ outcome'[p] = outcome[p]
    <2>1. c # p /\ c \in Processes
      BY <1>4 DEF Processes, IsAnchored, Compare, Send, Receipt, Persist
    <2>2. \E stage : pc' = [pc EXCEPT ![c] = stage]
      BY <1>4, Zenon DEF IsAnchored, Compare, Send, Receipt, Persist
    <2>3. run' = run /\ read' = read
      BY <1>4 DEF IsAnchored, Compare, Send, Receipt, Persist
    <2>4. outcome' = outcome \/ \E o : outcome' = [outcome EXCEPT ![c] = o]
      BY <1>4, Zenon DEF IsAnchored, Compare, Send, Receipt, Persist
    <2>5. QED
      BY <1>1, <2>1, <2>2, <2>3, <2>4
  <1>5. ASSUME NEW v \in Verifiers, ReadEvents(v) \/ ReadGet(v)
        PROVE  /\ pc'[p] = "done"
               /\ run'[p] = run[p] /\ read'[p] = read[p] /\ outcome'[p] = outcome[p]
    <2>1. v # p /\ v \in Processes
      BY <1>5 DEF Processes, ReadEvents, ReadGet
    <2>2. \E stage : pc' = [pc EXCEPT ![v] = stage]
      BY <1>5, Zenon DEF ReadEvents, ReadGet
    <2>3. run' = run /\ read' = read
      BY <1>5 DEF ReadEvents, ReadGet
    <2>4. outcome' = outcome \/ \E o : outcome' = [outcome EXCEPT ![v] = o]
      BY <1>5, Zenon DEF ReadEvents, ReadGet
    <2>5. QED
      BY <1>1, <2>1, <2>2, <2>3, <2>4
  <1>6. QED
    BY <1>2, <1>3, <1>4, <1>5 DEF Next, vars, Publish, Damage, Mine, Drop

\* A verdict is given only on the root the registry keeps.
LEMMA VerdictIsOfReadStep ==
  ASSUME IInv, VerdictIsOfRead, [Next]_vars
  PROVE  VerdictIsOfRead'
  <1> USE DEF Goto, Ends, Continues
  <1>0. TypeOK /\ ReadsLeaves /\ RegistryIsEvents /\ LearntIsTrue
    BY DEF IInv
  <1>1. SUFFICES ASSUME NEW p \in Processes, outcome'[p] \in {"already", "match"}
                 PROVE  /\ pc'[p] = "done"
                        /\ run'[p] \in Runs /\ read'[p] # {}
                        /\ anchors'[run'[p]] # Unset /\ anchors'[run'[p]] = RootOf(read'[p])
    BY DEF VerdictIsOfRead, RootOf
  <1>2. CASE outcome[p] \in {"already", "match"}
    <2>1. /\ pc[p] = "done" /\ run[p] \in Runs /\ read[p] # {}
          /\ anchors[run[p]] # Unset /\ anchors[run[p]] = RootOf(read[p])
      BY <1>2 DEF VerdictIsOfRead
    <2>2. pc'[p] = "done" /\ run'[p] = run[p] /\ read'[p] = read[p]
      BY <2>1, VerdictStays
    <2>3. anchors'[run[p]] = anchors[run[p]]
      BY <2>1, AnchorStays
    <2>4. QED
      BY <2>1, <2>2, <2>3
  <1>3. CASE outcome[p] \notin {"already", "match"}
    <2>1. \/ p \in Clis /\ Compare(p) /\ anchors[run[p]] = RootOf(read[p])
          \/ p \in Verifiers /\ ReadGet(p) /\ Agree(p)
      <3>1. outcome' # outcome
        BY <1>1, <1>3
      <3>2. ASSUME NEW q \in Processes, ReadFacts(q) \/ Fail(q) PROVE FALSE
        <4>1. outcome' = [outcome EXCEPT ![q] = "error"]
          BY <3>1, <3>2 DEF ReadFacts, Fail
        <4>2. QED
          BY <1>0, <1>1, <1>3, <4>1 DEF TypeOK
      <3>3. ASSUME NEW c \in Clis, Send(c) \/ Receipt(c) \/ Persist(c) PROVE FALSE
        <4>1. \E o \in {"error", "anchored"} : outcome' = [outcome EXCEPT ![c] = o]
          BY <3>1, <3>3 DEF Send, Receipt, Persist
        <4>2. QED
          BY <1>0, <1>1, <1>3, <4>1 DEF TypeOK, Processes
      <3>4. ASSUME NEW v \in Verifiers, ReadEvents(v) PROVE FALSE
        <4>1. \E o \in {"error", "broken"} : outcome' = [outcome EXCEPT ![v] = o]
          BY <3>1, <3>4 DEF ReadEvents
        <4>2. QED
          BY <1>0, <1>1, <1>3, <4>1 DEF TypeOK, Processes
      <3>5. ASSUME NEW c \in Clis, Compare(c)
            PROVE  c = p /\ anchors[run[p]] = RootOf(read[p])
        BY <1>0, <1>1, <1>3, <3>5 DEF TypeOK, Processes, Compare
      <3>6. ASSUME NEW v \in Verifiers, ReadGet(v)
            PROVE  v = p /\ Agree(p)
        BY <1>0, <1>1, <1>3, <3>6 DEF TypeOK, Processes, ReadGet
      <3>7. QED
        BY <3>1, <3>2, <3>3, <3>4, <3>5, <3>6 DEF Next, vars, Publish, Damage, Start, IsAnchored, Mine, Drop
    <2>2. /\ pc[p] \in {"compare", "get"} /\ pc'[p] = "done"
          /\ UNCHANGED <<anchors, run, read>>
      BY <1>0, <2>1 DEF TypeOK, Compare, ReadGet, chain, Processes
    <2>3. run[p] \in Runs /\ read[p] # {} /\ anchors[run[p]] = RootOf(read[p])
      BY <1>0, <2>1, <2>2 DEF TypeOK, ReadsLeaves, Agree
    <2>4. \E e \in events : e.run = run[p]
      BY <1>0, <2>1 DEF LearntIsTrue, Compare, ReadGet
    <2>5. anchors[run[p]] # Unset
      BY <1>0, <2>3, <2>4 DEF RegistryIsEvents
    <2>6. QED
      BY <2>2, <2>3, <2>5
  <1>4. QED
    BY <1>2, <1>3

\* A process that saw its root in the registry has read the whole run, if the
\* run was anchored as published: roots tell sets of facts apart.
LEMMA MatchIsWhole == IInv /\ VerdictIsOfRead => DamageIsDetected
  <1> SUFFICES ASSUME IInv, VerdictIsOfRead, NEW p \in Processes,
                      outcome[p] \in {"already", "match"},
                      anchors[run[p]] = RootOf(Leaves(run[p]))
               PROVE  read[p] = Leaves(run[p])
    BY DEF DamageIsDetected
  <1>1. /\ run[p] \in Runs /\ read[p] # {}
        /\ anchors[run[p]] # Unset /\ anchors[run[p]] = RootOf(read[p])
    BY DEF VerdictIsOfRead
  <1>2. read[p] \subseteq Leaves(run[p])
    BY <1>1 DEF IInv, ReadsLeaves
  <1>3. Leaves(run[p]) \in SUBSET Nat /\ IsFiniteSet(Leaves(run[p]))
    BY <1>1, PublishedAssumption, FS_Subset DEF Leaves
  <1>4. read[p] \in SUBSET Nat /\ IsFiniteSet(read[p])
    BY <1>2, <1>3, FS_Subset
  <1>5. Leaves(run[p]) # {}
    BY <1>1 DEF RootOf
  <1>6. Root(read[p]) = Root(Leaves(run[p]))
    BY <1>1, <1>5 DEF RootOf
  <1>7. QED
    BY <1>1, <1>3, <1>4, <1>5, <1>6, RootTellsSetsApart

\* Once a run as published is anchored, neither the command nor the script
\* reports a match of a database in which any of its leaves was lost or changed.
THEOREM DamageNeverPasses == Spec => []DamageIsDetected
  <1>1. Init => VerdictIsOfRead
    BY DEF Init, VerdictIsOfRead
  <1>2. IInv /\ VerdictIsOfRead /\ [Next]_vars => VerdictIsOfRead'
    BY VerdictIsOfReadStep
  <1>3. QED
    BY <1>1, <1>2, Invariance, MatchIsWhole, PTL DEF Spec
=============================================================================
