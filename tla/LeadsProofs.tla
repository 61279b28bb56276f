----------------------------- MODULE LeadsProofs -----------------------------
(***************************************************************************)
(* Theorems about module Leads, for whatever documents and batches commit, *)
(* whatever the thresholds, and any number of concurrent rule runs and     *)
(* reviewers.  How the rule adds and compares amounts is never expanded.   *)
(***************************************************************************)
EXTENDS Leads, FiniteSetTheorems, WellFoundedInduction, TLAPS

Found(r) == Matches(FactsOf(ranAt[r]), AsgOf(ranAt[r]))

\* A lead's id is its evidence, which never held a fact together with its
\* correction; its wording can be shown.
Sound(l) ==
    /\ l.id = Evidence(l)
    /\ l.payee \notin Unsayable
    /\ \A f, g \in FactPool : f.id \in l.facts /\ g.id \in l.facts => g.supersedes # f.id

LeadsAreSound ==
    /\ \A l \in leads : Sound(l)
    /\ \A r \in Runs : run[r] = "insert" => drafts[r] = Found(r) /\ \A l \in drafts[r] : Sound(l)

\* A call about to write is about a lead that exists.
CallsHaveLeads ==
    \A c \in Calls : pc[c] \in {"begin", "commit", "done"} => \E l \in leads : l.id = asked[c].lead

\* A call's created_at is later than that of every call that had returned when it
\* began.
StampsFollowRealTime ==
    \A c \in Calls :
        /\ pc[c] = "commit" => stamp[c] <= clock
        /\ pc[c] = "done" => stamp[c] < clock
        /\ \A b \in before[c] :
              pc[b] = "done" /\ (pc[c] \in {"commit", "done"} => stamp[b] < stamp[c])

IInv ==
    /\ TypeOK
    /\ LeadsAreSound
    /\ EvidenceHasOneLead
    /\ CallsHaveLeads
    /\ StampsFollowRealTime

-----------------------------------------------------------------------------
(***************************************************************************)
(* What the rule finds.                                                    *)
(***************************************************************************)
\* The facts of a lead's evidence are current among the facts the rule looked at.
LEMMA LeadFacts ==
  ASSUME NEW F, NEW A, NEW g, NEW p
  PROVE  /\ Lead(F, A, g, p).id = <<g, p, Lead(F, A, g, p).facts>>
         /\ Lead(F, A, g, p).group = g /\ Lead(F, A, g, p).payee = p
         /\ \A i \in Lead(F, A, g, p).facts : \E f \in Current(F) : f.id = i
  <1>1. Group(F, A, g) \subseteq Current(F)
    BY DEF Group, Joined, RuleFacts, InScope
  <1>2. Lead(F, A, g, p).facts = {f.id : f \in {h \in Group(F, A, g) : h.payee = p}}
    BY DEF Lead
  <1>3. /\ Lead(F, A, g, p).id = <<g, p, Lead(F, A, g, p).facts>>
        /\ Lead(F, A, g, p).group = g /\ Lead(F, A, g, p).payee = p
    BY DEF Lead, LeadId
  <1>4. \A i \in Lead(F, A, g, p).facts : \E f \in Current(F) : f.id = i
    <2>1. SUFFICES ASSUME NEW i \in {f.id : f \in {h \in Group(F, A, g) : h.payee = p}}
                   PROVE  \E f \in Current(F) : f.id = i
      BY <1>2
    <2>2. PICK f \in Group(F, A, g) : f.id = i
      OBVIOUS
    <2>3. QED
      BY <1>1, <2>2
  <1>5. QED
    BY <1>3, <1>4

\* What is found is the lead of some group and payee.
LEMMA MatchesAreLeads ==
  ASSUME NEW F, NEW A, NEW m \in Matches(F, A)
  PROVE  \E g, p : m = Lead(F, A, g, p)
  BY DEF Matches

\* No two leads of one query have the same id.
LEMMA MatchesDiffer ==
  ASSUME NEW F, NEW A, NEW l \in Matches(F, A), NEW m \in Matches(F, A), l.id = m.id
  PROVE  l = m
  <1>1. PICK g, p : l = Lead(F, A, g, p)
    BY MatchesAreLeads
  <1>2. PICK h, q : m = Lead(F, A, h, q)
    BY MatchesAreLeads
  <1>3. l.id = <<g, p, l.facts>> /\ m.id = <<h, q, m.facts>>
    BY <1>1, <1>2, LeadFacts
  <1>4. g = h /\ p = q
    <2>1. l.id[1] = g /\ l.id[2] = p
      BY <1>3
    <2>2. l.id = <<h, q, m.facts>>
      BY <1>3
    <2>3. l.id[1] = h /\ l.id[2] = q
      BY <2>2
    <2>4. QED
      BY <2>1, <2>3
  <1>5. QED
    BY <1>1, <1>2, <1>4

\* What is found, if it can be shown at all, is sound.
LEMMA MatchesAreSound ==
  ASSUME NEW F \in SUBSET FactPool, NEW A, NEW m \in Matches(F, A), m.payee \notin Unsayable
  PROVE  Sound(m)
  <1>1. PICK g, p : m = Lead(F, A, g, p)
    BY MatchesAreLeads
  <1>2. /\ m.id = <<g, p, m.facts>> /\ m.group = g /\ m.payee = p
        /\ \A i \in m.facts : \E f \in Current(F) : f.id = i
    BY <1>1, LeadFacts
  <1>3. ASSUME NEW f \in FactPool, NEW h \in FactPool, f.id \in m.facts, h.id \in m.facts
        PROVE  h.supersedes # f.id
    <2>1. PICK x \in Current(F) : x.id = f.id
      BY <1>2, <1>3
    <2>2. PICK y \in Current(F) : y.id = h.id
      BY <1>2, <1>3
    <2>3. x = f /\ y = h
      BY <2>1, <2>2, TransactionsAssumption DEF Current
    <2>4. QED
      BY <2>1, <2>2, <2>3 DEF Current
  <1>4. QED
    BY <1>2, <1>3 DEF Sound, Evidence

\* Committed facts are facts of the transactions.
LEMMA FactsTyped ==
  ASSUME NEW S \in SUBSET Transactions
  PROVE  FactsOf(S) \subseteq FactPool
  BY DEF FactsOf, FactPool

-----------------------------------------------------------------------------
(***************************************************************************)
(* The initial state, and each action.                                     *)
(***************************************************************************)
LEMMA InvInit == Init => IInv
  <1> SUFFICES ASSUME Init PROVE IInv
    OBVIOUS
  <1>1. TypeOK
    BY DEF Init, TypeOK
  <1>2. LeadsAreSound /\ EvidenceHasOneLead
    BY DEF Init, LeadsAreSound, EvidenceHasOneLead
  <1>3. CallsHaveLeads /\ StampsFollowRealTime
    BY DEF Init, CallsHaveLeads, StampsFollowRealTime
  <1>4. QED
    BY <1>1, <1>2, <1>3 DEF IInv

\* A commit leaves leads, runs and calls as they are.
LEMMA CommitStep == ASSUME IInv, NEW x \in Transactions, Commit(x) PROVE IInv'
  <1>1. /\ committed' = committed \cup {x}
        /\ UNCHANGED <<leads, events, clock, run, drafts, ranAt, pc, asked, stamp, before>>
    BY DEF Commit, StoreCommit, runner, review
  <1>2. TypeOK'
    BY <1>1 DEF IInv, TypeOK, Returned
  <1>3. LeadsAreSound' /\ EvidenceHasOneLead'
    BY <1>1 DEF IInv, LeadsAreSound, EvidenceHasOneLead, Found
  <1>4. CallsHaveLeads' /\ StampsFollowRealTime'
    BY <1>1 DEF IInv, CallsHaveLeads, StampsFollowRealTime
  <1>5. QED
    BY <1>2, <1>3, <1>4 DEF IInv

\* The rule's query: what a run is about to insert is sound, and what it found is
\* all it has to have leads for.
LEMMA QueryStep == ASSUME IInv, NEW r \in Runs, RuleQuery(r) PROVE IInv'
  <1> DEFINE found == Matches(Facts, Asg)
  <1>0. /\ run \in [Runs -> {"query", "insert", "done", "failed"}] /\ DOMAIN drafts = Runs
        /\ ranAt \in [Runs -> SUBSET Transactions] /\ committed \in SUBSET Transactions
    BY DEF IInv, TypeOK
  <1>1. run[r] = "query" /\ UNCHANGED <<committed, leads, events, clock, pc, asked, stamp, before>>
    BY DEF RuleQuery, review
  <1>2. CallsHaveLeads' /\ StampsFollowRealTime'
    BY <1>1 DEF IInv, CallsHaveLeads, StampsFollowRealTime
  <1>3. CASE \E l \in found : l.payee \in Unsayable
    <2>1. run' = [run EXCEPT ![r] = "failed"] /\ UNCHANGED <<drafts, ranAt>>
      BY <1>3 DEF RuleQuery
    <2>2. TypeOK'
      BY <1>0, <1>1, <2>1 DEF IInv, TypeOK, Returned
    <2>3. LeadsAreSound' /\ EvidenceHasOneLead'
      BY <1>0, <1>1, <2>1 DEF IInv, LeadsAreSound, EvidenceHasOneLead, Found
    <2>4. QED
      BY <1>2, <2>2, <2>3 DEF IInv
  <1>4. CASE ~ \E l \in found : l.payee \in Unsayable
    <2>1. /\ drafts' = [drafts EXCEPT ![r] = found]
          /\ ranAt' = [ranAt EXCEPT ![r] = committed]
          /\ run' = [run EXCEPT ![r] = IF found = {} THEN "done" ELSE "insert"]
      BY <1>4 DEF RuleQuery
    <2>2. /\ drafts'[r] = found /\ ranAt'[r] = committed
          /\ run'[r] \in {"done", "insert"} /\ (run'[r] = "done" => found = {})
          /\ \A q \in Runs \ {r} : run'[q] = run[q] /\ drafts'[q] = drafts[q] /\ ranAt'[q] = ranAt[q]
      BY <1>0, <2>1
    <2>3. Found(r)' = found /\ \A q \in Runs \ {r} : Found(q)' = Found(q)
      BY <2>2 DEF Found, Facts, Asg
    <2>4. TypeOK'
      BY <1>0, <1>1, <2>1 DEF IInv, TypeOK, Returned
    <2>5. \A l \in found : Sound(l)
      BY <1>0, <1>4, MatchesAreSound, FactsTyped DEF Facts
    <2> HIDE DEF found
    <2>6. LeadsAreSound'
      BY <1>1, <2>2, <2>3, <2>5 DEF IInv, LeadsAreSound, Sound, Evidence
    <2>7. EvidenceHasOneLead'
      <3>1. \A q \in Runs : run'[q] = "done" =>
               \A m \in Found(q)' : \E l \in leads : Evidence(l) = Evidence(m)
        BY <2>2, <2>3 DEF IInv, EvidenceHasOneLead, Found
      <3>2. QED
        BY <1>1, <3>1 DEF IInv, EvidenceHasOneLead, Found
    <2>8. QED
      BY <1>2, <2>4, <2>6, <2>7 DEF IInv
  <1>5. QED
    BY <1>3, <1>4

\* The drafts are inserted: those whose id is known have their lead already.
LEMMA InsertStep == ASSUME IInv, NEW r \in Runs, InsertDrafts(r) PROVE IInv'
  <1> DEFINE fresh == {d \in drafts[r] : \A l \in leads : l.id # d.id}
  <1>0. run \in [Runs -> {"query", "insert", "done", "failed"}]
    BY DEF IInv, TypeOK
  <1>1. /\ run[r] = "insert" /\ leads' = leads \cup fresh /\ run' = [run EXCEPT ![r] = "done"]
        /\ UNCHANGED <<committed, events, clock, drafts, ranAt, pc, asked, stamp, before>>
    BY DEF InsertDrafts, review
  <1>2. drafts[r] = Found(r) /\ (\A d \in drafts[r] : Sound(d)) /\ (\A l \in leads : Sound(l))
    BY <1>1 DEF IInv, LeadsAreSound
  <1>3. run'[r] = "done" /\ \A q \in Runs \ {r} : run'[q] = run[q]
    BY <1>0, <1>1
  <1>4. \A l, m \in leads' : l.id = m.id => l = m
    <2>1. \A l, m \in fresh : l.id = m.id => l = m
      BY <1>2, MatchesDiffer DEF Found
    <2>2. QED
      BY <1>1, <2>1 DEF IInv, TypeOK
  <1>5. \A l \in leads' : Sound(l)
    BY <1>1, <1>2
  <1>6. TypeOK'
    BY <1>0, <1>1, <1>4 DEF IInv, TypeOK, Returned
  <1>7. LeadsAreSound'
    BY <1>1, <1>3, <1>5 DEF IInv, LeadsAreSound, Sound, Evidence, Found
  <1>8. EvidenceHasOneLead'
    <2>1. ASSUME NEW q \in Runs, run'[q] = "done", NEW m \in Found(q)
          PROVE  \E l \in leads' : Evidence(l) = Evidence(m)
      <3>1. CASE q = r
        <4>1. m \in fresh \/ \E l \in leads : l.id = m.id
          BY <1>2, <2>1, <3>1
        <4>2. QED
          BY <1>1, <1>2, <2>1, <3>1, <4>1 DEF Sound
      <3>2. CASE q # r
        BY <1>1, <1>3, <2>1, <3>2 DEF IInv, EvidenceHasOneLead, Found
      <3>3. QED
        BY <3>1, <3>2
    <2>2. \A l, m \in leads' : Evidence(l) = Evidence(m) => l = m
      BY <1>4, <1>5 DEF Sound
    <2>3. \A q \in Runs : Found(q)' = Found(q)
      BY <1>1 DEF Found
    <2>4. QED
      BY <2>1, <2>2, <2>3 DEF EvidenceHasOneLead, Found
  <1>9. CallsHaveLeads' /\ StampsFollowRealTime'
    BY <1>1 DEF IInv, CallsHaveLeads, StampsFollowRealTime
  <1>10. QED
    BY <1>6, <1>7, <1>8, <1>9 DEF IInv

\* A run that fails is left alone from then on.
LEMMA RunFailsStep == ASSUME IInv, NEW r \in Runs, RunFails(r) PROVE IInv'
  <1>0. /\ run \in [Runs -> {"query", "insert", "done", "failed"}] /\ DOMAIN drafts = Runs
        /\ ranAt \in [Runs -> SUBSET Transactions]
    BY DEF IInv, TypeOK
  <1>1. /\ run' = [run EXCEPT ![r] = "failed"] /\ drafts' = [drafts EXCEPT ![r] = {}]
        /\ ranAt' = [ranAt EXCEPT ![r] = {}]
        /\ UNCHANGED <<committed, leads, events, clock, pc, asked, stamp, before>>
    BY DEF RunFails, review
  <1>2. /\ run'[r] = "failed"
        /\ \A q \in Runs \ {r} : run'[q] = run[q] /\ drafts'[q] = drafts[q] /\ ranAt'[q] = ranAt[q]
    BY <1>0, <1>1
  <1>3. TypeOK'
    BY <1>0, <1>1 DEF IInv, TypeOK, Returned
  <1>4. LeadsAreSound' /\ EvidenceHasOneLead'
    BY <1>1, <1>2 DEF IInv, LeadsAreSound, EvidenceHasOneLead, Found
  <1>5. CallsHaveLeads' /\ StampsFollowRealTime'
    BY <1>1 DEF IInv, CallsHaveLeads, StampsFollowRealTime
  <1>6. QED
    BY <1>3, <1>4, <1>5 DEF IInv

\* What a step of a review leaves alone: the leads, the runs and what they found.
LEMMA LeadsStay ==
  ASSUME IInv, UNCHANGED <<leads, run, drafts, ranAt>>
  PROVE  LeadsAreSound' /\ EvidenceHasOneLead'
  BY DEF IInv, LeadsAreSound, EvidenceHasOneLead, Found

CallStage == {"inspect", "begin", "commit", "done", "failed"}

\* The lead is inspected: it exists, and whoever has returned wrote before now.
LEMMA InspectStep == ASSUME IInv, NEW c \in Calls, Inspect(c) PROVE IInv'
  <1>1. PICK l \in leads, s \in Statuses, w \in {"begin", "failed"} :
           /\ asked' = [asked EXCEPT ![c] = [lead |-> l.id, status |-> s]]
           /\ pc' = [pc EXCEPT ![c] = w]
    BY DEF Inspect
  <1>2. /\ pc[c] = "inspect" /\ before' = [before EXCEPT ![c] = Returned]
        /\ UNCHANGED <<committed, leads, events, clock, run, drafts, ranAt, stamp>>
    BY DEF Inspect, runner
  <1>3. /\ pc \in [Calls -> CallStage] /\ DOMAIN asked = Calls /\ before \in [Calls -> SUBSET Calls]
        /\ stamp \in [Calls -> Nat] /\ clock \in Nat
    BY DEF IInv, TypeOK, CallStage
  <1>4. /\ pc'[c] \in {"begin", "failed"} /\ asked'[c].lead = l.id /\ before'[c] = Returned
        /\ \A b \in Calls \ {c} : pc'[b] = pc[b] /\ asked'[b] = asked[b] /\ before'[b] = before[b]
    BY <1>1, <1>2, <1>3
  <1>5. Returned' = Returned /\ c \notin Returned
    BY <1>2, <1>4 DEF Returned
  <1>6. TypeOK'
    <2>1. pc' \in [Calls -> CallStage] /\ DOMAIN asked' = Calls /\ before' \in [Calls -> SUBSET Calls]
      BY <1>1, <1>2, <1>3 DEF CallStage, Returned
    <2>2. \A e \in events :
             /\ e.call \in Returned' /\ e.lead = asked'[e.call].lead /\ e.status = asked'[e.call].status
             /\ e.at = stamp[e.call] /\ e.tie \in 1..Cardinality(Calls)
             /\ \E k \in leads : k.id = e.lead
      <3>1. \A e \in events : e.call \in Calls \ {c}
        BY <1>5 DEF IInv, TypeOK, Returned
      <3>2. QED
        BY <1>4, <1>5, <3>1 DEF IInv, TypeOK
    <2>3. QED
      BY <1>2, <2>1, <2>2 DEF IInv, TypeOK, CallStage
  <1>7. CallsHaveLeads'
    BY <1>2, <1>4 DEF IInv, CallsHaveLeads
  <1>8. StampsFollowRealTime'
    <2>1. ASSUME NEW b \in Calls
          PROVE  /\ pc'[b] = "commit" => stamp[b] <= clock
                 /\ pc'[b] = "done" => stamp[b] < clock
                 /\ \A d \in before'[b] :
                       pc'[d] = "done" /\ (pc'[b] \in {"commit", "done"} => stamp[d] < stamp[b])
      <3>1. CASE b = c
        BY <1>4, <1>5, <3>1 DEF Returned
      <3>2. CASE b # c
        <4>1. \A d \in before[b] : d \in Calls \ {c}
          BY <1>2, <1>3 DEF IInv, StampsFollowRealTime
        <4>2. QED
          BY <1>4, <3>2, <4>1 DEF IInv, StampsFollowRealTime
      <3>3. QED
        BY <3>1, <3>2
    <2>2. QED
      BY <1>2, <2>1 DEF StampsFollowRealTime
  <1>9. QED
    BY <1>2, <1>6, <1>7, <1>8, LeadsStay DEF IInv

\* A call that is not done moves on, without a word on any lead.
LEMMA MoveStep ==
  ASSUME IInv, NEW c \in Calls, NEW w \in {"commit", "failed"}, pc' = [pc EXCEPT ![c] = w],
         pc[c] \in {"inspect", "begin", "commit"}, w = "commit" => pc[c] = "begin" /\ stamp' = [stamp EXCEPT ![c] = clock],
         w = "failed" => stamp' = stamp,
         UNCHANGED <<committed, leads, events, clock, run, drafts, ranAt, asked, before>>
  PROVE  IInv'
  <1>1. /\ pc \in [Calls -> CallStage] /\ before \in [Calls -> SUBSET Calls]
        /\ stamp \in [Calls -> Nat] /\ clock \in Nat
    BY DEF IInv, TypeOK, CallStage
  <1>2. /\ pc'[c] = w /\ (w = "commit" => stamp'[c] = clock)
        /\ \A b \in Calls \ {c} : pc'[b] = pc[b] /\ stamp'[b] = stamp[b]
    BY <1>1
  <1>3. Returned' = Returned /\ c \notin Returned
    BY <1>2 DEF Returned
  <1>4. TypeOK'
    <2>1. pc' \in [Calls -> CallStage] /\ stamp' \in [Calls -> Nat]
      BY <1>1 DEF CallStage
    <2>2. \A e \in events : e.call \in Returned' /\ e.at = stamp'[e.call]
      <3>1. \A e \in events : e.call \in Calls \ {c}
        BY <1>3 DEF IInv, TypeOK, Returned
      <3>2. QED
        BY <1>2, <1>3, <3>1 DEF IInv, TypeOK
    <2>3. QED
      BY <2>1, <2>2 DEF IInv, TypeOK, CallStage
  <1>5. CallsHaveLeads'
    BY <1>2 DEF IInv, CallsHaveLeads
  <1>6. StampsFollowRealTime'
    <2>1. \A b \in Calls : \A d \in before[b] : d \in Calls \ {c} /\ pc[d] = "done" /\ stamp[d] < clock
      BY <1>1 DEF IInv, StampsFollowRealTime
    <2>2. ASSUME NEW b \in Calls
          PROVE  /\ pc'[b] = "commit" => stamp'[b] <= clock
                 /\ pc'[b] = "done" => stamp'[b] < clock
                 /\ \A d \in before[b] :
                       pc'[d] = "done" /\ (pc'[b] \in {"commit", "done"} => stamp'[d] < stamp'[b])
      <3>1. CASE b = c
        BY <1>1, <1>2, <2>1, <3>1
      <3>2. CASE b # c
        BY <1>2, <2>1, <3>2 DEF IInv, StampsFollowRealTime
      <3>3. QED
        BY <3>1, <3>2
    <2>3. QED
      BY <2>2 DEF StampsFollowRealTime
  <1>7. QED
    BY <1>4, <1>5, <1>6, LeadsStay DEF IInv

\* The word is recorded; whoever begins from now on is stamped later.
LEMMA AppendStep == ASSUME IInv, NEW c \in Calls, AppendEvent(c) PROVE IInv'
  <1>1. PICK i \in 1..Cardinality(Calls) :
           events' = events \cup {[call |-> c, lead |-> asked[c].lead, status |-> asked[c].status,
                                   at |-> stamp[c], tie |-> i]}
    BY DEF AppendEvent
  <1>2. /\ pc[c] = "commit" /\ clock' = clock + 1 /\ pc' = [pc EXCEPT ![c] = "done"]
        /\ UNCHANGED <<committed, leads, run, drafts, ranAt, asked, stamp, before>>
    BY DEF AppendEvent, runner
  <1>3. /\ pc \in [Calls -> CallStage] /\ before \in [Calls -> SUBSET Calls]
        /\ stamp \in [Calls -> Nat] /\ clock \in Nat
    BY DEF IInv, TypeOK, CallStage
  <1>4. pc'[c] = "done" /\ \A b \in Calls \ {c} : pc'[b] = pc[b]
    BY <1>2, <1>3
  <1>5. Returned' = Returned \cup {c}
    BY <1>4 DEF Returned
  <1>6. TypeOK'
    <2>1. pc' \in [Calls -> CallStage] /\ clock' \in Nat
      BY <1>2, <1>3 DEF CallStage
    <2>2. \E k \in leads : k.id = asked[c].lead
      BY <1>2 DEF IInv, CallsHaveLeads
    <2>3. \A e \in events' :
             /\ e.call \in Returned' /\ e.lead = asked[e.call].lead /\ e.status = asked[e.call].status
             /\ e.at = stamp[e.call] /\ e.tie \in 1..Cardinality(Calls)
             /\ \E k \in leads : k.id = e.lead
      BY <1>1, <1>5, <2>2 DEF IInv, TypeOK
    <2>4. QED
      BY <1>2, <2>1, <2>3 DEF IInv, TypeOK, CallStage
  <1>7. CallsHaveLeads'
    BY <1>2, <1>4 DEF IInv, CallsHaveLeads
  <1>8. StampsFollowRealTime'
    <2>1. ASSUME NEW b \in Calls
          PROVE  /\ pc'[b] = "commit" => stamp[b] <= clock'
                 /\ pc'[b] = "done" => stamp[b] < clock'
                 /\ \A d \in before[b] :
                       pc'[d] = "done" /\ (pc'[b] \in {"commit", "done"} => stamp[d] < stamp[b])
      <3>1. \A d \in before[b] : pc'[d] = "done"
        BY <1>2, <1>3, <1>4 DEF IInv, StampsFollowRealTime
      <3>2. pc'[b] \in {"commit", "done"} => pc[b] \in {"commit", "done"}
        BY <1>2, <1>4
      <3>3. stamp[b] \in Nat /\ (pc[b] \in {"commit", "done"} => stamp[b] <= clock)
        BY <1>3 DEF IInv, StampsFollowRealTime
      <3>4. QED
        BY <1>2, <1>3, <3>1, <3>2, <3>3 DEF IInv, StampsFollowRealTime
    <2>2. QED
      BY <1>2, <2>1 DEF StampsFollowRealTime
  <1>9. QED
    BY <1>2, <1>6, <1>7, <1>8, LeadsStay DEF IInv

\* No commit, run or review breaks the invariant.
LEMMA InvStep == IInv /\ [Next]_vars => IInv'
  <1> SUFFICES ASSUME IInv, [Next]_vars PROVE IInv'
    OBVIOUS
  <1>1. ASSUME NEW c \in Calls, BeginInsert(c) PROVE IInv'
    <2>1. /\ pc[c] = "begin" /\ pc' = [pc EXCEPT ![c] = "commit"] /\ stamp' = [stamp EXCEPT ![c] = clock]
          /\ UNCHANGED <<committed, leads, events, clock, run, drafts, ranAt, asked, before>>
      BY <1>1 DEF BeginInsert, runner
    <2>2. QED
      BY <2>1, MoveStep
  <1>2. ASSUME NEW c \in Calls, CallFails(c) PROVE IInv'
    <2>1. /\ pc[c] \in {"inspect", "begin", "commit"} /\ pc' = [pc EXCEPT ![c] = "failed"] /\ stamp' = stamp
          /\ UNCHANGED <<committed, leads, events, clock, run, drafts, ranAt, asked, before>>
      BY <1>2 DEF CallFails, runner
    <2>2. QED
      BY <2>1, MoveStep
  <1>3. CASE UNCHANGED vars
    <2>1. UNCHANGED <<committed, leads, events, clock, run, drafts, ranAt, pc, asked, stamp, before>>
      BY <1>3 DEF vars, runner, review
    <2>2. TypeOK'
      BY <2>1 DEF IInv, TypeOK, Returned
    <2>3. CallsHaveLeads' /\ StampsFollowRealTime'
      BY <2>1 DEF IInv, CallsHaveLeads, StampsFollowRealTime
    <2>4. QED
      BY <2>1, <2>2, <2>3, LeadsStay DEF IInv
  <1>4. QED
    BY <1>1, <1>2, <1>3, CommitStep, QueryStep, InsertStep, RunFailsStep, InspectStep, AppendStep DEF Next

-----------------------------------------------------------------------------
(***************************************************************************)
(* The newest event.                                                       *)
(***************************************************************************)
Less == {p \in Nat \X Nat : p[1] < p[2]}

\* A bounded set of numbers has a greatest one.
LEMMA Greatest ==
  ASSUME NEW T \in SUBSET Nat, T # {}, NEW n \in Nat, \A x \in T : x <= n
  PROVE  \E x \in T : \A y \in T : y <= x
  <1>1. IsWellFoundedOn(Less, Nat)
    BY NatLessThanWellFounded, Zenon DEF OpToRel, Less
  <1> DEFINE D == {n - x : x \in T}
  <1>2. D \subseteq Nat /\ D # {}
    <2>1. \A x \in T : n - x \in Nat
      OBVIOUS
    <2>2. QED
      BY <2>1
  <1> HIDE DEF D
  <1>3. PICK d \in D : \A e \in D : ~ (<<e, d>> \in Less)
    BY <1>1, <1>2, WFMin
  <1>4. PICK x \in T : d = n - x
    BY DEF D
  <1>5. ASSUME NEW y \in T PROVE y <= x
    <2>1. n - y \in D /\ n - y \in Nat /\ d \in Nat
      BY <1>2 DEF D
    <2>2. ~ (n - y < d)
      BY <1>3, <2>1 DEF Less
    <2>3. QED
      BY <1>4, <2>2
  <1>6. QED
    BY <1>5

\* A lead with events has a newest one.
LEMMA NewestExists ==
  ASSUME IInv, NEW l, EventsOf(l) # {}
  PROVE  /\ LastEvent(EventsOf(l)) \in EventsOf(l)
         /\ \A d \in EventsOf(l) : d.at <= LastEvent(EventsOf(l)).at
  <1> DEFINE E == EventsOf(l)
             T == {e.at : e \in E}
  <1>1. Cardinality(Calls) \in Nat
    BY CallsAssumption, FS_CardinalityType
  <1>2. clock \in Nat /\ \A e \in E : e.at \in Nat /\ e.at <= clock /\ e.tie \in 1..Cardinality(Calls)
    BY DEF IInv, TypeOK, Returned, EventsOf, StampsFollowRealTime
  <1> HIDE DEF E
  <1>3. PICK m \in T : \A y \in T : y <= m
    <2>1. T \in SUBSET Nat /\ T # {} /\ \A x \in T : x <= clock
      BY <1>2 DEF E
    <2> HIDE DEF T
    <2>2. QED
      BY <1>2, <2>1, Greatest
  <1> DEFINE U == {e.tie : e \in {d \in E : d.at = m}}
  <1>4. PICK u \in U : \A y \in U : y <= u
    <2>1. U \in SUBSET Nat /\ U # {} /\ \A x \in U : x <= Cardinality(Calls)
      BY <1>1, <1>2
    <2> HIDE DEF U
    <2>2. QED
      BY <1>1, <2>1, Greatest
  <1>5. PICK e \in E : e.at = m /\ e.tie = u
    BY <1>4
  <1>6. \A d \in E : d.at < e.at \/ (d.at = e.at /\ d.tie <= e.tie)
    <2> SUFFICES ASSUME NEW d \in E, ~ (d.at < e.at) PROVE d.at = e.at /\ d.tie <= e.tie
      OBVIOUS
    <2>1. d.at <= m /\ d.at \in Nat /\ m \in Nat
      BY <1>2, <1>3, <1>5
    <2>2. d.at = m
      BY <1>5, <2>1
    <2>3. d.tie \in U
      BY <2>2
    <2>4. QED
      BY <1>4, <1>5, <2>2, <2>3
  <1>7. LastEvent(E) \in E /\ \A d \in E : d.at < LastEvent(E).at \/ (d.at = LastEvent(E).at /\ d.tie <= LastEvent(E).tie)
    BY <1>6 DEF LastEvent
  <1>8. \A d \in E : d.at <= LastEvent(E).at
    BY <1>2, <1>7
  <1>9. QED
    BY <1>7, <1>8 DEF E

-----------------------------------------------------------------------------
(***************************************************************************)
(* The theorems.                                                           *)
(***************************************************************************)
\* The inductive invariant of the leads workbench.
THEOREM Invariance == Spec => []IInv
  BY InvInit, InvStep, PTL DEF Spec

\* Lead ids are unique, and every event is the word of a call that returned, on a
\* lead that exists.
THEOREM TypeCorrect == Spec => []TypeOK
  <1>1. IInv => TypeOK
    BY DEF IInv
  <1>2. QED
    BY <1>1, Invariance, PTL

\* However many runs overlap, over however changed a store, each body of evidence
\* found by a run that ended has exactly one lead.
THEOREM OneLeadPerEvidence == Spec => []EvidenceHasOneLead
  <1>1. IInv => EvidenceHasOneLead
    BY DEF IInv
  <1>2. QED
    BY <1>1, Invariance, PTL

\* No lead counts a fact and its correction, or names an unsayable vendor.
THEOREM EvidenceStaysConsistent == Spec => []EvidenceIsConsistent
  <1>1. IInv => EvidenceIsConsistent
    <2> SUFFICES ASSUME IInv PROVE EvidenceIsConsistent
      OBVIOUS
    <2>1. Facts \subseteq FactPool
      BY FactsTyped DEF IInv, TypeOK, Facts
    <2>2. QED
      BY <2>1 DEF IInv, LeadsAreSound, Sound, EvidenceIsConsistent
  <1>2. QED
    BY <1>1, Invariance, PTL

\* The status shown is the word of a reviewer no other followed.
THEOREM StatusIsTheLastWord == Spec => []LastWordStands
  <1>1. ASSUME IInv, NEW l \in leads, EventsOf(l) # {}
        PROVE  \E e \in EventsOf(l) :
                  Status(l) = e.status /\ \A d \in EventsOf(l) : e.call \notin before[d.call]
    <2> DEFINE e == LastEvent(EventsOf(l))
    <2>1. e \in EventsOf(l) /\ \A d \in EventsOf(l) : d.at <= e.at
      BY <1>1, NewestExists
    <2>2. Status(l) = e.status
      BY <1>1 DEF Status
    <2> HIDE DEF e
    <2>3. ASSUME NEW d \in EventsOf(l), e.call \in before[d.call] PROVE FALSE
      <3>1. /\ d.call \in Calls /\ pc[d.call] = "done" /\ d.at = stamp[d.call] /\ e.at = stamp[e.call]
            /\ e.call \in Calls
        BY <1>1, <2>1 DEF IInv, TypeOK, EventsOf, Returned
      <3>2. stamp[e.call] < stamp[d.call]
        BY <1>1, <2>3, <3>1 DEF IInv, StampsFollowRealTime
      <3>3. stamp[e.call] \in Nat /\ stamp[d.call] \in Nat /\ d.at <= e.at
        BY <1>1, <2>1, <3>1 DEF IInv, TypeOK
      <3>4. QED
        BY <3>1, <3>2, <3>3
    <2>4. QED
      BY <2>1, <2>2, <2>3
  <1>2. ASSUME NEW l \in leads PROVE l \in Public <=> Status(l) = "published"
    BY DEF Public, Status
  <1>3. IInv => LastWordStands
    BY <1>1, <1>2 DEF LastWordStands
  <1>4. QED
    BY <1>3, Invariance, PTL
=============================================================================
