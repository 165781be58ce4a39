-------------------------- MODULE AgentGraphProofs --------------------------
(***************************************************************************)
(* Proofs about AgentGraph, for every set of requests, whatever each asks  *)
(* for, and any number of deletions and restarts.                          *)
(***************************************************************************)
EXTENDS AgentGraph, TLAPS, FiniteSetTheorems

LEMMA Names == /\ None \notin Runs /\ None \notin Tables /\ None \notin Ids
               /\ None \notin ChatIds /\ None \notin Summary
               /\ Runs \cap Tables = {} /\ Ids \cap ChatIds = {}
BY NameAssumption, RunAssumption

\* A run is of one kind, and one that is not a chat brings an id.
LEMMA GivenIds == TypeOK => \A r \in Runs : /\ Kind[r] \in Kinds
                                            /\ Kind[r] # "chat" => GivenId[r] \in Ids
<1> SUFFICES ASSUME TypeOK, NEW r \in Runs
             PROVE  /\ Kind[r] \in Kinds
                    /\ Kind[r] # "chat" => GivenId[r] \in Ids
  OBVIOUS
<1>1. Kind \in Deployments
  BY DEF TypeOK
<1>2. Kind \in [Runs -> Kinds]
  BY <1>1, RunAssumption
<1>3. Kind[r] # "chat" => r \in DOMAIN GivenId
  BY <1>1, RunAssumption
<1> QED BY <1>2, <1>3, RunAssumption

LEMMA InitInv == Init => /\ GraphInv /\ StaysForgotten /\ OwnSummary
                         /\ DuplicateMeansOver
<1> SUFFICES ASSUME Init
             PROVE  GraphInv /\ StaysForgotten /\ OwnSummary /\ DuplicateMeansOver
  OBVIOUS
<1> USE Names DEF Init
<1>1. TypeOK
  BY BoundAssumption DEF TypeOK, InFlight
<1>2. \A m \in DOMAIN summaries : Written(m) = {}
  BY DEF Written
<1>3. MemoryInv
  BY <1>2 DEF MemoryInv
<1>4. ClaimInv
  BY DEF ClaimInv, Claimed, Chatting, InFlight
<1>5. SummaryInv
  BY DEF SummaryInv
<1>6. StaysForgotten /\ OwnSummary /\ DuplicateMeansOver
  BY <1>2 DEF StaysForgotten, OwnSummary, DuplicateMeansOver
<1> QED BY <1>1, <1>3, <1>4, <1>5, <1>6 DEF GraphInv

-----------------------------------------------------------------------------
LEMMA TypeStep == TypeOK /\ [Next]_vars => TypeOK'
<1> SUFFICES ASSUME TypeOK, [Next]_vars PROVE TypeOK'
  OBVIOUS
<1> USE Names, BoundAssumption DEF TypeOK, InFlight, Ended, counters, store, Kinds
<1>1. ASSUME NEW r \in Runs, Claim(r) PROVE TypeOK'
  BY <1>1, GivenIds DEF Claim, Begin, Goto, FromPlatform, LoopFree
<1>2. ASSUME NEW r \in Runs, Duplicate(r) PROVE TypeOK'
  BY <1>2, GivenIds DEF Duplicate, Begin, Goto, FromPlatform, LoopFree
<1>3. ASSUME NEW r \in Runs, Accept(r) PROVE TypeOK'
  BY <1>3, GivenIds DEF Accept, Begin, Goto, LoopFree
<1>4. ASSUME NEW r \in Runs, NEW m \in ChatIds, Chat(r, m) PROVE TypeOK'
  BY <1>4 DEF Chat, Begin, Goto, LoopFree
<1>5. ASSUME NEW r \in Runs, Load(r) PROVE TypeOK'
  BY <1>5 DEF Load, Goto, Told
<1>6. ASSUME NEW r \in Runs, NEW decision, Speak(r, decision) PROVE TypeOK'
  BY <1>6 DEF Speak, Goto, Answers, Tells, Told, Tables
<1>7. ASSUME NEW r \in Runs, NEW how \in Ended, Leave(r, how), pc[r] \in InFlight
      PROVE TypeOK'
  BY <1>7 DEF Leave, Goto
<1>8. ASSUME NEW r \in Runs, Fail(r) \/ Reply(r) PROVE TypeOK'
  BY <1>8, <1>7 DEF Fail, Reply
<1>9. ASSUME NEW r \in Runs, Persist(r) PROVE TypeOK'
  BY <1>9 DEF Persist, Goto, Summary
<1>10. ASSUME NEW table \in Tables, Forget(table) PROVE TypeOK'
  BY <1>10 DEF Forget, Forgetting, Contents, Items
<1>11. CASE ForgetSummaries
  BY <1>11 DEF ForgetSummaries, Forgetting, Written, Items, Summary
<1>12. CASE Crash
  BY <1>12 DEF Crash
<1>13. CASE UNCHANGED vars
  BY <1>13 DEF vars
<1> QED BY <1>1, <1>2, <1>3, <1>4, <1>5, <1>6, <1>8, <1>9, <1>10, <1>11, <1>12,
           <1>13 DEF Next, Arrive, Invoke

-----------------------------------------------------------------------------
\* A run begins: it gets an id, and everything else but the loop and the ids that
\* are taken is as it was.
Begins(r) == /\ pc[r] = "idle"
             /\ \E s \in {"started", "duplicate"} : Goto(r, s)
             /\ id' \in [Runs -> Ids \cup ChatIds \cup {None}]
             /\ id'[r] # None
             /\ \A q \in Runs \ {r} : id'[q] = id[q]
             /\ before' = [before EXCEPT ![r] = forgotten]
             /\ UNCHANGED << Kind, memory, summaries, said, forgotten >>

\* A run goes on without a write to the store.
GoesOn(r) == /\ pc[r] \in InFlight
             /\ \E s \in {"loaded", "spoken", "replied", "failed"} : Goto(r, s)
             /\ pc'[r] = "replied" <=> pc[r] = "persisted"
             /\ said' \in [Runs -> Tables \cup {None}]
             /\ \A q \in Runs \ {r} : said'[q] = said[q]
             /\ said'[r] \in memory \cup {None, said[r]}
             /\ UNCHANGED << Kind, store, id, forgotten, before >>

LEMMA Beginnings ==
    ASSUME TypeOK, NEW r \in Runs, Arrive(r) PROVE Begins(r)
<1> USE Names DEF Begins, Begin
<1>1. id \in [Runs -> Ids \cup ChatIds \cup {None}]
  BY DEF TypeOK
<1>2. CASE Claim(r)
  BY <1>1, <1>2, GivenIds DEF Claim, FromPlatform
<1>3. CASE Duplicate(r)
  BY <1>1, <1>3, GivenIds DEF Duplicate, FromPlatform
<1>4. CASE Accept(r)
  BY <1>1, <1>4, GivenIds DEF Accept
<1>5. ASSUME NEW m \in ChatIds, Chat(r, m) PROVE Begins(r)
  BY <1>1, <1>5 DEF Chat
<1> QED BY <1>2, <1>3, <1>4, <1>5 DEF Arrive

LEMMA Continuations ==
    ASSUME TypeOK, NEW r \in Runs, Invoke(r) \/ Reply(r), ~Persist(r)
    PROVE  GoesOn(r)
<1> USE DEF GoesOn, InFlight, Ended, store
<1>1. /\ said \in [Runs -> Tables \cup {None}]
      /\ pc \in [Runs -> {"idle"} \cup InFlight \cup Ended]
  BY DEF TypeOK
<1> USE DEF Goto
<1>2. CASE Load(r)
  BY <1>1, <1>2 DEF Load, Told, Tables
<1>3. ASSUME NEW decision, Speak(r, decision) PROVE GoesOn(r)
  BY <1>1, <1>3 DEF Speak, Answers, Tells, Told, Tables
<1>4. CASE Fail(r) \/ Reply(r)
  BY <1>1, <1>4 DEF Fail, Reply, Leave
<1> QED BY <1>2, <1>3, <1>4 DEF Invoke

\* What a step can be.
LEMMA Steps ==
    TypeOK /\ [Next]_vars =>
       \/ \E r \in Runs : Arrive(r) /\ Begins(r)
       \/ \E r \in Runs : (Invoke(r) \/ Reply(r)) /\ GoesOn(r)
       \/ \E r \in Runs : Persist(r)
       \/ \E table \in Tables : Forget(table)
       \/ ForgetSummaries \/ Crash \/ UNCHANGED vars
BY Beginnings, Continuations DEF Next

-----------------------------------------------------------------------------
LEMMA MemoryStep == TypeOK /\ MemoryInv /\ [Next]_vars => MemoryInv'
<1> SUFFICES ASSUME TypeOK, MemoryInv, [Next]_vars PROVE MemoryInv'
  OBVIOUS
<1> USE Names DEF MemoryInv, InFlight, Ended
<1>t. /\ pc \in [Runs -> {"idle"} \cup InFlight \cup Ended]
      /\ summaries \in [Ids \cup ChatIds -> Summary \cup {None}]
      /\ id \in [Runs -> Ids \cup ChatIds \cup {None}]
      /\ said \in [Runs -> Tables \cup {None}]
  BY DEF TypeOK
<1>1. ASSUME NEW r \in Runs, Begins(r) PROVE MemoryInv'
  <2>1. /\ \A q \in Runs \ {r} : pc'[q] = pc[q] /\ id'[q] = id[q]
        /\ pc[r] = "idle" /\ pc'[r] # "idle" /\ id'[r] # None
        /\ UNCHANGED << memory, summaries, said, forgotten >>
    BY <1>1, <1>t DEF Begins, Goto
  <2>2. \A m \in DOMAIN summaries : Written(m)' = Written(m)
    BY <2>1 DEF Written
  <2>3. \A m \in DOMAIN summaries : r \notin Written(m) /\ Written(m) \subseteq Runs
    BY <1>t, <2>1 DEF Written, Summary
  <2> QED BY <2>1, <2>2, <2>3
<1>2. ASSUME NEW r \in Runs, GoesOn(r) PROVE MemoryInv'
  <2>1. /\ \A q \in Runs \ {r} : pc'[q] = pc[q] /\ said'[q] = said[q]
        /\ pc[r] \in InFlight /\ pc'[r] \in {"loaded", "spoken"} \cup Ended
        /\ UNCHANGED << memory, summaries, id, forgotten >>
        /\ pc[r] = "persisted" => pc'[r] \in {"persisted"} \cup Ended
    BY <1>2, <1>t DEF GoesOn, Goto, store
  <2>2. \A m \in DOMAIN summaries : Written(m)' = Written(m)
    BY <2>1 DEF Written
  <2>3. \A m \in DOMAIN summaries : Written(m) \subseteq Runs
    BY <1>t DEF Written, Summary
  <2> QED BY <2>1, <2>2, <2>3
<1>3. ASSUME NEW r \in Runs, Persist(r) PROVE MemoryInv'
  <2>1. \A m \in DOMAIN summaries : m # id[r] => summaries'[m] = summaries[m]
    BY <1>3, <1>t DEF Persist
  <2>2. id[r] \in DOMAIN summaries => Written(id[r])' = {r}
    BY <1>3, <1>t DEF Persist, Written, Summary
  <2>3. /\ UNCHANGED << memory, forgotten, said, id >>
        /\ \A q \in Runs : pc'[q] = IF q = r THEN "persisted" ELSE pc[q]
        /\ DOMAIN summaries' = DOMAIN summaries
    BY <1>3, <1>t DEF Persist, Goto
  <2>4. \A m \in DOMAIN summaries : m # id[r] => Written(m)' = Written(m)
    BY <2>1, <2>3 DEF Written
  <2>5. pc[r] = "spoken"
    BY <1>3 DEF Persist
  <2>6. \A m \in DOMAIN summaries : Written(m) \subseteq Runs
    BY <1>t DEF Written, Summary
  <2> QED BY <2>2, <2>3, <2>4, <2>5, <2>6
<1>4. ASSUME NEW table \in Tables, Forget(table) PROVE MemoryInv'
  BY <1>4 DEF Forget, Forgetting, Contents, Written
<1>5. CASE ForgetSummaries
  <2>1. \A m \in DOMAIN summaries : Written(m) \subseteq Runs
    BY <1>t DEF Written, Summary
  <2>2. memory' \cap forgotten' = {}
    BY <1>5, <2>1 DEF ForgetSummaries, Forgetting, TypeOK
  <2>3. \A m \in DOMAIN summaries' : Written(m)' = {}
    BY <1>5 DEF ForgetSummaries, Written
  <2> QED BY <1>5, <2>2, <2>3 DEF ForgetSummaries, Forgetting
<1>6. CASE Crash
  <2>1. \A m \in DOMAIN summaries : Written(m)' = Written(m) /\ Written(m) \subseteq Runs
    BY <1>6, <1>t DEF Crash, store, Written, Summary
  <2> QED BY <1>6, <1>t, <2>1 DEF Crash, store
<1>7. CASE UNCHANGED vars
  BY <1>7 DEF vars, store, Written
<1> QED BY <1>1, <1>2, <1>3, <1>4, <1>5, <1>6, <1>7, Steps

\* An id that was claimed is claimed for ever, and an address is used again only
\* when its request is over.
LEMMA ClaimStep == TypeOK /\ MemoryInv /\ ClaimInv /\ [Next]_vars => ClaimInv'
<1> SUFFICES ASSUME TypeOK, MemoryInv, ClaimInv, [Next]_vars PROVE ClaimInv'
  OBVIOUS
<1> USE DEF ClaimInv, Claimed, Chatting, FromPlatform
<1>t. /\ pc \in [Runs -> {"idle"} \cup InFlight \cup Ended]
      /\ id \in [Runs -> Ids \cup ChatIds \cup {None}]
      /\ "idle" \notin InFlight \cup Ended /\ "duplicate" \notin InFlight
      /\ "started" \in InFlight
  BY DEF TypeOK, InFlight, Ended
<1>1. ASSUME NEW r \in Runs, Arrive(r), Begins(r) PROVE ClaimInv'
  <2>1. /\ \A q \in Runs \ {r} : pc'[q] = pc[q] /\ id'[q] = id[q]
        /\ pc[r] = "idle" /\ Kind' = Kind
    BY <1>1, <1>t DEF Begins, Goto
  <2>2. CASE Claim(r)
    <3>1. /\ processed' = processed \cup {GivenId[r]} /\ GivenId[r] \notin processed
          /\ id'[r] = GivenId[r] /\ Kind[r] # "chat" /\ pc'[r] = "started"
      BY <2>2, <1>t DEF Claim, Begin, Goto
    <3>2. \A q \in Runs \ {r} : ~(Claimed(q)' /\ Claimed(r)' /\ id'[q] = id'[r])
      BY <2>1, <3>1
    <3> QED BY <2>1, <3>1, <3>2
  <2>3. CASE Duplicate(r)
    <3>1. /\ processed' = processed /\ GivenId[r] \in processed
          /\ id'[r] = GivenId[r] /\ Kind[r] # "chat" /\ pc'[r] = "duplicate"
          /\ FromPlatform(r)
      BY <2>3, <1>t DEF Duplicate, Begin, Goto
    <3> QED BY <2>1, <3>1
  <2>4. CASE Accept(r)
    <3>1. processed' = processed /\ Kind[r] = "message" /\ pc'[r] = "started"
      BY <2>4, <1>t DEF Accept, Goto
    <3> QED BY <2>1, <3>1
  <2>5. ASSUME NEW m \in ChatIds, Chat(r, m) PROVE ClaimInv'
    <3>1. /\ processed' = processed /\ Kind[r] = "chat" /\ pc'[r] = "started"
          /\ id'[r] = m /\ Unused(m)
      BY <2>5, <1>t DEF Chat, Begin, Goto
    <3>2. \A q \in Runs \ {r} : Chatting(q)' => id'[q] # m
      BY <2>1, <3>1 DEF Unused
    <3> QED BY <2>1, <3>1, <3>2
  <2> QED BY <1>1, <2>2, <2>3, <2>4, <2>5 DEF Arrive
<1>2. ASSUME NEW r \in Runs, NEW s, pc[r] \in InFlight, s # "duplicate",
             Goto(r, s), UNCHANGED << Kind, id, processed >>
      PROVE  ClaimInv'
  <2>1. \A q \in Runs : Claimed(q)' => Claimed(q)
    BY <1>2, <1>t DEF Goto
  <2>2. \A q \in Runs : Chatting(q)' => Chatting(q)
    BY <1>2, <1>t DEF Goto
  <2>3. \A q \in Runs : /\ pc'[q] # "idle" => pc[q] # "idle"
                        /\ pc'[q] = "duplicate" => pc[q] = "duplicate"
    BY <1>2, <1>t DEF Goto
  <2> QED BY <1>2, <2>1, <2>2, <2>3
<1>3. ASSUME NEW r \in Runs, GoesOn(r) PROVE ClaimInv'
  BY <1>3, <1>2 DEF GoesOn, store
<1>4. ASSUME NEW r \in Runs, Persist(r) PROVE ClaimInv'
  BY <1>4, <1>2 DEF Persist, InFlight
<1>5. CASE (\E table \in Tables : Forget(table)) \/ ForgetSummaries
  BY <1>5 DEF Forget, ForgetSummaries, Forgetting
<1>6. CASE Crash
  BY <1>6, <1>t DEF Crash, store
<1>7. CASE UNCHANGED vars
  BY <1>7 DEF vars, store
<1> QED BY <1>1, <1>3, <1>4, <1>5, <1>6, <1>7, Steps

-----------------------------------------------------------------------------
\* Persist replaces the summary under the run's id by its own.
LEMMA Persisting ==
    ASSUME TypeOK, NEW r \in Runs, Persist(r), id[r] \in DOMAIN summaries
    PROVE  /\ summaries'[id[r]] # None
           /\ Written(id[r])' = {r} /\ summaries'[id[r]].tells = said[r]
           /\ DOMAIN summaries' = DOMAIN summaries
           /\ \A m \in DOMAIN summaries \ {id[r]} : /\ summaries'[m] = summaries[m]
                                                    /\ Written(m)' = Written(m)
<1> DEFINE s == [by |-> r, tells |-> said[r]]
<1>1. s \in Summary /\ s # None
  BY Names DEF TypeOK, Summary
<1>2. summaries' = [summaries EXCEPT ![id[r]] = s]
  BY DEF Persist
<1>3. s.by = r /\ s.tells = said[r]
  OBVIOUS
<1> HIDE DEF s
<1>4. /\ summaries'[id[r]] = s /\ DOMAIN summaries' = DOMAIN summaries
      /\ \A m \in DOMAIN summaries \ {id[r]} : summaries'[m] = summaries[m]
  BY <1>2
<1>5. Written(id[r])' = {r}
  BY <1>1, <1>3, <1>4 DEF Written, Persist
<1>6. \A m \in DOMAIN summaries \ {id[r]} : Written(m)' = Written(m)
  BY <1>4 DEF Written
<1> QED BY <1>1, <1>3, <1>4, <1>5, <1>6

LEMMA SummaryStep == GraphInv /\ [Next]_vars => SummaryInv'
<1> SUFFICES ASSUME TypeOK, MemoryInv, ClaimInv, SummaryInv, [Next]_vars
             PROVE  SummaryInv'
  BY DEF GraphInv
<1> USE Names DEF SummaryInv
<1>t. /\ pc \in [Runs -> {"idle"} \cup InFlight \cup Ended]
      /\ summaries \in [Ids \cup ChatIds -> Summary \cup {None}]
      /\ id \in [Runs -> Ids \cup ChatIds \cup {None}]
  BY DEF TypeOK
<1>i. \A q \in Runs : pc[q] = "idle" <=> id[q] = None
  BY DEF MemoryInv
<1>w. \A m \in DOMAIN summaries : Written(m) \subseteq Runs
  BY <1>t DEF Written, Summary
<1>1. ASSUME NEW r \in Runs, Begins(r) PROVE SummaryInv'
  <2>1. /\ \A q \in Runs \ {r} : pc'[q] = pc[q] /\ id'[q] = id[q]
        /\ pc[r] = "idle" /\ pc'[r] \in {"started", "duplicate"}
        /\ UNCHANGED << summaries, forgotten >>
    BY <1>1, <1>t DEF Begins, Goto
  <2> QED BY <1>i, <2>1
<1>2. ASSUME NEW r \in Runs, GoesOn(r) PROVE SummaryInv'
  <2>1. /\ \A q \in Runs \ {r} : pc'[q] = pc[q]
        /\ UNCHANGED << summaries, id, forgotten >>
    BY <1>2, <1>t DEF GoesOn, Goto, store
  <2>2. pc'[r] = "replied" => pc[r] = "persisted"
    BY <1>2, <1>t DEF GoesOn, Goto
  <2>3. pc'[r] # "persisted"
    BY <1>2, <1>t DEF GoesOn, Goto, Ended
  <2> QED BY <2>1, <2>2, <2>3
<1>3. ASSUME NEW r \in Runs, Persist(r) PROVE SummaryInv'
  <2>1. id[r] \in DOMAIN summaries
    BY <1>3, <1>t, <1>i DEF Persist
  <2>2. /\ UNCHANGED << id, forgotten >>
        /\ \A q \in Runs \ {r} : pc'[q] = pc[q]
    BY <1>3, <1>t DEF Persist, Goto
  <2>3. /\ summaries'[id[r]] # None
        /\ \A m \in DOMAIN summaries \ {id[r]} : summaries'[m] = summaries[m]
    BY <1>3, <2>1, Persisting
  <2>4. \A q \in Runs \ {r} : pc[q] # "idle" => id[q] \in DOMAIN summaries
    BY <1>t, <1>i
  <2> QED BY <2>1, <2>2, <2>3, <2>4
<1>4. ASSUME NEW table \in Tables, Forget(table) PROVE SummaryInv'
  BY <1>4 DEF Forget, Forgetting
<1>5. CASE ForgetSummaries
  <2>1. UNCHANGED << pc, id >>
    BY <1>5 DEF ForgetSummaries, Forgetting
  <2>2. /\ forgotten \subseteq forgotten'
        /\ \A m \in DOMAIN summaries : Written(m) \subseteq forgotten'
    BY <1>5 DEF ForgetSummaries, Forgetting
  <2>3. ASSUME NEW q \in Runs, pc[q] # "idle", summaries[id[q]] # None
        PROVE  \E p \in Runs \cap forgotten' : id[p] = id[q]
    <3>1. id[q] \in DOMAIN summaries
      BY <1>t, <1>i, <2>3
    <3>2. PICK p : p \in Written(id[q])
      BY <2>3 DEF Written
    <3>3. p \in Runs \cap forgotten' /\ id[p] = id[q]
      BY <1>w, <2>2, <3>1, <3>2 DEF MemoryInv
    <3> QED BY <3>3
  <2> QED BY <2>1, <2>2, <2>3
<1>6. CASE Crash
  BY <1>6, <1>t DEF Crash, store
<1>7. CASE UNCHANGED vars
  BY <1>7 DEF vars, store
<1> QED BY <1>1, <1>2, <1>3, <1>4, <1>5, <1>6, <1>7, Steps

\* The contents that a run reads were not forgotten before it began, and what was
\* forgotten since is not in before.
LEMMA StaysStep ==
    GraphInv /\ StaysForgotten /\ [Next]_vars => StaysForgotten'
<1> SUFFICES ASSUME TypeOK, MemoryInv, ClaimInv, StaysForgotten, [Next]_vars
             PROVE  StaysForgotten'
  BY DEF GraphInv
<1> USE Names DEF StaysForgotten
<1>t. /\ pc \in [Runs -> {"idle"} \cup InFlight \cup Ended]
      /\ summaries \in [Ids \cup ChatIds -> Summary \cup {None}]
      /\ id \in [Runs -> Ids \cup ChatIds \cup {None}]
      /\ before \in [Runs -> SUBSET forgotten]
      /\ said \in [Runs -> Tables \cup {None}]
      /\ None \notin forgotten
  BY DEF TypeOK, Items
<1>i. \A q \in Runs : pc[q] = "idle" <=> id[q] = None
  BY DEF MemoryInv
<1>w. \A m \in DOMAIN summaries :
         Written(m) \subseteq {q \in Runs : pc[q] \in {"persisted"} \cup Ended}
  BY <1>t DEF Written, Summary, MemoryInv
<1>1. ASSUME NEW r \in Runs, Begins(r) PROVE StaysForgotten'
  <2>1. /\ \A q \in Runs \ {r} : before'[q] = before[q]
        /\ pc[r] = "idle" /\ before'[r] = forgotten
        /\ UNCHANGED << summaries, said >>
    BY <1>1, <1>t DEF Begins
  <2>2. said[r] = None
    BY <2>1 DEF MemoryInv
  <2>3. \A m \in DOMAIN summaries : Written(m)' = Written(m) /\ r \notin Written(m)
                                   /\ Written(m) \subseteq Runs
    BY <1>w, <2>1 DEF Written, Ended
  <2> QED BY <1>t, <2>1, <2>2, <2>3
<1>2. ASSUME NEW r \in Runs, GoesOn(r) PROVE StaysForgotten'
  <2>1. /\ \A q \in Runs \ {r} : said'[q] = said[q]
        /\ said'[r] \in memory \cup {None, said[r]}
        /\ UNCHANGED << before, summaries >>
    BY <1>2 DEF GoesOn, store
  <2>2. said'[r] \notin before[r]
    BY <1>t, <2>1 DEF MemoryInv
  <2>3. \A m \in DOMAIN summaries : Written(m)' = Written(m)
    BY <2>1 DEF Written
  <2> QED BY <2>1, <2>2, <2>3
<1>3. ASSUME NEW r \in Runs, Persist(r) PROVE StaysForgotten'
  <2>1. id[r] \in DOMAIN summaries
    BY <1>3, <1>t, <1>i DEF Persist
  <2>2. UNCHANGED << id, said, before >>
    BY <1>3 DEF Persist
  <2>3. /\ Written(id[r])' = {r} /\ summaries'[id[r]].tells = said[r]
        /\ DOMAIN summaries' = DOMAIN summaries
        /\ \A m \in DOMAIN summaries \ {id[r]} : /\ summaries'[m] = summaries[m]
                                                 /\ Written(m)' = Written(m)
    BY <1>3, <2>1, Persisting
  <2>4. ASSUME NEW m \in DOMAIN summaries, NEW q \in Written(m)'
        PROVE  summaries'[m].tells \notin before[q]
    <3>1. CASE m = id[r]
      <4>1. q = r
        BY <2>2, <2>3, <2>4, <3>1 DEF Written
      <4> QED BY <1>3, <2>3, <3>1, <4>1
    <3>2. CASE m # id[r]
      BY <2>3, <2>4, <3>2
    <3> QED BY <3>1, <3>2
  <2> QED BY <2>2, <2>3, <2>4
<1>4. ASSUME UNCHANGED << summaries, before >>,
             \A r \in Runs : said'[r] \in {said[r], None}
      PROVE  StaysForgotten'
  <2>1. \A m \in DOMAIN summaries : Written(m)' = Written(m)
    BY <1>4 DEF Written
  <2> QED BY <1>4, <1>t, <2>1
<1>5. CASE \E table \in Tables : Forget(table)
  BY <1>4, <1>5 DEF Forget, Forgetting
<1>6. CASE ForgetSummaries
  <2>1. \A m \in DOMAIN summaries' : Written(m)' = {}
    BY <1>6 DEF ForgetSummaries, Written
  <2> QED BY <1>6, <2>1 DEF ForgetSummaries, Forgetting
<1>7. CASE Crash \/ UNCHANGED vars
  BY <1>4, <1>7 DEF Crash, vars, store
<1> QED BY <1>1, <1>2, <1>3, <1>5, <1>6, <1>7, Steps

\* Whoever writes under an id after a run that is not a caller of /messages is at
\* work under it together with that run, which only such a caller can be.
LEMMA OwnStep == GraphInv /\ OwnSummary /\ [Next]_vars => OwnSummary'
<1> SUFFICES ASSUME GraphInv, OwnSummary, [Next]_vars PROVE OwnSummary'
  OBVIOUS
<1>s. SummaryInv'
  BY SummaryStep
<1> DEFINE Own == \A r \in Runs : pc[r] = "persisted" /\ Kind[r] # "message" =>
                     \A q \in Written(id[r]) : q = r \/ Kind[q] = "message"
<1> SUFFICES Own'
  BY <1>s DEF OwnSummary, SummaryInv
<1> USE Names DEF GraphInv
<1>t. /\ pc \in [Runs -> {"idle"} \cup InFlight \cup Ended]
      /\ summaries \in [Ids \cup ChatIds -> Summary \cup {None}]
      /\ id \in [Runs -> Ids \cup ChatIds \cup {None}]
      /\ processed \subseteq Ids
  BY DEF TypeOK
<1>i. \A q \in Runs : pc[q] = "idle" <=> id[q] = None
  BY DEF MemoryInv
<1>k. \A q \in Runs : Kind[q] \in Kinds
  BY GivenIds
<1>o. Own
  BY DEF OwnSummary
<1>1. ASSUME UNCHANGED << Kind, summaries >>,
             \A r \in Runs : pc'[r] = "persisted" => /\ pc[r] = "persisted"
                                                     /\ id'[r] = id[r]
      PROVE  Own'
  <2>1. \A m : Written(m)' = Written(m)
    BY <1>1 DEF Written
  <2> QED BY <1>1, <1>o, <2>1
<1>2. ASSUME NEW r \in Runs, Begins(r) PROVE Own'
  BY <1>1, <1>2, <1>t DEF Begins, Goto
<1>3. ASSUME NEW r \in Runs, GoesOn(r) PROVE Own'
  BY <1>1, <1>3, <1>t DEF GoesOn, Goto, store, Ended
<1>4. ASSUME NEW r \in Runs, Persist(r) PROVE Own'
  <2>1. id[r] \in DOMAIN summaries /\ pc[r] = "spoken"
    BY <1>4, <1>t, <1>i DEF Persist
  <2>2. /\ UNCHANGED << Kind, id >>
        /\ \A q \in Runs \ {r} : pc'[q] = pc[q]
    BY <1>4, <1>t DEF Persist, Goto
  <2>3. /\ Written(id[r])' = {r}
        /\ \A m \in DOMAIN summaries \ {id[r]} : Written(m)' = Written(m)
    BY <1>4, <2>1, Persisting
  <2> SUFFICES ASSUME NEW p \in Runs, pc'[p] = "persisted", Kind[p] # "message",
                      NEW q \in Written(id[p])'
               PROVE  q = p \/ Kind[q] = "message"
    BY <2>2
  <2>4. CASE p = r
    BY <2>3, <2>4
  <2>5. CASE p # r /\ id[p] = id[r]
    <3>1. q = r /\ pc[p] = "persisted"
      BY <2>2, <2>3, <2>5
    <3>2. CASE FromPlatform(p)
      <4>1. ~Claimed(r) /\ id[r] \in Ids
        BY <1>t, <2>5, <3>1, <3>2 DEF ClaimInv, Claimed
      <4>2. ~FromPlatform(r) /\ Kind[r] # "chat"
        BY <2>1, <4>1 DEF ClaimInv, Claimed
      <4> QED BY <1>k, <3>1, <4>2 DEF Kinds, FromPlatform
    <3>3. CASE Kind[p] = "chat"
      <4>1. ~Chatting(r) /\ id[r] \in ChatIds
        BY <2>5, <3>1, <3>3 DEF ClaimInv, Chatting, InFlight
      <4>2. ~FromPlatform(r) /\ Kind[r] # "chat"
        BY <1>t, <2>1, <4>1 DEF ClaimInv, Chatting, InFlight
      <4> QED BY <1>k, <3>1, <4>2 DEF Kinds, FromPlatform
    <3> QED BY <1>k, <3>2, <3>3 DEF Kinds, FromPlatform
  <2>6. CASE p # r /\ id[p] # id[r]
    <3>1. id[p] \in DOMAIN summaries /\ pc[p] = "persisted"
      BY <1>t, <1>i, <2>2, <2>6
    <3>2. q \in Written(id[p])
      BY <2>2, <2>3, <2>6, <3>1
    <3> QED BY <1>o, <2>2, <3>1, <3>2
  <2> QED BY <2>4, <2>5, <2>6
<1>5. CASE \E table \in Tables : Forget(table)
  BY <1>1, <1>5 DEF Forget, Forgetting
<1>6. CASE ForgetSummaries
  <2>1. \A m \in DOMAIN summaries : Written(m)' = {}
    BY <1>6 DEF ForgetSummaries, Written
  <2>2. \A q \in Runs : pc[q] = "persisted" => id[q] \in DOMAIN summaries
    BY <1>t, <1>i
  <2> QED BY <1>6, <2>1, <2>2 DEF ForgetSummaries, Forgetting
<1>7. CASE Crash
  BY <1>1, <1>7, <1>t DEF Crash, store, InFlight
<1>8. CASE UNCHANGED vars
  BY <1>1, <1>8 DEF vars, store
<1> QED BY <1>2, <1>3, <1>4, <1>5, <1>6, <1>7, <1>8, Steps

\* A webhook keeps the loop while it is at work, so no duplicate comes in; and an
\* id that made a duplicate is claimed, so that no webhook begins under it.
LEMMA DuplicateStep ==
    GraphInv /\ DuplicateMeansOver /\ [Next]_vars => DuplicateMeansOver'
<1> SUFFICES ASSUME GraphInv, DuplicateMeansOver, [Next]_vars
             PROVE  DuplicateMeansOver'
  OBVIOUS
<1> USE Names DEF DuplicateMeansOver, GraphInv
<1>t. /\ pc \in [Runs -> {"idle"} \cup InFlight \cup Ended]
      /\ id \in [Runs -> Ids \cup ChatIds \cup {None}]
      /\ \A q \in Runs : loop = q <=> Kind[q] = "webhook" /\ pc[q] \in InFlight
      /\ processed \subseteq Ids
      /\ "duplicate" \in Ended /\ "duplicate" \notin InFlight
      /\ InFlight \cap Ended = {} /\ "idle" \notin InFlight \cup Ended
  BY DEF TypeOK, InFlight, Ended
<1>i. \A q \in Runs : pc[q] = "idle" <=> id[q] = None
  BY DEF MemoryInv
<1>1. ASSUME UNCHANGED << Kind, id >>,
             \A r \in Runs : /\ pc'[r] = "duplicate" => pc[r] = "duplicate"
                             /\ pc[r] \in Ended => pc'[r] \in Ended
      PROVE  DuplicateMeansOver'
  BY <1>1
<1>2. ASSUME NEW r \in Runs, Arrive(r), Begins(r) PROVE DuplicateMeansOver'
  <2>1. /\ \A q \in Runs \ {r} : pc'[q] = pc[q] /\ id'[q] = id[q]
        /\ pc[r] = "idle" /\ Kind' = Kind /\ id'[r] # None
    BY <1>2, <1>t DEF Begins, Goto
  <2>2. CASE Duplicate(r)
    <3>1. pc'[r] = "duplicate" /\ loop = None
      BY <2>2, <1>t DEF Duplicate, Begin, Goto, LoopFree
    <3>2. \A q \in Runs \ {r} : Kind[q] = "webhook" /\ id[q] = id'[r] => pc[q] \in Ended
      BY <1>t, <1>i, <2>1, <3>1
    <3> QED BY <1>t, <2>1, <3>1, <3>2
  <2>3. CASE ~Duplicate(r)
    <3>1. pc'[r] = "started"
      BY <1>2, <2>3, <1>t DEF Arrive, Claim, Accept, Chat, Goto
    <3>2. Kind[r] = "webhook" => id'[r] \notin processed
      BY <1>2, <2>3, <1>t DEF Arrive, Claim, Accept, Chat, Begin
    <3>3. \A d \in Runs : pc[d] = "duplicate" => id[d] \in processed
      BY <1>t DEF ClaimInv
    <3> QED BY <2>1, <3>1, <3>2, <3>3
  <2> QED BY <2>2, <2>3
<1>3. ASSUME NEW r \in Runs, pc[r] \in InFlight,
             NEW s, s # "duplicate", Goto(r, s), UNCHANGED << Kind, id >>
      PROVE  DuplicateMeansOver'
  BY <1>1, <1>3, <1>t DEF Goto
<1>4. ASSUME NEW r \in Runs, GoesOn(r) PROVE DuplicateMeansOver'
  BY <1>3, <1>4 DEF GoesOn
<1>5. ASSUME NEW r \in Runs, Persist(r) PROVE DuplicateMeansOver'
  BY <1>3, <1>5 DEF Persist, InFlight
<1>6. CASE (\E table \in Tables : Forget(table)) \/ ForgetSummaries
  BY <1>1, <1>6 DEF Forget, ForgetSummaries, Forgetting
<1>7. CASE Crash
  BY <1>1, <1>7, <1>t DEF Crash
<1>8. CASE UNCHANGED vars
  BY <1>1, <1>8 DEF vars
<1> QED BY <1>2, <1>4, <1>5, <1>6, <1>7, <1>8, Steps

-----------------------------------------------------------------------------
\* The inductive invariant: ids of the platform are claimed once and for ever, an
\* address is one request's at a time, and what was forgotten is not stored again.
THEOREM GraphConsistent == Spec => []GraphInv
<1>1. GraphInv /\ [Next]_vars => GraphInv'
  BY TypeStep, MemoryStep, ClaimStep, SummaryStep DEF GraphInv
<1> QED BY InitInv, <1>1, PTL DEF Spec

\* A run that begins after something was forgotten brings it back neither in its
\* reply nor in its summary (memory.py 59 to 62).
THEOREM ForgottenStays == Spec => []StaysForgotten
<1>1. GraphInv /\ StaysForgotten /\ [Next]_vars => StaysForgotten'
  BY StaysStep
<1> QED BY InitInv, GraphConsistent, <1>1, PTL DEF Spec

\* Whoever was replied to has a summary unless summaries were forgotten, and at its
\* reply it is its own (api.py 333, 497 to 508 and 519).
THEOREM SummaryIsOwn == Spec => []OwnSummary
<1>1. GraphInv /\ OwnSummary /\ [Next]_vars => OwnSummary'
  BY OwnStep
<1> QED BY InitInv, GraphConsistent, <1>1, PTL DEF Spec

\* "duplicate" is said of a request that is over (api.py 519 to 532).
THEOREM DuplicatesAreOver == Spec => []DuplicateMeansOver
<1>1. GraphInv /\ DuplicateMeansOver /\ [Next]_vars => DuplicateMeansOver'
  BY DuplicateStep
<1> QED BY InitInv, GraphConsistent, <1>1, PTL DEF Spec

-----------------------------------------------------------------------------
\* The graph's side of WhatsApp implements the at-most-once consumer: a claim is
\* the consumer's claim, the reply of a webhook or the worker its answer, and every
\* other step changes neither.
THEOREM Implementation == Spec => AtMostOnceWebhook
<1>1. Init => Consumer!Init
  <2> SUFFICES ASSUME Init PROVE Consumer!Init
    OBVIOUS
  <2>1. \A m \in Ids : Repliers(m) = {}
    BY DEF Init, Repliers
  <2> QED BY <2>1, FS_EmptySet DEF Init, Consumer!Init
<1>2. GraphInv /\ [Next]_vars => [Consumer!Next]_(Consumer!vars)
  <2> SUFFICES ASSUME GraphInv, [Next]_vars
               PROVE  \/ Consumer!Next
                      \/ /\ UNCHANGED processed
                         /\ \A m \in Ids : Repliers(m)' = Repliers(m)
    BY DEF Consumer!vars
  <2>t. /\ pc \in [Runs -> {"idle"} \cup InFlight \cup Ended]
        /\ id \in [Runs -> Ids \cup ChatIds \cup {None}]
        /\ processed \subseteq Ids
    BY DEF GraphInv, TypeOK
  <2>1. ASSUME UNCHANGED << Kind, id >>,
               \A r \in Runs : FromPlatform(r) =>
                                  (pc'[r] = "replied" <=> pc[r] = "replied")
        PROVE  \A m \in Ids : Repliers(m)' = Repliers(m)
    BY <2>1 DEF Repliers, FromPlatform
  <2>2. ASSUME NEW r \in Runs, Arrive(r), Begins(r)
        PROVE  /\ \A m \in Ids : Repliers(m)' = Repliers(m)
               /\ \/ UNCHANGED processed
                  \/ /\ GivenId[r] \in Ids \ processed
                     /\ processed' = processed \cup {GivenId[r]}
    <3>1. /\ \A q \in Runs \ {r} : pc'[q] = pc[q] /\ id'[q] = id[q]
          /\ pc[r] = "idle" /\ pc'[r] # "replied" /\ Kind' = Kind
      BY <2>2, <2>t DEF Begins, Goto
    <3>2. \A m \in Ids : Repliers(m)' = Repliers(m)
      BY <3>1 DEF Repliers, FromPlatform
    <3>3. \/ UNCHANGED processed
          \/ /\ GivenId[r] \in Ids \ processed
             /\ processed' = processed \cup {GivenId[r]}
      BY <2>2, GivenIds DEF Arrive, Claim, Duplicate, Accept, Chat, GraphInv,
                            FromPlatform
    <3> QED BY <3>2, <3>3
  <2>3. ASSUME NEW r \in Runs, GoesOn(r), pc[r] = "persisted", FromPlatform(r)
        PROVE  Consumer!Next
    <3>1. /\ UNCHANGED << Kind, id, processed >> /\ pc'[r] = "replied"
          /\ \A q \in Runs \ {r} : pc'[q] = pc[q]
      BY <2>3, <2>t DEF GoesOn, Goto, store
    <3>2. id[r] \in processed /\ id[r] \in Ids
      BY <2>3, <2>t DEF GraphInv, ClaimInv
    <3>3. Repliers(id[r]) = {}
      BY <2>3 DEF GraphInv, ClaimInv, Claimed, Repliers
    <3>4. Repliers(id[r])' = {r}
      BY <2>3, <3>1, <3>3 DEF Repliers, FromPlatform
    <3>5. \A m \in Ids \ {id[r]} : Repliers(m)' = Repliers(m)
      BY <3>1 DEF Repliers, FromPlatform
    <3>6. Cardinality(Repliers(id[r])) = 0 /\ Cardinality(Repliers(id[r])') = 1
      BY <3>3, <3>4, FS_EmptySet, FS_Singleton
    <3>7. Consumer!Answer(id[r])
      BY <3>1, <3>2, <3>5, <3>6 DEF Consumer!Answer
    <3> QED BY <3>2, <3>7 DEF Consumer!Next
  <2>4. ASSUME NEW r \in Runs, GoesOn(r), ~(pc[r] = "persisted" /\ FromPlatform(r))
        PROVE  /\ UNCHANGED processed
               /\ \A m \in Ids : Repliers(m)' = Repliers(m)
    BY <2>1, <2>4, <2>t DEF GoesOn, Goto, store, InFlight
  <2>5. ASSUME NEW r \in Runs, Persist(r)
        PROVE  /\ UNCHANGED processed
               /\ \A m \in Ids : Repliers(m)' = Repliers(m)
    BY <2>1, <2>5, <2>t DEF Persist, Goto
  <2>6. ASSUME \/ \E table \in Tables : Forget(table)
               \/ ForgetSummaries \/ Crash \/ UNCHANGED vars
        PROVE  /\ UNCHANGED processed
               /\ \A m \in Ids : Repliers(m)' = Repliers(m)
    BY <2>1, <2>6, <2>t DEF Forget, ForgetSummaries, Forgetting, Crash, vars,
                            store, InFlight
  <2>7. ASSUME NEW r \in Runs, GivenId[r] \in Ids \ processed,
               processed' = processed \cup {GivenId[r]},
               \A m \in Ids : Repliers(m)' = Repliers(m)
        PROVE  Consumer!Next
    <3>1. Consumer!Claim(GivenId[r])
      BY <2>7 DEF Consumer!Claim
    <3> QED BY <2>7, <3>1 DEF Consumer!Next
  <2> QED BY <2>2, <2>3, <2>4, <2>5, <2>6, <2>7, Steps DEF GraphInv
<1> QED BY <1>1, <1>2, GraphConsistent, PTL
        DEF Spec, AtMostOnceWebhook, Consumer!Spec
=============================================================================
