----------------------- MODULE WhatsAppDeliveryProofs -----------------------
(***************************************************************************)
(* Proofs about WhatsAppDelivery, for every feed, every set of poll        *)
(* requests and every budget of mishaps.                                   *)
(***************************************************************************)
EXTENDS WhatsAppDelivery, TLAPS

\* The adapter never asks for fewer than one or more than MaxLimit updates.
LEMMA ClampRange == \A l \in Nat : Clamp(l) \in 1 .. MaxLimit
<1> TAKE l \in Nat
<1> DEFINE atLeastOne == IF l < 1 THEN 1 ELSE l
<1>1. atLeastOne \in Nat \ {0}
  OBVIOUS
<1>2. (IF atLeastOne < MaxLimit THEN atLeastOne ELSE MaxLimit) \in 1 .. MaxLimit
  BY <1>1, LimitAssumption
<1> QED BY <1>2 DEF Clamp, Least

LEMMA InitInv == Init => DeliveryInv
<1> SUFFICES ASSUME Init PROVE DeliveryInv
  OBVIOUS
<1>1. TypeOK
  <2>1. Len(Updates) \in Nat
    BY FeedAssumption
  <2>2. lockq \in Seq(Procs) /\ "idle" \in Steps
    BY DEF Init, Steps
  <2>3. [from |-> 0, limit |-> 1] \in [from : 0 .. Len(Updates),
                                       limit : 1 .. MaxLimit]
    BY <2>1, LimitAssumption
  <2>4. retry \in {RetryBase} \cup 1 .. RetryMax
    BY DEF Init
  <2>5. request \in [Procs -> [from : 0 .. Len(Updates), limit : 1 .. MaxLimit]]
    BY <2>3 DEF Init
  <2>6. /\ batch \in [Procs -> SUBSET Positions]
        /\ cur \in [Procs -> Msgs \cup {None}]
        /\ pc \in [Procs -> Steps]
    BY <2>2 DEF Init
  <2>7. budget \in [Mishaps -> Nat]
    BY BudgetAssumption DEF Init
  <2>8. /\ arrived \in 0 .. Len(Updates) /\ offset \in 0 .. Len(Updates)
        /\ savedOffset \in 0 .. Len(Updates)
    BY <2>1 DEF Init
  <2>9. replies \in [Msgs -> Nat] /\ timeline \in [Msgs -> 0 .. 3]
    BY DEF Init
  <2>10. /\ posted \subseteq Msgs /\ processed \subseteq Msgs
         /\ running \in Procs \cup {None} /\ degraded \in BOOLEAN
    BY DEF Init
  <2> QED BY <2>2, <2>4, <2>5, <2>6, <2>7, <2>8, <2>9, <2>10 DEF TypeOK
<1>2. LockInv
  BY DEF Init, LockInv
<1>3. OffsetInv
  BY DEF Init, OffsetInv, BatchesDisjoint
<1>4. ClaimInv
  BY DEF Init, ClaimInv, ExclusiveWork, AtMostOneReply, Busy, MessageSteps
<1>5. TimelineTruthful
  <2> SUFFICES ASSUME NEW m \in Msgs
               PROVE  /\ ~(timeline[m] = 3) /\ ~(timeline[m] > 0)
                      /\ ~(m \in posted \/ replies[m] > 0)
    BY Zenon DEF TimelineTruthful
  <2>1. timeline[m] = 0 /\ replies[m] = 0 /\ m \notin posted
    BY DEF Init
  <2> QED BY <2>1
<1>6. FeedInv
  <2>1. BatchInv /\ TurnInv /\ AnswerInv /\ OffsetDurable
    BY DEF Init, BatchInv, TurnInv, AnswerInv, OffsetDurable, Busy, MessageSteps
  <2>2. \A k \in Mishaps : budget[k] <= Budget[k]
    BY BudgetAssumption DEF Init
  <2>3. savedOffset <= offset /\ \A n \in Positions : ~(n <= offset)
    BY FeedAssumption DEF Init, Positions
  <2> QED BY <2>1, <2>2, <2>3 DEF FeedInv, SkipInv
<1> QED BY <1>1, <1>2, <1>3, <1>4, <1>5, <1>6 DEF DeliveryInv

-----------------------------------------------------------------------------
\* Every step keeps the queue of the lock and the places of the coroutines
\* consistent.
LEMMA LockStep == TypeOK /\ LockInv /\ [Next]_vars => LockInv'
<1> SUFFICES ASSUME TypeOK, LockInv, [Next]_vars PROVE LockInv'
  OBVIOUS
<1> USE ProcsAssumption DEF LockInv
<1>t. /\ lockq \in Seq(Procs) /\ pc \in [Procs -> Steps]
      /\ Worker \in Procs
  BY DEF TypeOK, Procs
<1>1. CASE UNCHANGED << pc, lockq >>
  BY <1>1
<1>2. ASSUME NEW p \in Procs, NEW s \in Steps \ LockSteps, Goto(p, s),
             UNCHANGED lockq
      PROVE  LockInv'
  BY <1>2, <1>t DEF Goto, Steps, LockSteps
<1>3. ASSUME NEW p \in Procs, NEW s \in Steps \ LockSteps, Goto(p, s),
             pc[p] \in {"receiving", "saving"}, Release
      PROVE  LockInv'
  BY <1>3, <1>t DEF Goto, Steps, LockSteps, Release
<1>4. ASSUME NEW p \in Procs, Poll(p) PROVE LockInv'
  BY <1>4, <1>t DEF Poll, Resumes, Await, Goto
<1>5. ASSUME NEW p \in Procs, NEW l, IssueGet(p, l) PROVE LockInv'
  BY <1>5, <1>t DEF IssueGet, Resumes, Await, Goto
<1>6. ASSUME NEW p \in Procs, NEW n, ReceiveUpdates(p, n) PROVE LockInv'
  BY <1>6, <1>t DEF ReceiveUpdates, Resumes, Stay, Goto
<1>7. CASE Restart
  BY <1>7, <1>t DEF Restart
<1>8. ASSUME NEW p \in Procs,
             SkipDuplicate(p) \/ Claim(p) \/ StartGraph(p) \/ GraphReturns(p)
             \/ Send(p) \/ SendReturns(p) \/ RecordDelivered(p) \/ FinishBatch(p)
      PROVE  LockInv'
  <2>1. CASE SkipDuplicate(p)
    BY <2>1, <1>1 DEF SkipDuplicate
  <2>2. CASE Claim(p)
    BY <2>2, <1>2 DEF Claim, Stay, Steps, LockSteps, MessageSteps
  <2>3. CASE StartGraph(p)
    BY <2>3, <1>2 DEF StartGraph, Await, Steps, LockSteps, MessageSteps
  <2>4. CASE GraphReturns(p)
    BY <2>4, <1>2 DEF GraphReturns, Stay, Steps, LockSteps, MessageSteps
  <2>5. CASE Send(p)
    BY <2>5, <1>2 DEF Send, Await, Steps, LockSteps, MessageSteps
  <2>6. CASE SendReturns(p)
    BY <2>6, <1>2 DEF SendReturns, Stay, Steps, LockSteps, MessageSteps
  <2>7. CASE RecordDelivered(p)
    BY <2>7, <1>2 DEF RecordDelivered, Stay, Steps, LockSteps, MessageSteps
  <2>8. CASE FinishBatch(p)
    BY <2>8, <1>2 DEF FinishBatch, Await, Steps, LockSteps, MessageSteps
  <2> QED BY <1>8, <2>1, <2>2, <2>3, <2>4, <2>5, <2>6, <2>7, <2>8
<1>9. ASSUME NEW p \in Procs, ReceiveNothing(p) \/ SaveOffset(p) PROVE LockInv'
  BY <1>9, <1>3 DEF ReceiveNothing, SaveOffset, Resumes, GoesOn, Stay, Steps,
                    LockSteps
<1>10. ASSUME NEW p \in Procs, Trouble(p) PROVE LockInv'
  <2>1. CASE ReceiveFails(p)
    BY <2>1, <1>3 DEF ReceiveFails, Fail, Resumes, Await, Steps, LockSteps,
                      WorkerSteps
  <2>2. CASE GraphFails(p) \/ SendRefused(p) \/ SendTimesOut(p)
    BY <2>2, <1>2 DEF GraphFails, SendRefused, SendTimesOut, Fail, Await, Steps,
                      LockSteps, WorkerSteps
  <2>3. CASE StoreFails(p) /\ pc[p] = "saving"
    BY <2>3, <1>3 DEF StoreFails, Await, Steps, LockSteps, WorkerSteps
  <2>4. CASE StoreFails(p) /\ pc[p] # "saving"
    BY <2>4, <1>2 DEF StoreFails, Await, Steps, LockSteps, WorkerSteps
  <2> QED BY <1>10, <2>1, <2>2, <2>3, <2>4 DEF Trouble
<1>11. CASE EndBackoff
  BY <1>11, <1>2, <1>t DEF EndBackoff, Await, Steps, LockSteps
<1>12. CASE Arrive \/ (\E m \in Msgs : Accept(m)) \/ ForgetProfile
  BY <1>12, <1>1 DEF Arrive, Accept, ForgetProfile
<1>13. CASE UNCHANGED vars
  BY <1>13, <1>1 DEF vars
<1>14. ASSUME NEW p \in Procs, Progress(p) PROVE LockInv'
  BY <1>14, <1>5, <1>6, <1>8, <1>9 DEF Progress, Receive
<1> QED BY <1>4, <1>7, <1>10, <1>11, <1>12, <1>13, <1>14 DEF Next

-----------------------------------------------------------------------------
\* Every step keeps the variables within their types.
LEMMA TypeStep == TypeOK /\ LockInv /\ ClaimInv /\ [Next]_vars => TypeOK'
<1> SUFFICES ASSUME TypeOK, LockInv, ClaimInv, [Next]_vars PROVE TypeOK'
  OBVIOUS
<1>l. Len(Updates) \in Nat /\ Worker \in Procs
  BY FeedAssumption DEF Procs
<1>c. \A p \in Procs : Busy(p) => cur[p] \in Msgs
  BY DEF ClaimInv, TypeOK
<1>h. \A p \in Procs : pc[p] \in {"receiving", "saving"} => lockq # << >>
  BY DEF LockInv, TypeOK
<1> USE DEF TypeOK
<1>r. ASSUME NEW p \in Procs, pc[p] \in {"receiving", "saving"}, Release
      PROVE  lockq' \in Seq(Procs)
  BY <1>r, <1>h DEF Release
<1>b. ASSUME NEW k \in Mishaps, Spend(k) PROVE budget' \in [Mishaps -> Nat]
  BY <1>b DEF Spend
<1>d. ASSUME NEW p \in Procs, NEW stage \in 0 .. 3, Record(p, stage)
      PROVE  timeline' \in [Msgs -> 0 .. 3]
  <2>1. timeline \in [Msgs -> 0 .. 3]
    OBVIOUS
  <2> HIDE DEF TypeOK
  <2> QED BY <1>d, <2>1 DEF Record
<1>f. ASSUME NEW p \in Procs, Fail(p)
      PROVE  /\ budget' \in [Mishaps -> Nat]
             /\ pc' \in [Procs -> Steps]
             /\ running' \in Procs \cup {None}
             /\ batch' \in [Procs -> SUBSET Positions]
             /\ degraded' \in BOOLEAN
  <2>1. budget' \in [Mishaps -> Nat]
    BY <1>f, <1>b DEF Fail, Mishaps
  <2>2. (IF p = Worker THEN "backoff" ELSE "idle") \in Steps
    BY DEF Steps, WorkerSteps
  <2>3. pc' \in [Procs -> Steps] /\ running' \in Procs \cup {None}
    BY <1>f, <2>2 DEF Fail, Await, Goto
  <2>4. batch' \in [Procs -> SUBSET Positions]
    BY <1>f DEF Fail
  <2>5. degraded' \in BOOLEAN
    BY <1>f, Zenon DEF Fail
  <2> QED BY <2>1, <2>3, <2>4, <2>5
<1>1. ASSUME NEW p \in Procs, Poll(p) PROVE TypeOK'
  BY <1>1 DEF Poll, Resumes, Await, Goto, Steps, LockSteps, platform, store, health
<1>2. ASSUME NEW p \in Procs, ReceiveNothing(p) PROVE TypeOK'
  <2>1. lockq' \in Seq(Procs)
    BY <1>2, <1>r DEF ReceiveNothing, Resumes
  <2>2. pc' \in [Procs -> Steps] /\ running' \in Procs \cup {None}
    BY <1>2 DEF ReceiveNothing, Stay, Goto, Steps
  <2> QED BY <1>2, <2>1, <2>2 DEF ReceiveNothing, platform, store, health
<1>3. ASSUME NEW p \in Procs, ReceiveFails(p) PROVE TypeOK'
  <2>1. lockq' \in Seq(Procs)
    BY <1>3, <1>r DEF ReceiveFails, Resumes
  <2> QED BY <1>3, <1>f, <2>1 DEF ReceiveFails, Fail, store
<1>4. ASSUME NEW p \in Procs, SaveOffset(p) PROVE TypeOK'
  <2>1. lockq' \in Seq(Procs)
    BY <1>4, <1>r DEF SaveOffset, GoesOn
  <2>2. pc' \in [Procs -> Steps] /\ running' \in Procs \cup {None}
    BY <1>4 DEF SaveOffset, Stay, Goto, Steps
  <2> QED BY <1>4, <2>1, <2>2 DEF SaveOffset, platform, store, health
<1>5. ASSUME NEW p \in Procs, Claim(p) PROVE TypeOK'
  <2> PICK k \in batch[p] : /\ processed' = processed \cup {Updates[k]}
                            /\ cur' = [cur EXCEPT ![p] = Updates[k]]
                            /\ batch' = [batch EXCEPT ![p] = @ \ {k}]
    BY <1>5 DEF Claim
  <2>1. Updates[k] \in Msgs
    BY FeedAssumption DEF Positions
  <2>2. pc' \in [Procs -> Steps] /\ running' \in Procs \cup {None}
    BY <1>5 DEF Claim, Stay, Goto, Steps, MessageSteps
  <2>3. /\ processed' \subseteq Msgs
        /\ cur' \in [Procs -> Msgs \cup {None}]
        /\ batch' \in [Procs -> SUBSET Positions]
    BY <2>1
  <2> QED BY <1>5, <2>2, <2>3 DEF Claim, platform, health
<1>6. ASSUME NEW p \in Procs, SkipDuplicate(p) PROVE TypeOK'
  BY <1>6 DEF SkipDuplicate, platform, store, health
<1>7. ASSUME NEW p \in Procs, StartGraph(p) PROVE TypeOK'
  <2>1. pc' \in [Procs -> Steps] /\ running' \in Procs \cup {None}
    BY <1>7 DEF StartGraph, Await, Goto, Steps, MessageSteps
  <2>2. timeline' \in [Msgs -> 0 .. 3]
    BY <1>7, <1>d DEF StartGraph
  <2> QED BY <1>7, <2>1, <2>2 DEF StartGraph, platform, store, health
<1>8. ASSUME NEW p \in Procs, GraphReturns(p) PROVE TypeOK'
  BY <1>8 DEF GraphReturns, Stay, Goto, Steps, MessageSteps, platform, store, health
<1>9. ASSUME NEW p \in Procs, GraphFails(p) PROVE TypeOK'
  BY <1>9, <1>f DEF GraphFails, Fail, store
<1>10. ASSUME NEW p \in Procs, Send(p) PROVE TypeOK'
  <2>1. cur[p] \in Msgs
    BY <1>10, <1>c DEF Send, GoesOn, Busy, MessageSteps
  <2>2. pc' \in [Procs -> Steps] /\ running' \in Procs \cup {None}
    BY <1>10 DEF Send, Await, Goto, Steps, MessageSteps
  <2>3. timeline' \in [Msgs -> 0 .. 3]
    BY <1>10, <1>d DEF Send
  <2> QED BY <1>10, <2>1, <2>2, <2>3 DEF Send, platform, store, health
<1>11. ASSUME NEW p \in Procs, SendReturns(p) PROVE TypeOK'
  BY <1>11 DEF SendReturns, Stay, Goto, Steps, MessageSteps, platform, store, health
<1>12. ASSUME NEW p \in Procs, SendRefused(p) PROVE TypeOK'
  BY <1>12, <1>f DEF SendRefused, Fail, store
<1>13. ASSUME NEW p \in Procs, SendTimesOut(p) PROVE TypeOK'
  BY <1>13, <1>f DEF SendTimesOut, Fail, store
<1>14. ASSUME NEW p \in Procs, RecordDelivered(p) PROVE TypeOK'
  <2>1. pc' \in [Procs -> Steps] /\ running' \in Procs \cup {None}
    BY <1>14 DEF RecordDelivered, Stay, Goto, Steps, MessageSteps
  <2>2. timeline' \in [Msgs -> 0 .. 3]
    BY <1>14, <1>d DEF RecordDelivered
  <2> QED BY <1>14, <2>1, <2>2 DEF RecordDelivered, platform, store, health
<1>15. ASSUME NEW p \in Procs, FinishBatch(p) PROVE TypeOK'
  <2>1. pc' \in [Procs -> Steps] /\ running' \in Procs \cup {None}
    BY <1>15 DEF FinishBatch, Await, Goto, Steps
  <2>2. degraded' \in BOOLEAN
    BY <1>15, Zenon DEF FinishBatch
  <2>3. retry' \in {RetryBase} \cup 1 .. RetryMax
    BY <1>15 DEF FinishBatch
  <2> QED BY <1>15, <2>1, <2>2, <2>3 DEF FinishBatch, platform, store
<1>16. ASSUME NEW p \in Procs, StoreFails(p) PROVE TypeOK'
  <2>1. budget' \in [Mishaps -> Nat]
    BY <1>16, <1>b DEF StoreFails, Mishaps
  <2>2. (IF p = Worker THEN "dead" ELSE "idle") \in Steps
    BY DEF Steps, WorkerSteps
  <2>3. pc' \in [Procs -> Steps] /\ running' \in Procs \cup {None}
    BY <1>16, <2>2 DEF StoreFails, Await, Goto
  <2>4. lockq' \in Seq(Procs)
    <3>1. CASE pc[p] = "saving"
      <4>1. Release
        BY <3>1, <1>16 DEF StoreFails
      <4> QED BY <4>1, <3>1, <1>r
    <3>2. CASE pc[p] # "saving"
      BY <3>2, <1>16 DEF StoreFails
    <3> QED BY <3>1, <3>2
  <2>5. batch' \in [Procs -> SUBSET Positions]
    BY <1>16 DEF StoreFails
  <2> QED BY <1>16, <2>1, <2>3, <2>4, <2>5 DEF StoreFails, platform, store, health
<1>17. ASSUME NEW p \in Procs, NEW limit, IssueGet(p, limit) PROVE TypeOK'
  <2>1. limit \in Nat
    BY <1>17, LimitAssumption DEF IssueGet
  <2>2. [from |-> offset, limit |-> Clamp(limit)] \in
           [from : 0 .. Len(Updates), limit : 1 .. MaxLimit]
    BY <2>1, ClampRange
  <2>3. pc' \in [Procs -> Steps] /\ running' \in Procs \cup {None}
    BY <1>17 DEF IssueGet, Await, Goto, Steps, LockSteps
  <2>4. request' \in [Procs -> [from : 0 .. Len(Updates), limit : 1 .. MaxLimit]]
    BY <1>17, <2>2 DEF IssueGet
  <2> QED BY <1>17, <2>3, <2>4 DEF IssueGet, platform, store, health
<1>18. ASSUME NEW p \in Procs, NEW n \in 0 .. Len(Updates), ReceiveUpdates(p, n)
       PROVE  TypeOK'
  <2>1. request[p].from \in Nat /\ offset' \in 0 .. Len(Updates)
    BY <1>18, <1>l DEF ReceiveUpdates
  <2>2. {i \in request[p].from + 1 .. offset' : IsText(i)} \subseteq Positions
    BY <1>l, <2>1 DEF Positions
  <2>3. batch' \in [Procs -> SUBSET Positions]
    BY <1>18, <2>2 DEF ReceiveUpdates
  <2>4. pc' \in [Procs -> Steps] /\ running' \in Procs \cup {None}
    BY <1>18 DEF ReceiveUpdates, Stay, Goto, Steps, LockSteps
  <2> QED BY <1>18, <2>1, <2>3, <2>4
          DEF ReceiveUpdates, platform, store, health
<1>19. CASE Arrive
  BY <1>19, <1>l DEF Arrive, store, health
<1>20. ASSUME NEW m \in Msgs, Accept(m) PROVE TypeOK'
  BY <1>20 DEF Accept, store, health
<1>21. CASE EndBackoff
  <2>1. retry' \in 1 .. RetryMax
    BY <1>21, RetryAssumption DEF EndBackoff, Least
  <2>2. pc' \in [Procs -> Steps] /\ running' \in Procs \cup {None}
    BY <1>21 DEF EndBackoff, Await, Goto, Steps
  <2> QED BY <1>21, <2>1, <2>2 DEF EndBackoff, platform, store
<1>22. CASE Restart
  <2>1. budget' \in [Mishaps -> Nat]
    BY <1>22, <1>b DEF Restart, Mishaps
  <2>2. /\ pc' \in [Procs -> Steps] /\ running' \in Procs \cup {None}
        /\ batch' \in [Procs -> SUBSET Positions] /\ lockq' \in Seq(Procs)
    BY <1>22 DEF Restart, Steps
  <2>3. /\ degraded' \in BOOLEAN /\ offset' \in 0 .. Len(Updates)
        /\ retry' \in {RetryBase} \cup 1 .. RetryMax
    BY <1>22 DEF Restart
  <2> QED BY <1>22, <2>1, <2>2, <2>3 DEF Restart, platform, store
<1>23. CASE ForgetProfile
  <2>1. budget' \in [Mishaps -> Nat]
    BY <1>23, <1>b DEF ForgetProfile, Mishaps
  <2>2. savedOffset' \in 0 .. Len(Updates)
    BY <1>23, <1>l DEF ForgetProfile
  <2> QED BY <1>23, <2>1, <2>2 DEF ForgetProfile, platform, health
<1>24. CASE UNCHANGED vars
  BY <1>24 DEF vars, platform, store, health
<1>25. ASSUME NEW p \in Procs, Progress(p) PROVE TypeOK'
  BY <1>25, <1>17, <1>18, <1>2, <1>4, <1>5, <1>6, <1>7, <1>8, <1>10, <1>11,
     <1>14, <1>15 DEF Progress, Receive
<1>26. ASSUME NEW p \in Procs, Trouble(p) PROVE TypeOK'
  BY <1>26, <1>3, <1>9, <1>12, <1>13, <1>16 DEF Trouble
<1> QED BY <1>1, <1>19, <1>20, <1>21, <1>22, <1>23, <1>24, <1>25, <1>26 DEF Next

-----------------------------------------------------------------------------
\* poll_lock makes GET, offset and save one critical section: batches do not
\* overlap, and the offset only grows until the next restart.
LEMMA OffsetStep ==
    TypeOK /\ LockInv /\ OffsetInv /\ [Next]_vars
       => OffsetInv' /\ (offset' >= offset \/ Restart)
<1> SUFFICES ASSUME TypeOK, LockInv, OffsetInv, [Next]_vars
             PROVE  OffsetInv' /\ (offset' >= offset \/ Restart)
  OBVIOUS
<1>t. /\ offset \in Nat /\ pc \in [Procs -> Steps] /\ Worker \in Procs
      /\ request \in [Procs -> [from : 0 .. Len(Updates), limit : 1 .. MaxLimit]]
      /\ batch \in [Procs -> SUBSET Positions]
      /\ Len(Updates) \in Nat
  BY FeedAssumption DEF TypeOK, Procs
<1>1. ASSUME UNCHANGED << request, offset >>,
             \A q \in Procs : /\ batch'[q] \subseteq batch[q]
                              /\ pc'[q] = "receiving" => pc[q] = "receiving"
      PROVE  OffsetInv' /\ offset' >= offset
  BY <1>1, <1>t DEF OffsetInv, BatchesDisjoint
<1>2. ASSUME NEW p \in Procs, NEW s \in Steps \ {"receiving"}, Goto(p, s),
             UNCHANGED << request, offset, batch >>
      PROVE  OffsetInv' /\ offset' >= offset
  BY <1>1, <1>2, <1>t DEF Goto
<1>3. ASSUME NEW p \in Procs, NEW s \in Steps \ {"receiving"}, Goto(p, s),
             batch' = [batch EXCEPT ![p] = {}], UNCHANGED << request, offset >>
      PROVE  OffsetInv' /\ offset' >= offset
  BY <1>1, <1>3, <1>t DEF Goto
<1>4. ASSUME NEW p \in Procs, NEW l, IssueGet(p, l)
      PROVE  OffsetInv' /\ offset' >= offset
  <2>1. request'[p].from = offset
    BY <1>4, <1>t DEF IssueGet
  <2>2. \A q \in Procs \ {p} : request'[q] = request[q] /\ pc'[q] = pc[q]
    BY <1>4, <1>t DEF IssueGet, Await, Goto
  <2>3. UNCHANGED << offset, batch >>
    BY <1>4 DEF IssueGet
  <2>4. \A q \in Procs : pc'[q] = "receiving" => request'[q].from = offset'
    <3> SUFFICES ASSUME NEW q \in Procs, pc'[q] = "receiving"
                 PROVE  request'[q].from = offset'
      OBVIOUS
    <3>1. CASE q = p
      BY <3>1, <2>1, <2>3
    <3>2. CASE q # p
      BY <3>2, <2>2, <2>3 DEF OffsetInv
    <3> QED BY <3>1, <3>2
  <2> QED BY <2>3, <2>4, <1>t DEF OffsetInv, BatchesDisjoint
<1>5. ASSUME NEW p \in Procs, NEW n \in 0 .. Len(Updates), ReceiveUpdates(p, n)
      PROVE  OffsetInv' /\ offset' >= offset
  <2>1. offset' = offset + n /\ UNCHANGED request
    BY <1>5, <1>t DEF ReceiveUpdates, Resumes, OffsetInv
  <2>2. \A q \in Procs : pc'[q] # "receiving"
    BY <1>5, <1>t DEF ReceiveUpdates, Resumes, Stay, Goto, LockInv
  <2>3. \A i \in batch'[p] : i > offset /\ i <= offset'
    BY <1>5, <1>t, <2>1 DEF ReceiveUpdates, Resumes, OffsetInv
  <2>4. \A q \in Procs \ {p} : batch'[q] = batch[q]
    BY <1>5, <1>t DEF ReceiveUpdates
  <2>5. \A q \in Procs \ {p} : \A i \in batch'[q] : i \in Nat /\ i <= offset
    BY <2>4, <1>t DEF OffsetInv, Positions
  <2>6. \A q \in Procs \ {p} : batch'[q] \cap batch'[p] = {}
    BY <2>3, <2>5, <1>t
  <2>7. BatchesDisjoint'
    BY <2>4, <2>6 DEF BatchesDisjoint, OffsetInv
  <2>8. \A q \in Procs : \A i \in batch'[q] : i <= offset'
    BY <2>1, <2>3, <2>5, <1>t
  <2> QED BY <2>1, <2>2, <2>7, <2>8, <1>t DEF OffsetInv
<1>6. ASSUME NEW p \in Procs,
             SkipDuplicate(p) \/ Claim(p)
      PROVE  OffsetInv' /\ offset' >= offset
  BY <1>1, <1>6, <1>t DEF SkipDuplicate, Claim, Stay, Goto
<1>7. ASSUME NEW p \in Procs,
             Poll(p) \/ ReceiveNothing(p) \/ SaveOffset(p) \/ StartGraph(p)
             \/ GraphReturns(p) \/ Send(p) \/ SendReturns(p)
             \/ RecordDelivered(p) \/ FinishBatch(p)
      PROVE  OffsetInv' /\ offset' >= offset
  <2>1. UNCHANGED << request, offset, batch >>
    BY <1>7 DEF Poll, ReceiveNothing, SaveOffset, StartGraph, GraphReturns,
                Send, SendReturns, RecordDelivered, FinishBatch
  <2>2. \E s \in {"waiting", "next", "thinking", "ready", "sending", "sent",
                  "idle"} : Goto(p, s)
    BY <1>7 DEF Poll, ReceiveNothing, SaveOffset, StartGraph, GraphReturns,
                Send, SendReturns, RecordDelivered, FinishBatch, Stay, Await
  <2> QED BY <2>1, <2>2, <1>2 DEF Steps, LockSteps, MessageSteps
<1>8. ASSUME NEW p \in Procs, Trouble(p)
      PROVE  OffsetInv' /\ offset' >= offset
  <2>1. /\ UNCHANGED << request, offset >>
        /\ batch' = [batch EXCEPT ![p] = {}]
    BY <1>8 DEF Trouble, ReceiveFails, GraphFails, SendRefused, SendTimesOut,
                StoreFails, Fail
  <2>2. \E s \in {"backoff", "dead", "idle"} : Goto(p, s)
    BY <1>8 DEF Trouble, ReceiveFails, GraphFails, SendRefused, SendTimesOut,
                StoreFails, Fail, Await
  <2> QED BY <2>1, <2>2, <1>3 DEF Steps, WorkerSteps
<1>9. CASE EndBackoff
  BY <1>9, <1>2, <1>t DEF EndBackoff, Await, Steps
<1>10. CASE Restart
  BY <1>10, <1>t DEF Restart, OffsetInv, BatchesDisjoint
<1>11. CASE Arrive \/ (\E m \in Msgs : Accept(m)) \/ ForgetProfile
            \/ UNCHANGED vars
  BY <1>11, <1>1 DEF Arrive, Accept, ForgetProfile, vars
<1>12. ASSUME NEW p \in Procs, Progress(p)
       PROVE  OffsetInv' /\ offset' >= offset
  BY <1>12, <1>4, <1>5, <1>6, <1>7 DEF Progress, Receive
<1> QED BY <1>7, <1>8, <1>9, <1>10, <1>11, <1>12 DEF Next

-----------------------------------------------------------------------------
\* A claim is what entitles a coroutine to answer: every step keeps the owner
\* of a message unique and its replies at most one.
LEMMA ClaimStep == TypeOK /\ ClaimInv /\ [Next]_vars => ClaimInv'
<1> SUFFICES ASSUME TypeOK, ClaimInv, [Next]_vars PROVE ClaimInv'
  OBVIOUS
<1>t. /\ pc \in [Procs -> Steps] /\ cur \in [Procs -> Msgs \cup {None}]
      /\ replies \in [Msgs -> Nat] /\ posted \subseteq Msgs
      /\ processed \subseteq Msgs /\ Worker \in Procs
  BY DEF TypeOK, Procs
<1>b. \A p \in Procs : Busy(p) => cur[p] \in Msgs
  BY <1>t DEF ClaimInv
<1>1. ASSUME UNCHANGED << cur, processed, replies >>, posted' \subseteq posted,
             \A q \in Procs :
                /\ Busy(q)' => Busy(q)
                /\ pc'[q] \in {"claimed", "thinking", "ready"} =>
                      pc[q] \in {"claimed", "thinking", "ready"}
                /\ pc'[q] = "sent" => pc[q] = "sent"
      PROVE  ClaimInv'
  <2>1. ExclusiveWork' /\ AtMostOneReply'
    BY <1>1 DEF ClaimInv, ExclusiveWork, AtMostOneReply
  <2> QED BY <1>1, <2>1 DEF ClaimInv
<1>2. ASSUME NEW p \in Procs, NEW s \in Steps \ MessageSteps, Goto(p, s),
             UNCHANGED << cur, processed, replies >>, posted' \subseteq posted
      PROVE  ClaimInv'
  BY <1>1, <1>2, <1>t DEF Goto, Busy, MessageSteps
<1>3. ASSUME NEW p \in Procs, Claim(p) PROVE ClaimInv'
  <2> PICK k \in batch[p] : /\ Updates[k] \notin processed
                            /\ processed' = processed \cup {Updates[k]}
                            /\ cur' = [cur EXCEPT ![p] = Updates[k]]
    BY <1>3 DEF Claim
  <2> DEFINE m == Updates[k]
  <2>1. m \in Msgs
    BY FeedAssumption DEF TypeOK, Positions
  <2>2. /\ replies[m] = 0 /\ m \notin posted
        /\ UNCHANGED << replies, posted >>
    BY <1>3, <2>1 DEF Claim, ClaimInv, platform
  <2>3. /\ cur'[p] = m /\ pc'[p] = "claimed"
        /\ \A q \in Procs \ {p} : cur'[q] = cur[q] /\ pc'[q] = pc[q]
    BY <1>3, <1>t DEF Claim, Stay, Goto
  <2> HIDE DEF m
  <2>4. \A q \in Procs \ {p} : Busy(q)' => Busy(q) /\ cur'[q] # m
    BY <2>3 DEF ClaimInv, Busy, m
  <2>5. ExclusiveWork'
    BY <2>3, <2>4 DEF ClaimInv, ExclusiveWork
  <2>6. \A q \in Procs : Busy(q)' => cur'[q] \in processed'
    BY <2>3, <2>4 DEF ClaimInv, m
  <2>7. \A q \in Procs : pc'[q] \in {"claimed", "thinking", "ready"} =>
           replies'[cur'[q]] = 0 /\ cur'[q] \notin posted'
    BY <2>2, <2>3 DEF ClaimInv
  <2>8. \A q \in Procs : pc'[q] = "sent" => replies'[cur'[q]] = 1
    BY <2>2, <2>3 DEF ClaimInv
  <2>9. /\ \A i \in Msgs \ processed' : replies'[i] = 0 /\ i \notin posted'
        /\ \A i \in posted' : replies'[i] = 0
        /\ AtMostOneReply'
    BY <2>2 DEF ClaimInv, AtMostOneReply
  <2> QED BY <2>5, <2>6, <2>7, <2>8, <2>9 DEF ClaimInv
<1>4. ASSUME NEW p \in Procs, StartGraph(p) \/ GraphReturns(p) PROVE ClaimInv'
  BY <1>1, <1>4, <1>t DEF StartGraph, GraphReturns, Resumes, GoesOn, Stay,
                          Await, Goto, platform, store, Busy, MessageSteps
<1>5. ASSUME NEW p \in Procs, Send(p) PROVE ClaimInv'
  <2>1. /\ pc[p] = "ready" /\ Busy(p) /\ cur[p] \in Msgs
        /\ replies[cur[p]] = 0 /\ cur[p] \in processed
    BY <1>5, <1>b DEF Send, GoesOn, Busy, MessageSteps, ClaimInv
  <2>2. /\ posted' = posted \cup {cur[p]}
        /\ UNCHANGED << cur, processed, replies >>
        /\ pc'[p] = "sending"
        /\ \A q \in Procs \ {p} : pc'[q] = pc[q]
    BY <1>5, <1>t DEF Send, Await, Goto
  <2>3. \A q \in Procs : Busy(q)' => Busy(q)
    BY <2>1, <2>2 DEF Busy
  <2>4. \A q \in Procs : pc'[q] \in {"claimed", "thinking", "ready"} =>
           replies'[cur'[q]] = 0 /\ cur'[q] \notin posted'
    BY <2>1, <2>2 DEF ClaimInv, ExclusiveWork, Busy, MessageSteps
  <2>5. \A q \in Procs : pc'[q] = "sent" => replies'[cur'[q]] = 1
    BY <2>2 DEF ClaimInv
  <2>6. \A i \in Msgs \ processed' : replies'[i] = 0 /\ i \notin posted'
    BY <2>1, <2>2 DEF ClaimInv
  <2>7. \A i \in posted' : replies'[i] = 0
    BY <2>1, <2>2 DEF ClaimInv
  <2>8. ExclusiveWork' /\ AtMostOneReply'
    BY <2>2, <2>3 DEF ClaimInv, ExclusiveWork, AtMostOneReply
  <2>9. \A q \in Procs : Busy(q)' => cur'[q] \in processed'
    BY <2>2, <2>3 DEF ClaimInv
  <2> QED BY <2>4, <2>5, <2>6, <2>7, <2>8, <2>9 DEF ClaimInv
<1>6. ASSUME NEW p \in Procs, SendReturns(p) PROVE ClaimInv'
  <2>1. /\ pc[p] = "sending" /\ Busy(p) /\ cur[p] \in Msgs
        /\ replies[cur[p]] > 0
    BY <1>6, <1>b DEF SendReturns, Resumes, Busy, MessageSteps
  <2>2. replies[cur[p]] = 1
    BY <2>1, <1>t DEF ClaimInv, AtMostOneReply
  <2>3. /\ UNCHANGED << cur, processed, replies, posted >>
        /\ pc'[p] = "sent"
        /\ \A q \in Procs \ {p} : pc'[q] = pc[q]
    BY <1>6, <1>t DEF SendReturns, Stay, Goto, platform, store
  <2>4. \A q \in Procs : Busy(q)' => Busy(q)
    BY <2>1, <2>3 DEF Busy
  <2>5. \A q \in Procs : pc'[q] = "sent" => replies'[cur'[q]] = 1
    BY <2>2, <2>3 DEF ClaimInv
  <2>6. \A q \in Procs : pc'[q] \in {"claimed", "thinking", "ready"} =>
           replies'[cur'[q]] = 0 /\ cur'[q] \notin posted'
    BY <2>3 DEF ClaimInv
  <2>7. ExclusiveWork' /\ AtMostOneReply'
    BY <2>3, <2>4 DEF ClaimInv, ExclusiveWork, AtMostOneReply
  <2> QED BY <2>3, <2>4, <2>5, <2>6, <2>7 DEF ClaimInv
<1>7. ASSUME NEW m \in Msgs, Accept(m) PROVE ClaimInv'
  <2>1. /\ m \in posted /\ replies[m] = 0 /\ m \in processed
        /\ posted' = posted \ {m}
        /\ replies'[m] = 1 /\ \A i \in Msgs \ {m} : replies'[i] = replies[i]
        /\ UNCHANGED << cur, processed, pc >>
    BY <1>7, <1>t DEF Accept, ClaimInv, store
  <2>2. \A q \in Procs : Busy(q)' <=> Busy(q)
    BY <2>1 DEF Busy
  <2>3. \A q \in Procs : pc'[q] \in {"claimed", "thinking", "ready"} =>
           replies'[cur'[q]] = 0 /\ cur'[q] \notin posted'
    BY <2>1, <1>b DEF ClaimInv, Busy, MessageSteps
  <2>4. \A q \in Procs : pc'[q] = "sent" => replies'[cur'[q]] = 1
    BY <2>1, <1>b DEF ClaimInv, Busy, MessageSteps
  <2>5. \A i \in Msgs \ processed' : replies'[i] = 0 /\ i \notin posted'
    BY <2>1 DEF ClaimInv
  <2>6. \A i \in posted' : replies'[i] = 0
    BY <2>1, <1>t DEF ClaimInv
  <2>7. AtMostOneReply'
    BY <2>1, <1>t DEF ClaimInv, AtMostOneReply
  <2>8. ExclusiveWork' /\ \A q \in Procs : Busy(q)' => cur'[q] \in processed'
    BY <2>1, <2>2 DEF ClaimInv, ExclusiveWork
  <2> QED BY <2>3, <2>4, <2>5, <2>6, <2>7, <2>8 DEF ClaimInv
<1>8. ASSUME NEW p \in Procs,
             Poll(p) \/ (\E l \in PollLimits \cup {WorkerLimit} : IssueGet(p, l))
             \/ Receive(p) \/ ReceiveNothing(p) \/ SaveOffset(p)
             \/ RecordDelivered(p) \/ FinishBatch(p)
      PROVE  ClaimInv'
  <2>1. UNCHANGED << cur, processed, replies, posted >>
    BY <1>8 DEF Poll, IssueGet, Receive, ReceiveUpdates, ReceiveNothing,
                SaveOffset, RecordDelivered, FinishBatch, platform, store
  <2>2. \E s \in {"waiting", "receiving", "saving", "next", "idle"} : Goto(p, s)
    BY <1>8 DEF Poll, IssueGet, Receive, ReceiveUpdates, ReceiveNothing,
                SaveOffset, RecordDelivered, FinishBatch, Stay, Await
  <2> QED BY <2>1, <2>2, <1>2 DEF Steps, LockSteps, MessageSteps
<1>9. ASSUME NEW p \in Procs, Trouble(p) PROVE ClaimInv'
  <2>1. UNCHANGED << cur, processed, replies >> /\ posted' \subseteq posted
    BY <1>9 DEF Trouble, ReceiveFails, GraphFails, SendRefused, SendTimesOut,
                StoreFails, Fail, platform, store
  <2>2. \E s \in {"backoff", "dead", "idle"} : Goto(p, s)
    BY <1>9 DEF Trouble, ReceiveFails, GraphFails, SendRefused, SendTimesOut,
                StoreFails, Fail, Await
  <2> QED BY <2>1, <2>2, <1>2 DEF Steps, WorkerSteps, MessageSteps
<1>10. CASE EndBackoff
  BY <1>10, <1>2, <1>t DEF EndBackoff, Await, Steps, MessageSteps, platform,
                           store
<1>11. CASE Restart
  BY <1>11, <1>1, <1>t DEF Restart, platform, store, Busy, MessageSteps
<1>12. CASE Arrive \/ ForgetProfile \/ (\E p \in Procs : SkipDuplicate(p))
            \/ UNCHANGED vars
  <2>1. UNCHANGED << cur, processed, replies, posted, pc >>
    BY <1>12 DEF Arrive, ForgetProfile, SkipDuplicate, vars, platform, store
  <2> QED BY <2>1, <1>1 DEF Busy
<1>13. ASSUME NEW p \in Procs, Progress(p) PROVE ClaimInv'
  BY <1>13, <1>3, <1>4, <1>5, <1>6, <1>8, <1>12 DEF Progress
<1> QED BY <1>7, <1>8, <1>9, <1>10, <1>11, <1>12, <1>13 DEF Next

-----------------------------------------------------------------------------
\* Every step keeps the dashboard's timeline of a message truthful.
LEMMA TimelineStep ==
    TypeOK /\ ClaimInv /\ TimelineTruthful /\ [Next]_vars => TimelineTruthful'
<1> SUFFICES ASSUME TypeOK, ClaimInv, TimelineTruthful, [Next]_vars
             PROVE  TimelineTruthful'
  OBVIOUS
<1>t. /\ timeline \in [Msgs -> 0 .. 3] /\ replies \in [Msgs -> Nat]
      /\ cur \in [Procs -> Msgs \cup {None}]
  BY DEF TypeOK
<1>1. ASSUME UNCHANGED << timeline, replies >>, posted' \subseteq posted,
             processed \subseteq processed'
      PROVE  TimelineTruthful'
  BY <1>1 DEF TimelineTruthful
\* The message whose stage a coroutine records is claimed.
<1>b. ASSUME NEW p \in Procs, Busy(p)
      PROVE  cur[p] \in Msgs /\ cur[p] \in processed
  BY <1>b, <1>t DEF ClaimInv, TypeOK
<1>2. ASSUME NEW p \in Procs, NEW stage \in 1 .. 3, Busy(p), Record(p, stage),
             UNCHANGED << replies, processed >>,
             posted' \subseteq posted \cup {cur[p]},
             stage = 3 => replies[cur[p]] = 1,
             cur[p] \in posted' \/ replies[cur[p]] > 0 => stage >= 2
      PROVE  TimelineTruthful'
  <2>1. cur[p] \in Msgs /\ cur[p] \in processed
    BY <1>2, <1>b
  <2>2. /\ timeline'[cur[p]] = stage
        /\ \A i \in Msgs \ {cur[p]} : timeline'[i] = timeline[i]
    BY <1>2, <1>t, <2>1 DEF Record
  <2> SUFFICES ASSUME NEW i \in Msgs
               PROVE  /\ timeline'[i] = 3 => replies'[i] = 1
                      /\ i \in posted' \/ replies'[i] > 0 => timeline'[i] >= 2
                      /\ timeline'[i] > 0 => i \in processed'
    BY Zenon DEF TimelineTruthful
  <2>3. CASE i = cur[p]
    BY <2>1, <2>2, <2>3, <1>2
  <2>4. CASE i # cur[p]
    BY <2>2, <2>4, <1>2 DEF TimelineTruthful
  <2> QED BY <2>3, <2>4
<1>3. ASSUME NEW p \in Procs, StartGraph(p) PROVE TimelineTruthful'
  <2>1. Busy(p) /\ replies[cur[p]] = 0 /\ cur[p] \notin posted
    BY <1>3 DEF StartGraph, GoesOn, Busy, MessageSteps, ClaimInv
  <2> QED BY <1>2, <1>3, <2>1 DEF StartGraph, platform
<1>4. ASSUME NEW p \in Procs, Send(p) PROVE TimelineTruthful'
  <2>1. Busy(p)
    BY <1>4 DEF Send, GoesOn, Busy, MessageSteps
  <2> QED BY <1>2, <1>4, <2>1 DEF Send
<1>5. ASSUME NEW p \in Procs, RecordDelivered(p) PROVE TimelineTruthful'
  <2>1. Busy(p) /\ replies[cur[p]] = 1
    BY <1>5 DEF RecordDelivered, GoesOn, Busy, MessageSteps, ClaimInv
  <2> QED BY <1>2, <1>5, <2>1 DEF RecordDelivered, platform
<1>6. ASSUME NEW m \in Msgs, Accept(m) PROVE TimelineTruthful'
  <2>1. /\ m \in posted /\ replies[m] = 0
        /\ posted' = posted \ {m}
        /\ replies'[m] = 1 /\ \A i \in Msgs \ {m} : replies'[i] = replies[i]
        /\ UNCHANGED << timeline, processed >>
    BY <1>6, <1>t DEF Accept, ClaimInv, store
  <2> SUFFICES ASSUME NEW i \in Msgs
               PROVE  /\ timeline'[i] = 3 => replies'[i] = 1
                      /\ i \in posted' \/ replies'[i] > 0 => timeline'[i] >= 2
                      /\ timeline'[i] > 0 => i \in processed'
    BY Zenon DEF TimelineTruthful
  <2> QED BY <2>1 DEF TimelineTruthful
<1>7. ASSUME NEW p \in Procs, Claim(p) PROVE TimelineTruthful'
  BY <1>1, <1>7 DEF Claim, platform
<1>8. ASSUME NEW p \in Procs,
             Poll(p) \/ (\E l \in PollLimits \cup {WorkerLimit} : IssueGet(p, l))
             \/ Receive(p) \/ ReceiveNothing(p) \/ SaveOffset(p)
             \/ SkipDuplicate(p) \/ GraphReturns(p) \/ SendReturns(p)
             \/ FinishBatch(p) \/ Trouble(p)
      PROVE  TimelineTruthful'
  <2>1. UNCHANGED << timeline, replies, processed >> /\ posted' \subseteq posted
    BY <1>8 DEF Poll, IssueGet, Receive, ReceiveUpdates, ReceiveNothing,
                SaveOffset, SkipDuplicate, GraphReturns, SendReturns,
                FinishBatch, Trouble, ReceiveFails, GraphFails, SendRefused,
                SendTimesOut, StoreFails, Fail, platform, store
  <2> QED BY <2>1, <1>1
<1>9. CASE Arrive \/ EndBackoff \/ Restart \/ ForgetProfile \/ UNCHANGED vars
  <2>1. UNCHANGED << timeline, replies, processed, posted >>
    BY <1>9 DEF Arrive, EndBackoff, Restart, ForgetProfile, vars, platform, store
  <2> QED BY <2>1, <1>1
<1>10. ASSUME NEW p \in Procs, Progress(p) PROVE TimelineTruthful'
  BY <1>10, <1>3, <1>4, <1>5, <1>7, <1>8 DEF Progress
<1> QED BY <1>6, <1>8, <1>9, <1>10 DEF Next

-----------------------------------------------------------------------------
\* A mishap is used up, so that something has gone wrong from then on.
LEMMA SpendStep ==
    ASSUME TypeOK, SkipInv, NEW k \in Mishaps, Spend(k)
    PROVE  (\A j \in Mishaps : budget'[j] <= Budget[j]) /\ ~NothingWrong'
<1>1. budget \in [Mishaps -> Nat] /\ Budget \in [Mishaps -> Nat]
  BY BudgetAssumption DEF TypeOK
<1>2. budget'[k] = budget[k] - 1 /\ budget[k] <= Budget[k]
  BY <1>1 DEF Spend, SkipInv
<1>3. budget'[k] # Budget[k] /\ budget'[k] <= Budget[k]
  BY <1>1, <1>2
<1> QED BY <1>1, <1>3 DEF Spend, SkipInv, NothingWrong

\* Only a coroutine that walks its batch has one.
LEMMA BatchStep == TypeOK /\ BatchInv /\ [Next]_vars => BatchInv'
<1> SUFFICES ASSUME TypeOK, BatchInv, [Next]_vars PROVE BatchInv'
  OBVIOUS
<1> USE DEF BatchInv
<1>t. /\ pc \in [Procs -> Steps] /\ batch \in [Procs -> SUBSET Positions]
      /\ Worker \in Procs
  BY DEF TypeOK, Procs
<1>1. ASSUME NEW p \in Procs, NEW s \in {"saving", "next"} \cup MessageSteps,
             Goto(p, s), \A q \in Procs \ {p} : batch'[q] = batch[q]
      PROVE  BatchInv'
  BY <1>1, <1>t DEF Goto
<1>2. ASSUME NEW p \in Procs, NEW s, Goto(p, s), batch' = [batch EXCEPT ![p] = {}]
      PROVE  BatchInv'
  BY <1>2, <1>t DEF Goto
<1>3. ASSUME NEW p \in Procs, NEW s, Goto(p, s), UNCHANGED batch, batch[p] = {}
      PROVE  BatchInv'
  BY <1>3, <1>t DEF Goto
<1>4. ASSUME NEW p \in Procs,
             Poll(p) \/ (\E l \in PollLimits \cup {WorkerLimit} : IssueGet(p, l))
             \/ FinishBatch(p)
      PROVE  BatchInv'
  <2>1. UNCHANGED batch /\ batch[p] = {}
    BY <1>4 DEF Poll, IssueGet, FinishBatch, Resumes, MessageSteps
  <2>2. \E s \in {"waiting", "receiving", "idle"} : Goto(p, s)
    BY <1>4 DEF Poll, IssueGet, FinishBatch, Await
  <2> QED BY <2>1, <2>2, <1>3
<1>5. ASSUME NEW p \in Procs,
             Receive(p) \/ ReceiveNothing(p) \/ SaveOffset(p) \/ Claim(p)
             \/ StartGraph(p) \/ GraphReturns(p) \/ Send(p) \/ SendReturns(p)
             \/ RecordDelivered(p)
      PROVE  BatchInv'
  <2>1. \A q \in Procs \ {p} : batch'[q] = batch[q]
    BY <1>5, <1>t DEF Receive, ReceiveUpdates, ReceiveNothing, SaveOffset, Claim,
                      StartGraph, GraphReturns, Send, SendReturns, RecordDelivered
  <2>2. \E s \in {"saving", "next"} \cup MessageSteps : Goto(p, s)
    BY <1>5 DEF Receive, ReceiveUpdates, ReceiveNothing, SaveOffset, Claim,
                StartGraph, GraphReturns, Send, SendReturns, RecordDelivered, Stay,
                Await, MessageSteps
  <2> QED BY <2>1, <2>2, <1>1
<1>6. ASSUME NEW p \in Procs, SkipDuplicate(p) PROVE BatchInv'
  BY <1>6, <1>t DEF SkipDuplicate
<1>7. ASSUME NEW p \in Procs, Trouble(p) PROVE BatchInv'
  BY <1>7, <1>2 DEF Trouble, ReceiveFails, GraphFails, SendRefused, SendTimesOut,
                    StoreFails, Fail, Await
<1>8. CASE EndBackoff
  <2>1. batch[Worker] = {}
    BY <1>8, <1>t DEF EndBackoff, Resumes, MessageSteps
  <2> QED BY <1>8, <2>1, <1>t, <1>3 DEF EndBackoff, Await
<1>9. CASE Restart
  BY <1>9 DEF Restart
<1>10. CASE Arrive \/ (\E m \in Msgs : Accept(m)) \/ ForgetProfile
            \/ UNCHANGED vars
  BY <1>10 DEF Arrive, Accept, ForgetProfile, vars
<1> QED BY <1>4, <1>5, <1>6, <1>7, <1>8, <1>9, <1>10 DEF Next, Progress

\* As long as nothing goes wrong, no text falls between the offset and a batch.
LEMMA SkipStep ==
    TypeOK /\ OffsetInv /\ BatchInv /\ SkipInv /\ [Next]_vars => SkipInv'
<1> SUFFICES ASSUME TypeOK, OffsetInv, BatchInv, SkipInv, [Next]_vars
             PROVE  SkipInv'
  OBVIOUS
<1>t. /\ batch \in [Procs -> SUBSET Positions] /\ offset \in Nat
      /\ savedOffset \in Nat /\ Len(Updates) \in Nat
      /\ request \in [Procs -> [from : 0 .. Len(Updates), limit : 1 .. MaxLimit]]
  BY FeedAssumption DEF TypeOK
<1> DEFINE Held(n) == Updates[n] \in processed \/ \E p \in Procs : n \in batch[p]
\* It is enough to say what an ordinary step does to the offsets and to a text
\* that is claimed or in a batch.
<1>1. ASSUME UNCHANGED budget,
             NothingWrong => savedOffset' <= offset',
             NothingWrong => \A n \in Positions : n <= offset' /\ IsText(n) =>
                                n <= offset \/ Held(n)',
             \A n \in Positions : Held(n) => Held(n)'
      PROVE  SkipInv'
  <2>1. \A k \in Mishaps : budget'[k] <= Budget[k]
    BY <1>1 DEF SkipInv
  <2>2. NothingWrong' => NothingWrong
    BY <1>1 DEF NothingWrong
  <2>3. NothingWrong => \A n \in Positions : n <= offset /\ IsText(n) => Held(n)
    BY DEF SkipInv
  <2>4. NothingWrong => \A n \in Positions : n <= offset' /\ IsText(n) => Held(n)'
    BY <1>1, <2>3
  <2> QED BY <1>1, <2>1, <2>2, <2>4 DEF SkipInv
<1>2. ASSUME NEW k \in Mishaps, Spend(k) PROVE SkipInv'
  BY <1>2, SpendStep DEF SkipInv
<1>3. ASSUME UNCHANGED << budget, offset, savedOffset, processed, batch >>
      PROVE  SkipInv'
  BY <1>3, <1>1 DEF SkipInv
<1>4. ASSUME NEW p \in Procs, NEW n \in 0 .. Len(Updates), ReceiveUpdates(p, n)
      PROVE  SkipInv'
  <2>1. /\ request[p].from = offset /\ offset' = offset + n
        /\ batch' = [batch EXCEPT ![p] = {i \in offset + 1 .. offset' : IsText(i)}]
        /\ UNCHANGED << budget, savedOffset, processed >>
    BY <1>4 DEF ReceiveUpdates, Resumes, OffsetInv, store
  <2>2. batch[p] = {}
    BY <1>4 DEF ReceiveUpdates, Resumes, BatchInv, MessageSteps
  <2>3. \A q \in Procs : batch[q] \subseteq batch'[q]
    BY <2>1, <2>2, <1>t
  <2>4. \A i \in Positions : i <= offset' /\ IsText(i) =>
           i <= offset \/ i \in batch'[p]
    BY <2>1, <1>t DEF Positions
  <2>5. \A i \in Positions : i <= offset' /\ IsText(i) => i <= offset \/ Held(i)'
    BY <2>4
  <2>6. \A i \in Positions : Held(i) => Held(i)'
    BY <2>1, <2>3
  <2>7. NothingWrong => savedOffset' <= offset'
    BY <2>1, <1>t DEF SkipInv
  <2> QED BY <1>1, <2>1, <2>5, <2>6, <2>7
<1>5. ASSUME NEW p \in Procs, SaveOffset(p) PROVE SkipInv'
  BY <1>5, <1>1, <1>t DEF SaveOffset
<1>6. ASSUME NEW p \in Procs, Claim(p) \/ SkipDuplicate(p) PROVE SkipInv'
  <2>1. PICK k \in batch[p] : /\ Updates[k] \in processed'
                              /\ batch' = [batch EXCEPT ![p] = @ \ {k}]
    BY <1>6 DEF Claim, SkipDuplicate, store
  <2>2. /\ processed \subseteq processed'
        /\ UNCHANGED << budget, offset, savedOffset >>
    BY <1>6 DEF Claim, SkipDuplicate, store
  <2>3. \A n \in Positions : Held(n) => Held(n)'
    BY <2>1, <2>2, <1>t
  <2> QED BY <1>1, <2>2, <2>3 DEF SkipInv
<1>7. ASSUME NEW p \in Procs,
             Poll(p) \/ (\E l \in PollLimits \cup {WorkerLimit} : IssueGet(p, l))
             \/ ReceiveNothing(p) \/ StartGraph(p) \/ GraphReturns(p) \/ Send(p)
             \/ SendReturns(p) \/ RecordDelivered(p) \/ FinishBatch(p)
      PROVE  SkipInv'
  BY <1>7, <1>3 DEF Poll, IssueGet, ReceiveNothing, StartGraph, GraphReturns, Send,
                    SendReturns, RecordDelivered, FinishBatch, store
<1>8. ASSUME NEW p \in Procs, Trouble(p) PROVE SkipInv'
  <2>1. Spend("upstream") \/ Spend("store")
    BY <1>8 DEF Trouble, ReceiveFails, GraphFails, SendRefused, SendTimesOut,
                StoreFails, Fail
  <2> QED BY <2>1, <1>2 DEF Mishaps
<1>9. CASE Restart \/ ForgetProfile
  BY <1>9, <1>2 DEF Restart, ForgetProfile, Mishaps
<1>10. CASE Arrive \/ (\E m \in Msgs : Accept(m)) \/ EndBackoff \/ UNCHANGED vars
  BY <1>10, <1>3 DEF Arrive, Accept, EndBackoff, vars, store
<1>11. ASSUME NEW p \in Procs, Progress(p) PROVE SkipInv'
  BY <1>11, <1>4, <1>5, <1>6, <1>7 DEF Progress, Receive
<1> QED BY <1>7, <1>8, <1>9, <1>10, <1>11 DEF Next

\* What is left of a batch lies behind the message that is worked on.
LEMMA TurnStep ==
    TypeOK /\ LockInv /\ OffsetInv /\ ClaimInv /\ TurnInv /\ [Next]_vars => TurnInv'
<1> SUFFICES ASSUME TypeOK, LockInv, OffsetInv, ClaimInv, TurnInv, [Next]_vars
             PROVE  TurnInv'
  OBVIOUS
<1>t. /\ pc \in [Procs -> Steps] /\ batch \in [Procs -> SUBSET Positions]
      /\ cur \in [Procs -> Msgs \cup {None}] /\ Worker \in Procs
      /\ offset \in Nat /\ offset' \in Nat
  BY TypeStep, FeedAssumption DEF TypeOK, Procs
<1>o. (\A n \in Positions : n <= offset => n <= offset') \/ Restart
  BY OffsetStep, <1>t DEF Positions
<1>1. ASSUME UNCHANGED cur,
             \A q \in Procs : Busy(q)' => Busy(q) /\ batch'[q] \subseteq batch[q]
      PROVE  TurnInv'
  <2>1. CASE Restart
    BY <2>1 DEF Restart, TurnInv, Busy, MessageSteps
  <2>2. CASE \A n \in Positions : n <= offset => n <= offset'
    BY <1>1, <2>2 DEF TurnInv
  <2> QED BY <1>o, <2>1, <2>2
<1>2. ASSUME NEW p \in Procs, NEW s, Goto(p, s),
             s \in MessageSteps => Busy(p) /\ batch'[p] \subseteq batch[p],
             \A q \in Procs \ {p} : batch'[q] = batch[q],
             UNCHANGED cur
      PROVE  TurnInv'
  <2>1. \A q \in Procs : Busy(q)' => Busy(q) /\ batch'[q] \subseteq batch[q]
    BY <1>2, <1>t DEF Goto, Busy
  <2> QED BY <2>1, <1>2, <1>1
<1>3. ASSUME NEW p \in Procs, Claim(p) PROVE TurnInv'
  <2> PICK k \in batch[p] : /\ NextInBatch(p, k)
                            /\ cur' = [cur EXCEPT ![p] = Updates[k]]
                            /\ batch' = [batch EXCEPT ![p] = @ \ {k}]
    BY <1>3 DEF Claim
  <2>1. /\ k \in Positions /\ Updates[k] = cur'[p]
        /\ \A i \in batch'[p] : k < i
    BY <1>t DEF NextInBatch, Positions
  <2>0. k <= offset' /\ UNCHANGED offset
    BY <1>3 DEF Claim, OffsetInv
  <2>2. \A q \in Procs \ {p} : /\ pc'[q] = pc[q] /\ cur'[q] = cur[q]
                               /\ batch'[q] = batch[q]
    BY <1>3, <1>t DEF Claim, Stay, Goto
  <2> QED BY <2>0, <2>1, <2>2 DEF TurnInv, Busy
<1>4. ASSUME NEW p \in Procs,
             Poll(p) \/ (\E l \in PollLimits \cup {WorkerLimit} : IssueGet(p, l))
             \/ Receive(p) \/ ReceiveNothing(p) \/ SaveOffset(p)
             \/ RecordDelivered(p) \/ FinishBatch(p) \/ Trouble(p)
      PROVE  TurnInv'
  <2>1. /\ UNCHANGED cur
        /\ \A q \in Procs \ {p} : batch'[q] = batch[q]
    BY <1>4, <1>t DEF Poll, IssueGet, Receive, ReceiveUpdates, ReceiveNothing,
                SaveOffset, RecordDelivered, FinishBatch, Trouble, ReceiveFails,
                GraphFails, SendRefused, SendTimesOut, StoreFails, Fail
  <2>2. \E s \in {"waiting", "receiving", "saving", "next", "idle", "backoff",
                  "dead"} : Goto(p, s)
    BY <1>4 DEF Poll, IssueGet, Receive, ReceiveUpdates, ReceiveNothing, SaveOffset,
                RecordDelivered, FinishBatch, Trouble, ReceiveFails, GraphFails,
                SendRefused, SendTimesOut, StoreFails, Fail, Stay, Await
  <2> QED BY <2>1, <2>2, <1>2 DEF MessageSteps
<1>5. ASSUME NEW p \in Procs,
             StartGraph(p) \/ GraphReturns(p) \/ Send(p) \/ SendReturns(p)
      PROVE  TurnInv'
  <2>1. UNCHANGED << cur, batch >> /\ Busy(p)
    BY <1>5 DEF StartGraph, GraphReturns, Send, SendReturns, Resumes, GoesOn, Busy,
                MessageSteps
  <2>2. \E s : Goto(p, s)
    BY <1>5 DEF StartGraph, GraphReturns, Send, SendReturns, Stay, Await
  <2> QED BY <2>1, <2>2, <1>2
<1>6. ASSUME NEW p \in Procs, SkipDuplicate(p) PROVE TurnInv'
  BY <1>6, <1>1, <1>t DEF SkipDuplicate, Busy
<1>7. CASE EndBackoff
  BY <1>7, <1>t, <1>2 DEF EndBackoff, Await, MessageSteps
<1>8. CASE Restart
  BY <1>8 DEF Restart, TurnInv, Busy, MessageSteps
<1>9. CASE Arrive \/ (\E m \in Msgs : Accept(m)) \/ ForgetProfile
           \/ UNCHANGED vars
  BY <1>9, <1>1 DEF Arrive, Accept, ForgetProfile, vars, Busy
<1> QED BY <1>3, <1>4, <1>5, <1>6, <1>7, <1>8, <1>9 DEF Next, Progress

\* A coroutine leaves a message that it has claimed with its answer, unless
\* something goes wrong.
LEMMA AnswerStep ==
    TypeOK /\ ClaimInv /\ SkipInv /\ AnswerInv /\ [Next]_vars => AnswerInv'
<1> SUFFICES ASSUME TypeOK, ClaimInv, SkipInv, AnswerInv, [Next]_vars
             PROVE  AnswerInv'
  OBVIOUS
<1>t. /\ pc \in [Procs -> Steps] /\ replies \in [Msgs -> Nat]
      /\ cur \in [Procs -> Msgs \cup {None}]
      /\ processed \subseteq Msgs /\ Worker \in Procs
  BY DEF TypeOK, Procs
<1>1. ASSUME UNCHANGED << budget, processed >>,
             \A m \in processed : replies[m] = 1 => replies'[m] = 1,
             \A q \in Procs : Busy(q) => \/ Busy(q)' /\ cur'[q] = cur[q]
                                        \/ replies'[cur[q]] = 1
      PROVE  AnswerInv'
  BY <1>1 DEF AnswerInv, NothingWrong
<1>2. ASSUME NEW k \in Mishaps, Spend(k) PROVE AnswerInv'
  BY <1>2, SpendStep DEF AnswerInv
<1>3. ASSUME NEW p \in Procs, NEW s, Goto(p, s),
             UNCHANGED << budget, processed, replies, cur >>,
             Busy(p) => s \in MessageSteps \/ replies[cur[p]] = 1
      PROVE  AnswerInv'
  <2>1. \A q \in Procs : Busy(q) => Busy(q)' \/ replies[cur[q]] = 1
    BY <1>3, <1>t DEF Goto, Busy
  <2> QED BY <1>1, <1>3, <2>1
<1>4. ASSUME NEW p \in Procs, Claim(p) PROVE AnswerInv'
  <2> PICK k \in batch[p] : /\ processed' = processed \cup {Updates[k]}
                            /\ cur' = [cur EXCEPT ![p] = Updates[k]]
    BY <1>4 DEF Claim
  <2>1. /\ Busy(p)' /\ cur'[p] = Updates[k] /\ ~Busy(p)
        /\ \A q \in Procs \ {p} : pc'[q] = pc[q] /\ cur'[q] = cur[q]
        /\ UNCHANGED << budget, replies >>
    BY <1>4, <1>t DEF Claim, GoesOn, Stay, Goto, Busy, MessageSteps, platform
  <2>2. \A q \in Procs : Busy(q) => Busy(q)' /\ cur'[q] = cur[q]
    BY <2>1 DEF Busy
  <2> QED BY <2>1, <2>2 DEF AnswerInv, NothingWrong
<1>5. ASSUME NEW p \in Procs,
             Poll(p) \/ (\E l \in PollLimits \cup {WorkerLimit} : IssueGet(p, l))
             \/ Receive(p) \/ ReceiveNothing(p) \/ SaveOffset(p) \/ FinishBatch(p)
      PROVE  AnswerInv'
  <2>1. UNCHANGED << budget, processed, replies, cur >> /\ ~Busy(p)
    BY <1>5 DEF Poll, IssueGet, Receive, ReceiveUpdates, ReceiveNothing, SaveOffset,
                FinishBatch, Resumes, GoesOn, Busy, MessageSteps, platform, store
  <2>2. \E s : Goto(p, s)
    BY <1>5 DEF Poll, IssueGet, Receive, ReceiveUpdates, ReceiveNothing, SaveOffset,
                FinishBatch, Stay, Await
  <2> QED BY <2>1, <2>2, <1>3
<1>6. ASSUME NEW p \in Procs,
             StartGraph(p) \/ GraphReturns(p) \/ Send(p) \/ SendReturns(p)
      PROVE  AnswerInv'
  <2>1. UNCHANGED << budget, processed, replies, cur >>
    BY <1>6 DEF StartGraph, GraphReturns, Send, SendReturns, platform, store
  <2>2. \E s \in MessageSteps : Goto(p, s)
    BY <1>6 DEF StartGraph, GraphReturns, Send, SendReturns, Stay, Await, MessageSteps
  <2> QED BY <2>1, <2>2, <1>3
<1>7. ASSUME NEW p \in Procs, RecordDelivered(p) PROVE AnswerInv'
  <2>1. replies[cur[p]] = 1
    BY <1>7 DEF RecordDelivered, GoesOn, ClaimInv
  <2> QED BY <1>7, <2>1, <1>3 DEF RecordDelivered, Stay, platform
<1>8. ASSUME NEW m \in Msgs, Accept(m) PROVE AnswerInv'
  <2>1. /\ replies[m] = 0 /\ \A i \in Msgs \ {m} : replies'[i] = replies[i]
        /\ UNCHANGED << budget, processed, pc, cur >>
    BY <1>8, <1>t DEF Accept, ClaimInv, store
  <2> QED BY <1>1, <1>t, <2>1 DEF Busy
<1>9. ASSUME NEW p \in Procs, Trouble(p) PROVE AnswerInv'
  <2>1. Spend("upstream") \/ Spend("store")
    BY <1>9 DEF Trouble, ReceiveFails, GraphFails, SendRefused, SendTimesOut,
                StoreFails, Fail
  <2> QED BY <2>1, <1>2 DEF Mishaps
<1>10. CASE Restart \/ ForgetProfile
  BY <1>10, <1>2 DEF Restart, ForgetProfile, Mishaps
<1>11. CASE EndBackoff
  BY <1>11, <1>3, <1>t DEF EndBackoff, Resumes, Await, Busy, MessageSteps, platform,
                           store
<1>12. CASE Arrive \/ (\E p \in Procs : SkipDuplicate(p)) \/ UNCHANGED vars
  <2>1. UNCHANGED << budget, processed, replies, cur, pc >>
    BY <1>12 DEF Arrive, SkipDuplicate, vars, platform, store
  <2> QED BY <2>1, <1>1 DEF Busy
<1>13. ASSUME NEW p \in Procs, Progress(p) PROVE AnswerInv'
  BY <1>13, <1>4, <1>5, <1>6, <1>7, <1>12 DEF Progress
<1> QED BY <1>5, <1>8, <1>9, <1>10, <1>11, <1>12, <1>13 DEF Next

\* The saved offset follows the adapter's before the lock is released.
LEMMA DurableStep ==
    TypeOK /\ SkipInv /\ OffsetDurable /\ [Next]_vars => OffsetDurable'
<1> SUFFICES ASSUME TypeOK, SkipInv, OffsetDurable, [Next]_vars
             PROVE  OffsetDurable'
  OBVIOUS
<1> USE DEF OffsetDurable
<1>t. /\ pc \in [Procs -> Steps] /\ budget \in [Mishaps -> Nat]
      /\ Budget \in [Mishaps -> Nat] /\ Worker \in Procs
  BY BudgetAssumption DEF TypeOK, Procs
<1>s. ASSUME NEW k \in {"store", "forget"}, Spend(k) PROVE OffsetDurable'
  <2>1. budget'[k] = budget[k] - 1 /\ budget[k] <= Budget[k]
    BY <1>s, <1>t DEF Spend, SkipInv, Mishaps
  <2>2. budget'[k] < Budget[k]
    BY <2>1, <1>t DEF Mishaps
  <2> QED BY <2>2
<1>b. \A k \in Mishaps : budget[k] < Budget[k] => budget'[k] < Budget[k]
  <2>1. ASSUME NEW j \in Mishaps, Spend(j)
        PROVE  \A k \in Mishaps : budget[k] < Budget[k] => budget'[k] < Budget[k]
    BY <2>1, <1>t DEF Spend
  <2>2. (\E j \in Mishaps : Spend(j)) \/ UNCHANGED budget
    BY DEF Next, Arrive, Accept, Poll, Progress, IssueGet, Receive, ReceiveUpdates,
           ReceiveNothing, SaveOffset, Claim, SkipDuplicate, StartGraph,
           GraphReturns, Send, SendReturns, RecordDelivered, FinishBatch, Trouble,
           ReceiveFails, GraphFails, SendRefused, SendTimesOut, StoreFails, Fail,
           EndBackoff, Restart, ForgetProfile, vars, Mishaps
  <2> QED BY <2>1, <2>2
<1>1. ASSUME UNCHANGED << savedOffset, offset >>,
             \A q \in Procs : pc[q] = "saving" => pc'[q] = "saving"
      PROVE  OffsetDurable'
  BY <1>1, <1>b DEF Mishaps
<1>2. ASSUME NEW p \in Procs, NEW s, Goto(p, s), pc[p] # "saving",
             UNCHANGED << savedOffset, offset >>
      PROVE  OffsetDurable'
  <2>1. \A q \in Procs : pc[q] = "saving" => pc'[q] = "saving"
    BY <1>2, <1>t DEF Goto
  <2> QED BY <2>1, <1>1, <1>2
<1>3. ASSUME NEW p \in Procs, Receive(p) PROVE OffsetDurable'
  BY <1>3, <1>t DEF Receive, ReceiveUpdates, Stay, Goto
<1>4. ASSUME NEW p \in Procs, SaveOffset(p) PROVE OffsetDurable'
  BY <1>4 DEF SaveOffset
<1>5. ASSUME NEW p \in Procs,
             Poll(p) \/ (\E l \in PollLimits \cup {WorkerLimit} : IssueGet(p, l))
             \/ ReceiveNothing(p) \/ Claim(p) \/ StartGraph(p)
             \/ GraphReturns(p) \/ Send(p) \/ SendReturns(p) \/ RecordDelivered(p)
             \/ FinishBatch(p) \/ ReceiveFails(p) \/ GraphFails(p)
             \/ SendRefused(p) \/ SendTimesOut(p)
      PROVE  OffsetDurable'
  <2>1. UNCHANGED << savedOffset, offset >> /\ pc[p] # "saving"
    BY <1>5 DEF Poll, IssueGet, ReceiveNothing, Claim, StartGraph,
                GraphReturns, Send, SendReturns, RecordDelivered, FinishBatch,
                ReceiveFails, GraphFails, SendRefused, SendTimesOut, Fail, Resumes,
                GoesOn, store
  <2>2. \E s : Goto(p, s)
    BY <1>5 DEF Poll, IssueGet, ReceiveNothing, Claim, StartGraph,
                GraphReturns, Send, SendReturns, RecordDelivered, FinishBatch,
                ReceiveFails, GraphFails, SendRefused, SendTimesOut, Fail, Stay,
                Await
  <2> QED BY <2>1, <2>2, <1>2
<1>6. ASSUME NEW p \in Procs, StoreFails(p) PROVE OffsetDurable'
  BY <1>6, <1>s DEF StoreFails
<1>7. CASE EndBackoff
  BY <1>7, <1>2, <1>t DEF EndBackoff, Resumes, Await, store
<1>8. CASE Restart
  BY <1>8 DEF Restart, store
<1>9. CASE ForgetProfile
  BY <1>9, <1>s DEF ForgetProfile
<1>10. CASE Arrive \/ (\E m \in Msgs : Accept(m))
            \/ (\E p \in Procs : SkipDuplicate(p)) \/ UNCHANGED vars
  BY <1>10, <1>1 DEF Arrive, Accept, SkipDuplicate, vars, store
<1> QED BY <1>3, <1>4, <1>5, <1>6, <1>7, <1>8, <1>9, <1>10
        DEF Next, Progress, Trouble

-----------------------------------------------------------------------------
\* The inductive invariant holds in every reachable state.
THEOREM Invariance == Spec => []DeliveryInv
<1>1. Init => DeliveryInv
  BY InitInv
<1>2. DeliveryInv /\ [Next]_vars => DeliveryInv'
  BY TypeStep, LockStep, OffsetStep, ClaimStep, TimelineStep, BatchStep, SkipStep,
     TurnStep, AnswerStep, DurableStep DEF DeliveryInv, FeedInv
<1> QED BY <1>1, <1>2, PTL DEF Spec

\* The variables keep their types, whatever fails and restarts.
THEOREM TypeCorrect == Spec => []TypeOK
<1>1. DeliveryInv => TypeOK
  BY DEF DeliveryInv
<1> QED BY <1>1, Invariance, PTL

\* No message is ever answered twice.
THEOREM NeverTwice == Spec => []AtMostOneReply
<1>1. DeliveryInv => AtMostOneReply
  BY DEF DeliveryInv, ClaimInv
<1> QED BY <1>1, Invariance, PTL

\* The worker and the poll requests never work on the same message at once.
THEOREM WorkIsExclusive == Spec => []ExclusiveWork
<1>1. DeliveryInv => ExclusiveWork
  BY DEF DeliveryInv, ClaimInv
<1> QED BY <1>1, Invariance, PTL

\* No update of the feed is in two batches at once.
THEOREM BatchesNeverOverlap == Spec => []BatchesDisjoint
<1>1. DeliveryInv => BatchesDisjoint
  BY DEF DeliveryInv, OffsetInv
<1> QED BY <1>1, Invariance, PTL

\* The dashboard is never told of a delivery that did not happen.
THEOREM TimelineIsTruthful == Spec => []TimelineTruthful
<1>1. DeliveryInv => TimelineTruthful
  BY DEF DeliveryInv
<1> QED BY <1>1, Invariance, PTL

\* Before a first mishap a coroutine overtakes only texts that are another's to
\* answer; those of its own batch it answers in turn, and none is left behind.
THEOREM OvertakingTakesTwo == Spec => []OvertakesOnlyOthers
<1>1. DeliveryInv => OvertakesOnlyOthers
  <2> SUFFICES ASSUME DeliveryInv, NothingWrong, NEW p \in Procs, Busy(p)
               PROVE  \E n \in Positions :
                        /\ Updates[n] = cur[p]
                        /\ \A i \in 1 .. n - 1 : IsText(i) =>
                              \/ Updates[i] = cur[p]
                              \/ replies[Updates[i]] = 1
                              \/ \E q \in Procs \ {p} :
                                    i \in batch[q] \/ (Busy(q) /\ cur[q] = Updates[i])
    BY DEF OvertakesOnlyOthers
  <2>1. PICK n \in Positions : /\ Updates[n] = cur[p] /\ n <= offset
                               /\ \A i \in batch[p] : n < i
    BY DEF DeliveryInv, FeedInv, TurnInv
  <2>2. ASSUME NEW i \in 1 .. n - 1, IsText(i)
        PROVE  \/ Updates[i] = cur[p] \/ replies[Updates[i]] = 1
               \/ \E q \in Procs \ {p} :
                     i \in batch[q] \/ (Busy(q) /\ cur[q] = Updates[i])
    <3>1. i \in Positions /\ i <= offset /\ i \notin batch[p]
      BY <2>1, FeedAssumption DEF DeliveryInv, TypeOK, Positions
    <3>2. Updates[i] \in processed \/ \E q \in Procs : i \in batch[q]
      BY <2>2, <3>1 DEF DeliveryInv, FeedInv, SkipInv
    <3>3. CASE Updates[i] \in processed
      BY <3>3 DEF DeliveryInv, FeedInv, AnswerInv
    <3> QED BY <3>1, <3>2, <3>3
  <2> QED BY <2>1, <2>2
<1> QED BY <1>1, Invariance, PTL

\* The saved offset passes no text that nobody answers, before a first mishap.
THEOREM NothingSkipped == Spec => []NoneSkippedUnlessWrong
<1>1. DeliveryInv => NoneSkippedUnlessWrong
  <2> SUFFICES ASSUME DeliveryInv, NothingWrong, NEW n \in Positions, Skipped(n)
               PROVE  FALSE
    BY DEF NoneSkippedUnlessWrong, NothingWrong
  <2>1. /\ n \in Nat /\ offset \in Nat /\ savedOffset \in Nat
        /\ savedOffset <= offset
    BY FeedAssumption DEF DeliveryInv, FeedInv, SkipInv, TypeOK, Positions
  <2>2. n <= offset /\ IsText(n)
    BY <2>1 DEF Skipped
  <2> QED BY <2>2 DEF DeliveryInv, FeedInv, SkipInv, Skipped
<1> QED BY <1>1, Invariance, PTL

\* A restart finds the offset the adapter had, unless the database failed or
\* the profile was forgotten.
THEOREM OffsetIsDurable == Spec => []OffsetDurable
<1>1. DeliveryInv => OffsetDurable
  BY DEF DeliveryInv, FeedInv
<1> QED BY <1>1, Invariance, PTL

\* Only a restart moves the adapter's offset back.
THEOREM OffsetGrows == Spec => OffsetMonotone
<1>1. DeliveryInv /\ [Next]_vars => offset' >= offset \/ Restart
  BY OffsetStep DEF DeliveryInv
<1> QED BY <1>1, Invariance, PTL DEF Spec, OffsetMonotone

\* Every step of the agent is a step of the at-most-once consumer or leaves
\* its view unchanged.
THEOREM Implementation == Spec => AtMostOnceConsumer
<1>1. Init => Consumer!Init
  BY DEF Init, Consumer!Init
<1>2. DeliveryInv /\ [Next]_vars => [Consumer!Next]_(Consumer!vars)
  <2> SUFFICES ASSUME DeliveryInv, [Next]_vars
               PROVE  Consumer!Next \/ UNCHANGED << processed, replies >>
    BY DEF Consumer!vars
  <2>1. ASSUME NEW p \in Procs, Claim(p) PROVE Consumer!Next
    <3> PICK k \in batch[p] : /\ Updates[k] \notin processed
                              /\ processed' = processed \cup {Updates[k]}
      BY <2>1 DEF Claim
    <3>1. Updates[k] \in Msgs
      BY FeedAssumption DEF DeliveryInv, TypeOK, Positions
    <3>2. UNCHANGED replies
      BY <2>1 DEF Claim, platform
    <3>3. Consumer!Claim(Updates[k])
      BY <3>2 DEF Consumer!Claim
    <3> QED BY <3>1, <3>3 DEF Consumer!Next
  <2>2. ASSUME NEW m \in Msgs, Accept(m) PROVE Consumer!Next
    <3>1. replies[m] = 0 /\ m \in processed
      BY <2>2 DEF Accept, DeliveryInv, ClaimInv
    <3>2. replies' = [replies EXCEPT ![m] = 1]
      BY <2>2, <3>1 DEF Accept
    <3>3. UNCHANGED processed
      BY <2>2 DEF Accept, store
    <3>4. Consumer!Answer(m)
      BY <3>1, <3>2, <3>3 DEF Consumer!Answer
    <3> QED BY <3>4 DEF Consumer!Next
  <2>3. ASSUME NEW p \in Procs,
               Poll(p) \/ Receive(p) \/ ReceiveNothing(p) \/ SaveOffset(p)
               \/ (\E l \in PollLimits \cup {WorkerLimit} : IssueGet(p, l))
               \/ SkipDuplicate(p) \/ StartGraph(p) \/ GraphReturns(p)
               \/ Send(p) \/ SendReturns(p) \/ RecordDelivered(p)
               \/ FinishBatch(p) \/ Trouble(p)
        PROVE  UNCHANGED << processed, replies >>
    BY <2>3 DEF Poll, IssueGet, Receive, ReceiveUpdates, ReceiveNothing,
                SaveOffset, SkipDuplicate, StartGraph, GraphReturns, Send,
                SendReturns, RecordDelivered, FinishBatch, Trouble,
                ReceiveFails, GraphFails, SendRefused, SendTimesOut,
                StoreFails, Fail, platform, store
  <2>4. ASSUME Arrive \/ EndBackoff \/ Restart \/ ForgetProfile
               \/ UNCHANGED vars
        PROVE  UNCHANGED << processed, replies >>
    BY <2>4 DEF Arrive, EndBackoff, Restart, ForgetProfile, vars, platform,
                store
  <2> QED BY <2>1, <2>2, <2>3, <2>4 DEF Next, Progress
<1> QED BY <1>1, <1>2, Invariance, PTL
        DEF Spec, AtMostOnceConsumer, Consumer!Spec
=============================================================================
