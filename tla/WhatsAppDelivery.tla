-------------------------- MODULE WhatsAppDelivery --------------------------
(***************************************************************************)
(* How an update of the WhatsApp platform becomes a reply.                 *)
(*                                                                         *)
(* The background worker (whatsapp_worker) and the handlers of POST        *)
(* /agent/poll share one adapter with its update offset, one asyncio.Lock  *)
(* around the long poll, and one SQLite file that holds the saved offset,  *)
(* the claimed message ids and the dashboard's timeline.  After the long   *)
(* poll each of them walks its batch: claim the id, run the graph in a     *)
(* thread, post the reply.  They are coroutines of one event loop, so the  *)
(* code from one await to the next runs without the others: `running' is   *)
(* the coroutine inside such a stretch.  A crash may fall anywhere.        *)
(***************************************************************************)
EXTENDS Naturals, Sequences

CONSTANTS
    Msgs,              \* message ids
    NonText,           \* the ids whose update is not a text message
    Updates,           \* the platform's feed: update n is about Updates[n]
    Worker, Pollers,   \* the background worker, the /agent/poll requests
    None,              \* no coroutine, no message
    WorkerLimit,       \* the limit the worker asks for (50 in the code)
    PollLimits,        \* the limits callers of /agent/poll ask for
    MaxLimit,          \* the largest limit the adapter sends (100)
    RetryBase,         \* whatsapp_retry_base_seconds
    RetryMax,          \* whatsapp_retry_max_seconds
    Budget             \* bounds on faults, restarts and profile deletions

Procs == {Worker} \cup Pollers

Mishaps == {"upstream", "store", "restart", "forget"}

ASSUME FeedAssumption == Updates \in Seq(Msgs) /\ NonText \subseteq Msgs
ASSUME ProcsAssumption == Worker \notin Pollers /\ None \notin Procs \cup Msgs
ASSUME LimitAssumption == /\ WorkerLimit \in Nat /\ PollLimits \subseteq Nat
                          /\ MaxLimit \in Nat \ {0}
ASSUME RetryAssumption == RetryBase \in Nat \ {0} /\ RetryMax \in Nat \ {0}
ASSUME BudgetAssumption == Budget \in [Mishaps -> Nat]

VARIABLES
    arrived,      \* how many updates of the feed exist so far
    posted,       \* replies on their way to the platform, not yet accepted
    replies,      \* how many replies to each message the platform accepted
    offset,       \* adapter.offset, in memory
    savedOffset,  \* kv_memory['whatsapp_offset']
    processed,    \* the table processed_events
    timeline,     \* how far the dashboard's timeline of a message got:
                  \*   1 agent_selected, 2 response_ready, 3 message_delivered
    lockq,        \* poll_lock: the holder, then the waiters in FIFO order
    running,      \* the coroutine that holds the event loop, or None
    pc,           \* where each coroutine is
    request,      \* the offset and the limit of its GET /updates
    batch,        \* the feed positions of `messages' it has yet to look at
    cur,          \* the message it works on
    degraded,     \* worker_error is not None
    retry,        \* retry_seconds of the worker
    budget        \* mishaps still to come

platform == << arrived, posted, replies >>
store == << savedOffset, processed, timeline >>
health == << degraded, retry >>
vars == << platform, store, health, offset, lockq, running, pc, request,
           batch, cur, budget >>
-----------------------------------------------------------------------------
Positions == 1 .. Len(Updates)

IsText(n) == Updates[n] \notin NonText

Least(a, b) == IF a < b THEN a ELSE b

Clamp(limit) == Least(IF limit < 1 THEN 1 ELSE limit, MaxLimit)

LockSteps == {"waiting", "receiving", "saving"}
MessageSteps == {"claimed", "thinking", "ready", "sending", "sent"}
WorkerSteps == {"backoff", "dead"}
Steps == LockSteps \cup MessageSteps \cup WorkerSteps \cup {"idle", "next"}

Init == /\ arrived = 0
        /\ posted = {}
        /\ replies = [m \in Msgs |-> 0]
        /\ offset = 0
        /\ savedOffset = 0
        /\ processed = {}
        /\ timeline = [m \in Msgs |-> 0]
        /\ lockq = << >>
        /\ running = None
        /\ pc = [p \in Procs |-> "idle"]
        /\ request = [p \in Procs |-> [from |-> 0, limit |-> 1]]
        /\ batch = [p \in Procs |-> {}]
        /\ cur = [p \in Procs |-> None]
        /\ degraded = FALSE
        /\ retry = RetryBase
        /\ budget = Budget

\* Coroutine p resumes after an await, or goes on in its stretch.
Resumes(p, step) == pc[p] = step /\ running = None
GoesOn(p, step) == pc[p] = step /\ running = p

Goto(p, step) == pc' = [pc EXCEPT ![p] = step]

\* A step that goes on at `step' without awaiting, and one that awaits there.
Stay(p, step) == Goto(p, step) /\ running' = p
Await(p, step) == Goto(p, step) /\ running' = None

Spend(mishap) == /\ budget[mishap] > 0
                 /\ budget' = [budget EXCEPT ![mishap] = @ - 1]

Release == lockq' = Tail(lockq)

(***************************************************************************)
(* The platform.                                                           *)
(***************************************************************************)
Arrive == /\ arrived < Len(Updates)
          /\ arrived' = arrived + 1
          /\ UNCHANGED << posted, replies, store, health, offset, lockq,
                          running, pc, request, batch, cur, budget >>

\* A posted reply reaches the platform; its sender may have given up by then.
Accept(m) == /\ m \in posted
             /\ posted' = posted \ {m}
             /\ replies' = [replies EXCEPT ![m] = @ + 1]
             /\ UNCHANGED << arrived, store, health, offset, lockq, running,
                             pc, request, batch, cur, budget >>

(***************************************************************************)
(* The two ways out of an iteration that goes wrong.                       *)
(***************************************************************************)
\* An exception the worker's loop handles: worker_error is set and it sleeps.
\* A poll request answers 502 or 500.  What is left of the batch is dropped.
Fail(p) == /\ Spend("upstream")
           /\ Await(p, IF p = Worker THEN "backoff" ELSE "idle")
           /\ batch' = [batch EXCEPT ![p] = {}]
           /\ degraded' = (degraded \/ p = Worker)
           /\ UNCHANGED << retry, store, arrived, offset, request, cur >>

\* Seeded fault: poll_lock is not released on the way out.
StoreFailsKeepsLock(p) ==
    /\ \/ \E step \in {"saving", "claimed", "ready", "sent"} : GoesOn(p, step)
       \/ GoesOn(p, "next") /\ batch[p] # {}
       \/ Resumes(p, "thinking")
    /\ Spend("store")
    /\ Await(p, IF p = Worker THEN "dead" ELSE "idle")
    /\ batch' = [batch EXCEPT ![p] = {}]
    /\ UNCHANGED << platform, store, health, offset, lockq, request, cur >>

\* sqlite3.OperationalError: no handler of the worker's loop names it, so the
\* task ends, and worker_error stays as it was.
StoreFails(p) ==
    /\ \/ \E step \in {"saving", "claimed", "ready", "sent"} : GoesOn(p, step)
       \/ GoesOn(p, "next") /\ batch[p] # {}
       \/ Resumes(p, "thinking")
    /\ Spend("store")
    /\ IF pc[p] = "saving" THEN Release ELSE UNCHANGED lockq
    /\ Await(p, IF p = Worker THEN "dead" ELSE "idle")
    /\ batch' = [batch EXCEPT ![p] = {}]
    /\ UNCHANGED << platform, store, health, offset, request, cur >>

(***************************************************************************)
(* The long poll, under poll_lock.                                         *)
(***************************************************************************)
Poll(p) == /\ Resumes(p, "idle")
           /\ lockq' = Append(lockq, p)
           /\ Await(p, "waiting")
           /\ UNCHANGED << platform, store, health, offset, request, batch,
                           cur, budget >>

\* Seeded fault: the long poll does not wait for the lock.
IssueGetEarly(p, limit) ==
    /\ Resumes(p, "waiting")
    /\ limit \in (IF p = Worker THEN {WorkerLimit} ELSE PollLimits)
    /\ request' = [request EXCEPT ![p] = [from |-> offset,
                                          limit |-> Clamp(limit)]]
    /\ Await(p, "receiving")
    /\ UNCHANGED << platform, store, health, offset, lockq, batch, cur,
                    budget >>

IssueGet(p, limit) ==
    /\ Resumes(p, "waiting")
    /\ Head(lockq) = p
    /\ limit \in (IF p = Worker THEN {WorkerLimit} ELSE PollLimits)
    /\ request' = [request EXCEPT ![p] = [from |-> offset,
                                          limit |-> Clamp(limit)]]
    /\ Await(p, "receiving")
    /\ UNCHANGED << platform, store, health, offset, lockq, batch, cur,
                    budget >>

\* Seeded fault: the first update of the answer is left out of the batch.
ReceiveAllButFirst(p, n) ==
    /\ Resumes(p, "receiving")
    /\ n <= request[p].limit
    /\ request[p].from + n <= arrived
    /\ offset' = request[p].from + n
    /\ batch' = [batch EXCEPT ![p] = {i \in request[p].from + 2 .. offset' :
                                         IsText(i)}]
    /\ Stay(p, "saving")
    /\ UNCHANGED << platform, store, health, lockq, request, cur, budget >>

\* 200 with the n next updates and, as the platform is taken to send with every
\* such answer, an integer next_offset behind the last of them.
ReceiveUpdates(p, n) ==
    /\ Resumes(p, "receiving")
    /\ n <= request[p].limit
    /\ request[p].from + n <= arrived
    /\ offset' = request[p].from + n
    /\ batch' = [batch EXCEPT ![p] = {i \in request[p].from + 1 .. offset' :
                                         IsText(i)}]
    /\ Stay(p, "saving")
    /\ UNCHANGED << platform, store, health, lockq, request, cur, budget >>

\* 204, an empty body, or the 409 that is taken for a success: no next_offset.
ReceiveNothing(p) ==
    /\ Resumes(p, "receiving")
    /\ Release
    /\ Stay(p, "next")
    /\ UNCHANGED << platform, store, health, offset, request, batch, cur,
                    budget >>

ReceiveFails(p) ==
    /\ Resumes(p, "receiving")
    /\ Release
    /\ Fail(p)
    /\ UNCHANGED << posted, replies >>

\* Seeded fault: the offset of the request is saved, not that of the answer.
SaveOldOffset(p) ==
    /\ GoesOn(p, "saving")
    /\ savedOffset' = request[p].from
    /\ Release
    /\ Stay(p, "next")
    /\ UNCHANGED << platform, processed, timeline, health, offset, request,
                    batch, cur, budget >>

SaveOffset(p) ==
    /\ GoesOn(p, "saving")
    /\ savedOffset' = offset
    /\ Release
    /\ Stay(p, "next")
    /\ UNCHANGED << platform, processed, timeline, health, offset, request,
                    batch, cur, budget >>

(***************************************************************************)
(* process_messages, one message at a time.                                *)
(***************************************************************************)
\* Seeded fault: the batch is not walked in the order of the feed.
AnyInBatch(p, n) == n \in batch[p]

NextInBatch(p, n) == n \in batch[p] /\ \A i \in batch[p] : n <= i

\* Seeded fault: processed_events has no uniqueness constraint.
ClaimUnchecked(p) ==
    /\ GoesOn(p, "next")
    /\ \E n \in batch[p] :
          /\ NextInBatch(p, n)
          /\ processed' = processed \cup {Updates[n]}
          /\ cur' = [cur EXCEPT ![p] = Updates[n]]
          /\ batch' = [batch EXCEPT ![p] = @ \ {n}]
    /\ Stay(p, "claimed")
    /\ UNCHANGED << platform, savedOffset, timeline, health, offset, lockq,
                    request, budget >>

\* mark_event_if_new returns True.
Claim(p) ==
    /\ GoesOn(p, "next")
    /\ \E n \in batch[p] :
          /\ NextInBatch(p, n)
          /\ Updates[n] \notin processed
          /\ processed' = processed \cup {Updates[n]}
          /\ cur' = [cur EXCEPT ![p] = Updates[n]]
          /\ batch' = [batch EXCEPT ![p] = @ \ {n}]
    /\ Stay(p, "claimed")
    /\ UNCHANGED << platform, savedOffset, timeline, health, offset, lockq,
                    request, budget >>

\* Seeded fault: a duplicate ends the loop over the batch.
StopAtDuplicate(p) ==
    /\ GoesOn(p, "next")
    /\ \E n \in batch[p] : NextInBatch(p, n) /\ Updates[n] \in processed
    /\ batch' = [batch EXCEPT ![p] = {}]
    /\ UNCHANGED << platform, store, health, offset, lockq, running, pc,
                    request, cur, budget >>

\* mark_event_if_new returns False.
SkipDuplicate(p) ==
    /\ GoesOn(p, "next")
    /\ \E n \in batch[p] :
          /\ NextInBatch(p, n)
          /\ Updates[n] \in processed
          /\ batch' = [batch EXCEPT ![p] = @ \ {n}]
    /\ UNCHANGED << platform, store, health, offset, lockq, running, pc,
                    request, cur, budget >>

Record(p, stage) == timeline' = [timeline EXCEPT ![cur[p]] = stage]

\* message_received and agent_selected, then the graph runs in a thread.
StartGraph(p) ==
    /\ GoesOn(p, "claimed")
    /\ Record(p, 1)
    /\ Await(p, "thinking")
    /\ UNCHANGED << platform, savedOffset, processed, health, offset, lockq,
                    request, batch, cur, budget >>

GraphReturns(p) ==
    /\ Resumes(p, "thinking")
    /\ Stay(p, "ready")
    /\ UNCHANGED << platform, store, health, offset, lockq, request, batch,
                    cur, budget >>

\* ResponseError, or an exception the graph does not turn into a text.
GraphFails(p) ==
    /\ Resumes(p, "thinking")
    /\ Fail(p)
    /\ UNCHANGED << posted, replies, lockq >>

\* response_ready, then the POST leaves.
Send(p) ==
    /\ GoesOn(p, "ready")
    /\ Record(p, 2)
    /\ posted' = posted \cup {cur[p]}
    /\ Await(p, "sending")
    /\ UNCHANGED << arrived, replies, savedOffset, processed, health, offset,
                    lockq, request, batch, cur, budget >>

\* Seeded fault: the status of the answer is not looked at.
SendReturnsAnyStatus(p) ==
    /\ Resumes(p, "sending")
    /\ Stay(p, "sent")
    /\ UNCHANGED << platform, store, health, offset, lockq, request, batch,
                    cur, budget >>

\* 2xx, or the 409 by which the platform says that it has this reply already.
SendReturns(p) ==
    /\ Resumes(p, "sending")
    /\ cur[p] \notin posted /\ replies[cur[p]] > 0
    /\ Stay(p, "sent")
    /\ UNCHANGED << platform, store, health, offset, lockq, request, batch,
                    cur, budget >>

\* An HTTP error status: the platform did not take the reply.
SendRefused(p) ==
    /\ Resumes(p, "sending")
    /\ cur[p] \in posted
    /\ posted' = posted \ {cur[p]}
    /\ Fail(p)
    /\ UNCHANGED << replies, lockq >>

\* A timeout, a lost connection or an unreadable answer: the reply may have
\* been accepted, or be accepted later.
SendTimesOut(p) ==
    /\ Resumes(p, "sending")
    /\ Fail(p)
    /\ UNCHANGED << posted, replies, lockq >>

RecordDelivered(p) ==
    /\ GoesOn(p, "sent")
    /\ Record(p, 3)
    /\ Stay(p, "next")
    /\ UNCHANGED << platform, savedOffset, processed, health, offset, lockq,
                    request, batch, cur, budget >>

\* Seeded fault: worker_error is never cleared.
FinishBatchKeepsError(p) ==
    /\ GoesOn(p, "next")
    /\ batch[p] = {}
    /\ Await(p, "idle")
    /\ retry' = IF p = Worker THEN RetryBase ELSE retry
    /\ UNCHANGED << platform, store, degraded, offset, lockq, request, batch,
                    cur, budget >>

FinishBatch(p) ==
    /\ GoesOn(p, "next")
    /\ batch[p] = {}
    /\ Await(p, "idle")
    /\ degraded' = (degraded /\ p # Worker)
    /\ retry' = IF p = Worker THEN RetryBase ELSE retry
    /\ UNCHANGED << platform, store, offset, lockq, request, batch, cur,
                    budget >>

\* Seeded fault: the delay doubles without a limit.
EndBackoffUncapped ==
    /\ Resumes(Worker, "backoff")
    /\ retry' = 2 * retry
    /\ Await(Worker, "idle")
    /\ UNCHANGED << platform, store, degraded, offset, lockq, request, batch,
                    cur, budget >>

\* The sleep after a failure is over; only then does the delay double.
EndBackoff ==
    /\ Resumes(Worker, "backoff")
    /\ retry' = Least(2 * retry, RetryMax)
    /\ Await(Worker, "idle")
    /\ UNCHANGED << platform, store, degraded, offset, lockq, request, batch,
                    cur, budget >>

(***************************************************************************)
(* What may happen between any two steps.                                  *)
(***************************************************************************)
\* A crash, a kill or a shutdown, and a new process over the same database.
Restart ==
    /\ Spend("restart")
    /\ offset' = savedOffset
    /\ lockq' = << >>
    /\ running' = None
    /\ pc' = [p \in Procs |-> "idle"]
    /\ batch' = [p \in Procs |-> {}]
    /\ degraded' = FALSE
    /\ retry' = RetryBase
    /\ UNCHANGED << platform, store, request, cur >>

\* POST /memory/forget/profile, in a thread of its own: the table it empties
\* also holds the offset.
ForgetProfile ==
    /\ Spend("forget")
    /\ savedOffset' = 0
    /\ UNCHANGED << platform, processed, timeline, health, offset, lockq,
                    running, pc, request, batch, cur >>
-----------------------------------------------------------------------------
Receive(p) == \E n \in 0 .. Len(Updates) : ReceiveUpdates(p, n)

\* What the event loop, the thread pool and the HTTP client do for p when
\* nothing goes wrong.
Progress(p) == \/ \E limit \in PollLimits \cup {WorkerLimit} : IssueGet(p, limit)
               \/ Receive(p) \/ ReceiveNothing(p) \/ SaveOffset(p)
               \/ Claim(p) \/ SkipDuplicate(p)
               \/ StartGraph(p) \/ GraphReturns(p)
               \/ Send(p) \/ SendReturns(p) \/ RecordDelivered(p)
               \/ FinishBatch(p)

Trouble(p) == \/ ReceiveFails(p) \/ GraphFails(p)
              \/ SendRefused(p) \/ SendTimesOut(p)
              \/ StoreFails(p)

Next == \/ Arrive
        \/ \E m \in Msgs : Accept(m)
        \/ \E p \in Procs : Poll(p) \/ Progress(p) \/ Trouble(p)
        \/ EndBackoff
        \/ Restart
        \/ ForgetProfile

(***************************************************************************)
(* Fairness.  The event loop serves what is ready in FIFO order, so a      *)
(* coroutine that is ready again and again does get its turn, although     *)
(* the others keep taking theirs in between: strong fairness.  It assumes  *)
(* that a graph run and a request of the HTTP client end, that the         *)
(* platform accepts what it is sent, and that a platform which is asked    *)
(* again and again does not hide an update for ever.  The worker polls for *)
(* ever; nobody has to call /agent/poll, send a message or repair a fault. *)
(***************************************************************************)
Fairness == /\ \A p \in Procs : SF_vars(Progress(p))
            /\ \A p \in Procs :
                  SF_vars(\E n \in 1 .. Len(Updates) : ReceiveUpdates(p, n))
            /\ \A m \in Msgs : WF_vars(Accept(m))
            /\ SF_vars(Poll(Worker))
            /\ SF_vars(EndBackoff)

Spec == Init /\ [][Next]_vars

FairSpec == Spec /\ Fairness
-----------------------------------------------------------------------------
(***************************************************************************)
(* Properties.                                                             *)
(***************************************************************************)
\* The values the variables take; in particular the worker's delay stays
\* within the configured range (api.py 114 to 138).
TypeOK == /\ arrived \in 0 .. Len(Updates)
          /\ posted \subseteq Msgs
          /\ replies \in [Msgs -> Nat]
          /\ offset \in 0 .. Len(Updates)
          /\ savedOffset \in 0 .. Len(Updates)
          /\ processed \subseteq Msgs
          /\ timeline \in [Msgs -> 0 .. 3]
          /\ lockq \in Seq(Procs)
          /\ running \in Procs \cup {None}
          /\ pc \in [Procs -> Steps]
          /\ request \in [Procs -> [from : 0 .. Len(Updates),
                                    limit : 1 .. MaxLimit]]
          /\ batch \in [Procs -> SUBSET Positions]
          /\ cur \in [Procs -> Msgs \cup {None}]
          /\ degraded \in BOOLEAN
          /\ retry \in {RetryBase} \cup 1 .. RetryMax
          /\ budget \in [Mishaps -> Nat]

Busy(p) == pc[p] \in MessageSteps

\* No message is answered twice, whatever the interleaving of the worker and
\* the poll requests, however often the process restarts, the offset is lost
\* or the feed repeats an update (process_messages, api.py 79 to 111).
AtMostOneReply == \A m \in Msgs : replies[m] <= 1

\* No two coroutines ever work on the same message at the same time.
ExclusiveWork ==
    \A p, q \in Procs : p # q /\ Busy(p) /\ Busy(q) => cur[p] # cur[q]

\* No update is handed to two batches: GET, offset and save are one critical
\* section of poll_lock (api.py 118 and 545, whatsapp.py 76 to 95).
BatchesDisjoint ==
    \A p, q \in Procs : p # q => batch[p] \cap batch[q] = {}

\* The dashboard's timeline tells the truth: message_delivered is only said
\* of a reply the platform has, and a reply is never ahead of response_ready.
TimelineTruthful ==
    \A m \in Msgs : /\ timeline[m] = 3 => replies[m] = 1
                    /\ m \in posted \/ replies[m] > 0 => timeline[m] >= 2
                    /\ timeline[m] > 0 => m \in processed

\* The adapter's offset goes back at a restart only: a GET never answers with
\* updates that another coroutine has moved past in the meantime.
OffsetMonotone == [][offset' >= offset \/ Restart]_vars

\* An update at or below the saved offset has been claimed or is in a batch:
\* the platform will not send it again, so otherwise nobody answers it.
Skipped(n) == /\ n <= savedOffset
              /\ IsText(n)
              /\ Updates[n] \notin processed
              /\ \A p \in Procs : n \notin batch[p]

\* As long as nothing goes wrong the offset passes no text that nobody answers,
\* although two coroutines fetch batches of different sizes (receive, 75 to 96).
NoneSkippedUnlessWrong ==
    budget = Budget => \A n \in Positions : ~Skipped(n)

\* Unless the database fails or the profile is forgotten, the database holds the
\* offset the adapter polls from, except inside the critical section that moves
\* both (whatsapp.py 92 to 95).
OffsetDurable == \/ savedOffset = offset
                 \/ \E p \in Procs : pc[p] = "saving"
                 \/ budget["store"] < Budget["store"]
                 \/ budget["forget"] < Budget["forget"]

\* The alternative to a worker that polls: /readyz says that it is degraded.
\* Readiness looks at worker_error only (api.py 486 to 495).
ReadyMeansPolling == pc[Worker] = "dead" => degraded

NothingWrong == budget = Budget

\* As long as nothing goes wrong a message is worked on only when every text in
\* front of it in the feed has its answer, or is another coroutine's to answer.
\* Batches of the worker and of poll requests are worked on outside poll_lock, so
\* that their answers may overtake each other (api.py 120 and 563); the texts
\* of one batch are answered in turn, whatever was skipped as a duplicate, and no
\* text is left behind by everybody.
OvertakesOnlyOthers ==
    NothingWrong => \A p \in Procs : Busy(p) =>
       \E n \in Positions :
          /\ Updates[n] = cur[p]
          /\ \A i \in 1 .. n - 1 : IsText(i) =>
                \/ Updates[i] = cur[p]
                \/ replies[Updates[i]] = 1
                \/ \E q \in Procs \ {p} :
                      i \in batch[q] \/ (Busy(q) /\ cur[q] = Updates[i])

\* When nothing goes wrong every text message that arrives is answered.
EveryTextAnswered ==
    []NothingWrong => \A n \in Positions : IsText(n) =>
                         (n <= arrived ~> replies[Updates[n]] = 1)

\* Degradation is not for ever: once the upstream faults are over, the worker
\* that is still alive clears worker_error (api.py 136 to 139).
WorkerRecovers == []<>(~degraded \/ pc[Worker] = "dead")

\* Every poll request gets the lock, whatever fails in front of it: no path
\* out of the critical section keeps poll_lock.
PollServed == \A p \in Procs : pc[p] = "waiting" ~> pc[p] # "waiting"

\* The agent implements the at-most-once consumer of AtMostOnceReply.
Consumer == INSTANCE AtMostOnceReply WITH claimed <- processed,
                                          answers <- replies
AtMostOnceConsumer == Consumer!Spec
-----------------------------------------------------------------------------
(***************************************************************************)
(* The inductive invariant behind the safety properties above.             *)
(***************************************************************************)
\* A coroutine that waits is in the queue; one that polls is at its head.
LockInv == /\ \A p \in Procs : pc[p] = "waiting" =>
                 \E i \in 1 .. Len(lockq) : lockq[i] = p
           /\ \A p \in Procs : pc[p] \in {"receiving", "saving"} =>
                 Len(lockq) > 0 /\ lockq[1] = p

\* The GET in flight asks for what follows the offset, and every batch holds
\* updates the offset has passed.
OffsetInv == /\ \A p \in Procs : pc[p] = "receiving" => request[p].from = offset
             /\ \A p \in Procs : \A n \in batch[p] : n <= offset
             /\ BatchesDisjoint

\* A message has one owner from its claim on; nothing is posted before the
\* claim, and once it is posted it is never posted again.
ClaimInv == /\ \A p \in Procs : Busy(p) => cur[p] \in processed
            /\ ExclusiveWork
            /\ \A p \in Procs : pc[p] \in {"claimed", "thinking", "ready"} =>
                  replies[cur[p]] = 0 /\ cur[p] \notin posted
            /\ \A p \in Procs : pc[p] = "sent" => replies[cur[p]] = 1
            /\ \A m \in Msgs \ processed : replies[m] = 0 /\ m \notin posted
            /\ \A m \in posted : replies[m] = 0
            /\ AtMostOneReply

\* A coroutine that is not at its batch has none left, nor one that has failed.
BatchInv == \A p \in Procs :
               pc[p] \notin {"saving", "next"} \cup MessageSteps => batch[p] = {}

\* As long as nothing went wrong, a text that the adapter's offset has passed is
\* claimed or in a batch, and the saved offset is not ahead.
SkipInv == /\ \A k \in Mishaps : budget[k] <= Budget[k]
           /\ NothingWrong => /\ savedOffset <= offset
                              /\ \A n \in Positions :
                                    n <= offset /\ IsText(n) =>
                                       \/ Updates[n] \in processed
                                       \/ \E p \in Procs : n \in batch[p]

\* The message that a coroutine works on stands in the feed in front of what is
\* left of its batch.
TurnInv == \A p \in Procs : Busy(p) =>
              \E n \in Positions : /\ Updates[n] = cur[p] /\ n <= offset
                                   /\ \A i \in batch[p] : n < i

\* As long as nothing went wrong, a claimed message has its answer or a coroutine
\* that works on it.
AnswerInv == NothingWrong =>
                \A m \in processed : \/ replies[m] = 1
                                    \/ \E p \in Procs : Busy(p) /\ cur[p] = m

FeedInv == BatchInv /\ SkipInv /\ TurnInv /\ AnswerInv /\ OffsetDurable

DeliveryInv == TypeOK /\ LockInv /\ OffsetInv /\ ClaimInv /\ TimelineTruthful
               /\ FeedInv
=============================================================================
