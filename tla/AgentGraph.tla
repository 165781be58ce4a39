----------------------------- MODULE AgentGraph -----------------------------
(***************************************************************************)
(* Runs of the agent graph next to each other, and next to the handler     *)
(* that forgets the personal memory.                                       *)
(*                                                                         *)
(* POST /webhooks/whatsapp, with the mock adapter, is a coroutine that     *)
(* never suspends: it holds the event loop from the claim of the id to the *)
(* reply.  The worker, with the official adapter, runs the graph in a      *)
(* thread after the claim.  POST /dashboard/chat runs it in a thread,      *)
(* under an id made of the address of its body, and POST /messages is a    *)
(* thread altogether, under the id its caller chose.                       *)
(* Threads interleave anywhere; every access to the store is its own       *)
(* transaction.  No handler writes profile, preferences or tasks: they     *)
(* have the contents they were given before, until they are forgotten.     *)
(***************************************************************************)
EXTENDS Naturals, FiniteSets

CONSTANTS
    Runs,         \* requests that run the graph
    Deployments,  \* the handler of each: see Kinds
    Ids,          \* message ids of the platform and of callers of /messages
    GivenId,      \* the id of each run that brings one
    ChatIds,      \* "dashboard-" and an address, disjoint from Ids
    Text,         \* what each message says, as far as the graph looks at it
    Models,       \* whether a model is configured: "none", "ollama"
    Decisions,    \* what the decision node may come to
    None,         \* no run, no summary, no table
    MaxForgets,   \* bound on calls of /memory/forget
    MaxCrashes    \* bound on restarts of the process

Routes == {"personal_assistant", "researcher", "developer"}

\* A service has either webhooks or a worker.
Kinds == {"webhook", "worker", "chat", "message"}

Texts == [keyword : Routes, task : BOOLEAN, profile : BOOLEAN]

ASSUME RunAssumption ==
    /\ Deployments \subseteq [Runs -> Kinds]
    /\ \A kind \in Deployments :
          {r \in Runs : kind[r] # "chat"} \subseteq DOMAIN GivenId
    /\ \A r \in DOMAIN GivenId : GivenId[r] \in Ids
    /\ Text \in [Runs -> Texts]
    /\ Ids \cap ChatIds = {}
ASSUME ChoiceAssumption == /\ Models \subseteq {"none", "ollama"}
                           /\ Decisions \subseteq Routes \cup {"review"}
ASSUME BoundAssumption ==
    MaxForgets \in Nat /\ MaxCrashes \in Nat

Tables == {"profile", "preferences", "tasks"}

\* A summary is known by the run that wrote it and what it tells.
Summary == [by : Runs, tells : Tables \cup {None}]

\* What can be forgotten is a table's contents or the summary of a run.
ASSUME NameAssumption ==
    /\ Runs \cap Tables = {}
    /\ None \notin Runs \cup Tables \cup Ids \cup ChatIds \cup Summary

VARIABLES
    Kind,       \* the handler of each run; it never changes
    model,      \* the configured model; it never changes
    memory,     \* the tables that have contents
    summaries,  \* the table summaries, by message id
    processed,  \* the table processed_events
    pc,         \* where each run is
    id,         \* message.message_id of each run
    said,       \* the table whose contents the response tells, or None
    loop,       \* the webhook that holds the event loop, or None
    forgotten,  \* history: the contents and summaries that were deleted
    before,     \* history: what was forgotten when a run began
    forgets, crashes   \* counters for the bounds

store == << memory, summaries, processed >>
counters == << forgets, crashes >>
vars == << Kind, model, store, pc, id, said, loop, forgotten, before,
           counters >>
-----------------------------------------------------------------------------
InFlight == {"started", "loaded", "spoken", "persisted"}
Ended == {"replied", "duplicate", "failed", "gone"}

Init == /\ Kind \in Deployments
        /\ model \in Models
        /\ memory = Tables
        /\ summaries = [m \in Ids \cup ChatIds |-> None]
        /\ processed = {}
        /\ pc = [r \in Runs |-> "idle"]
        /\ id = [r \in Runs |-> None]
        /\ said = [r \in Runs |-> None]
        /\ loop = None
        /\ forgotten = {}
        /\ before = [r \in Runs |-> {}]
        /\ forgets = 0
        /\ crashes = 0

Goto(r, step) == pc' = [pc EXCEPT ![r] = step]

LoopFree == loop = None

Contents(table) == memory \cap {table}

Told(table) == IF table \in memory THEN table ELSE None

\* A request reaches its handler under message id m.
Begin(r, m) == /\ pc[r] = "idle"
               /\ LoopFree
               /\ id' = [id EXCEPT ![r] = m]
               /\ before' = [before EXCEPT ![r] = forgotten]
               /\ UNCHANGED << Kind, model, memory, summaries, said, forgotten,
                               counters >>

FromPlatform(r) == Kind[r] \in {"webhook", "worker"}

\* Seeded fault: the webhook runs the graph in a thread.
ClaimAndSuspend(r) == /\ FromPlatform(r)
                      /\ GivenId[r] \notin processed
                      /\ Begin(r, GivenId[r])
                      /\ processed' = processed \cup {GivenId[r]}
                      /\ Goto(r, "started")
                      /\ UNCHANGED loop

\* Seeded fault: the id is not looked up.
ClaimUnchecked(r) == /\ FromPlatform(r)
                     /\ Begin(r, GivenId[r])
                     /\ processed' = processed \cup {GivenId[r]}
                     /\ Goto(r, "started")
                     /\ loop' = IF Kind[r] = "webhook" THEN r ELSE None

\* A new id.  A webhook keeps the loop until it has replied; the worker goes on
\* in a thread.
Claim(r) == /\ FromPlatform(r)
            /\ GivenId[r] \notin processed
            /\ Begin(r, GivenId[r])
            /\ processed' = processed \cup {GivenId[r]}
            /\ Goto(r, "started")
            /\ loop' = IF Kind[r] = "webhook" THEN r ELSE None

Duplicate(r) == /\ FromPlatform(r)
                /\ GivenId[r] \in processed
                /\ Begin(r, GivenId[r])
                /\ Goto(r, "duplicate")
                /\ UNCHANGED << processed, loop >>

\* POST /messages.
Accept(r) == /\ Kind[r] = "message"
             /\ Begin(r, GivenId[r])
             /\ Goto(r, "started")
             /\ UNCHANGED << processed, loop >>

\* Seeded fault: the id says nothing of the body's address.
UsedOrNot(m) == TRUE

\* An address that no other request holds: id(body), while body lives.
Unused(m) == \A r \in Runs : pc[r] \in InFlight => id[r] # m

\* POST /dashboard/chat while there are no agents or providers.
Chat(r, m) == /\ Kind[r] = "chat"
              /\ Unused(m)
              /\ Begin(r, m)
              /\ Goto(r, "started")
              /\ UNCHANGED << processed, loop >>

\* The node load_memory.
Load(r) == /\ pc[r] = "started"
           /\ said' = [said EXCEPT ![r] = Told("profile")]
           /\ Goto(r, "loaded")
           /\ UNCHANGED << Kind, model, store, id, loop, forgotten, before,
                           counters >>

\* The nodes decision and supervisor.  "review" is a decision that needs
\* review, the error of a router that is absent or raises included.  It always
\* raises under a webhook: asyncio.run refuses to run in a thread with a loop.
Decided(r) == IF Kind[r] = "webhook" THEN {"review"} ELSE Decisions

Route(r, decision) == IF decision = "review" THEN Text[r].keyword ELSE decision

Tells(r, table) == said' = [said EXCEPT ![r] = table]

\* The assistant without a model lists the tasks or shows the profile that
\* was loaded; any other answer tells nothing.
Answers(r, decision) ==
    LET asks == model = "none" /\ Route(r, decision) = "personal_assistant"
    IN  \/ asks /\ Text[r].task /\ Tells(r, Told("tasks"))
        \/ asks /\ ~Text[r].task /\ Text[r].profile /\ UNCHANGED said
        \/ ~(asks /\ (Text[r].task \/ Text[r].profile)) /\ Tells(r, None)

\* The node role.  The nodes before it touch nothing that others see, so they
\* are part of this step.
Speak(r, decision) ==
    /\ pc[r] = "loaded"
    /\ Answers(r, decision)
    /\ Goto(r, "spoken")
    /\ UNCHANGED << Kind, model, store, id, loop, forgotten, before, counters >>

\* The handler ends; the event loop is free again if it was the webhook's.
Leave(r, how) == /\ loop \in {None, r}
                 /\ loop' = None
                 /\ Goto(r, how)
                 /\ said' = [said EXCEPT ![r] = None]
                 /\ UNCHANGED << Kind, model, store, id, forgotten, before, counters >>

\* The model raises what the node does not catch, such as a ResponseError.
Fail(r) == /\ pc[r] = "loaded"
           /\ model = "ollama"
           /\ Leave(r, "failed")

\* The node persist.
Persist(r) ==
    /\ pc[r] = "spoken"
    /\ summaries' = [summaries EXCEPT ![id[r]] = [by |-> r, tells |-> said[r]]]
    /\ Goto(r, "persisted")
    /\ UNCHANGED << Kind, model, memory, processed, id, said, loop,
                    forgotten, before, counters >>

Reply(r) == pc[r] = "persisted" /\ Leave(r, "replied")
-----------------------------------------------------------------------------
Written(m) == IF summaries[m] = None THEN {} ELSE {summaries[m].by}

\* There is something to delete; otherwise nothing changes.
Forgetting(items) ==
    /\ items # {}
    /\ forgets < MaxForgets
    /\ forgets' = forgets + 1
    /\ forgotten' = forgotten \cup items
    /\ UNCHANGED << Kind, model, processed, pc, id, said, loop, before,
                    crashes >>

\* Seeded fault: the tables of profile and preferences are swapped.
ForgetOther(table) ==
    /\ Forgetting(Contents(table))
    /\ memory' = memory \ {CASE table = "profile" -> "preferences"
                              [] table = "preferences" -> "profile"
                              [] OTHER -> table}
    /\ UNCHANGED summaries

\* POST /memory/forget/{category}, a thread.
Forget(table) == /\ Forgetting(Contents(table))
                 /\ memory' = memory \ {table}
                 /\ UNCHANGED summaries

ForgetSummaries == /\ Forgetting(UNION {Written(m) : m \in DOMAIN summaries})
                   /\ summaries' = [m \in DOMAIN summaries |-> None]
                   /\ UNCHANGED memory

Crash == /\ crashes < MaxCrashes
         /\ crashes' = crashes + 1
         /\ \E r \in Runs : pc[r] \in InFlight
         /\ pc' = [r \in Runs |-> IF pc[r] \in InFlight THEN "gone" ELSE pc[r]]
         /\ said' = [r \in Runs |-> None]
         /\ loop' = None
         /\ UNCHANGED << Kind, model, store, id, forgotten, before, forgets >>

Arrive(r) == \/ Claim(r) \/ Duplicate(r) \/ Accept(r)
             \/ \E m \in ChatIds : Chat(r, m)

Invoke(r) == \/ Load(r)
             \/ \E decision \in Decided(r) : Speak(r, decision)
             \/ Fail(r) \/ Persist(r)

Next == \/ \E r \in Runs : Arrive(r) \/ Invoke(r) \/ Reply(r)
        \/ \E table \in Tables : Forget(table)
        \/ ForgetSummaries \/ Crash

Spec == Init /\ [][Next]_vars
-----------------------------------------------------------------------------
Items == Tables \cup Runs

\* The values the variables take; the loop is held by a webhook under way.
TypeOK == /\ Kind \in Deployments
          /\ model \in Models
          /\ memory \subseteq Tables
          /\ summaries \in [Ids \cup ChatIds -> Summary \cup {None}]
          /\ processed \subseteq Ids
          /\ pc \in [Runs -> {"idle"} \cup InFlight \cup Ended]
          /\ id \in [Runs -> Ids \cup ChatIds \cup {None}]
          /\ said \in [Runs -> Tables \cup {None}]
          /\ loop \in Runs \cup {None}
          /\ \A r \in Runs : loop = r <=> Kind[r] = "webhook" /\ pc[r] \in InFlight
          /\ forgotten \subseteq Items
          /\ before \in [Runs -> SUBSET forgotten]
          /\ forgets \in 0 .. MaxForgets
          /\ crashes \in 0 .. MaxCrashes

\* What was forgotten before a request began does not come back through it,
\* neither in its reply nor in its summary, although other runs that read it
\* earlier are still at work and may write it into theirs (forget, memory.py 59
\* to 62).
StaysForgotten ==
    /\ \A r \in Runs : said[r] \notin before[r]
    /\ \A m \in DOMAIN summaries : \A r \in Written(m) :
          summaries[m].tells \notin before[r]

\* Whoever got a reply finds its summary, unless summaries were forgotten, also
\* after a crash and when another request used the same id since.  When a webhook,
\* the worker or a chat replies, it is its own: nobody else runs under that id,
\* but for callers of /messages, who choose theirs (api.py 333, 497 to 508 and
\* 519).
OwnSummary ==
    \A r \in Runs :
       /\ pc[r] = "replied" => \/ summaries[id[r]] # None
                              \/ \E q \in Runs \cap forgotten : id[q] = id[r]
       /\ pc[r] = "persisted" /\ Kind[r] # "message" =>
             \A q \in Written(id[r]) : q = r \/ Kind[q] = "message"

\* A sender that is told "duplicate" retried a request that is over: it was
\* answered, failed or lost, and not still being answered (api.py 519 to 532).
DuplicateMeansOver ==
    \A r \in Runs : pc[r] = "duplicate" =>
       \A q \in Runs : Kind[q] = "webhook" /\ id[q] = id[r] => pc[q] \in Ended

\* Webhooks are an at-most-once consumer, and so is the worker: an id of the
\* platform is claimed once and replied to at most once, whatever fails between
\* the claim and the reply (api.py 519 to 532, memory.py 77 to 83).
Repliers(m) == {r \in Runs : FromPlatform(r) /\ pc[r] = "replied" /\ id[r] = m}

Consumer == INSTANCE AtMostOnceReply
            WITH Msgs <- Ids, claimed <- processed,
                 answers <- [m \in Ids |-> Cardinality(Repliers(m))]
AtMostOnceWebhook == Consumer!Spec
-----------------------------------------------------------------------------
(***************************************************************************)
(* The inductive invariant behind these properties.                        *)
(***************************************************************************)
\* Contents that were forgotten are not there again; a request that has not come
\* in has no id and tells nothing; a summary is under the id of the run that
\* wrote it, in its last step before the reply.
MemoryInv ==
    /\ memory \cap forgotten = {}
    /\ \A r \in Runs : /\ pc[r] = "idle" <=> id[r] = None
                       /\ pc[r] = "idle" => said[r] = None
    /\ \A m \in DOMAIN summaries : \A r \in Written(m) :
          id[r] = m /\ pc[r] \in {"persisted"} \cup Ended

Claimed(r) == FromPlatform(r) /\ pc[r] \notin {"idle", "duplicate"}
Chatting(r) == Kind[r] = "chat" /\ pc[r] \in InFlight

\* Two updates of the platform under one id: the second is a duplicate.  Two
\* chats under one address are not at work together.
ClaimInv ==
    /\ \A r \in Runs : pc[r] # "idle" =>
          /\ FromPlatform(r) => id[r] \in processed
          /\ pc[r] = "duplicate" => FromPlatform(r)
          /\ Kind[r] = "chat" => id[r] \in ChatIds
    /\ \A q, r \in Runs :
          /\ Claimed(q) /\ Claimed(r) /\ id[q] = id[r] => q = r
          /\ Chatting(q) /\ Chatting(r) /\ id[q] = id[r] => q = r

\* A summary is there from its write on, not only once the reply is out.
SummaryInv ==
    \A r \in Runs : pc[r] \in {"persisted", "replied"} =>
       summaries[id[r]] # None \/ \E q \in Runs \cap forgotten : id[q] = id[r]

GraphInv == TypeOK /\ MemoryInv /\ ClaimInv /\ SummaryInv
=============================================================================
