# Formal model of the WhatsApp AI agent

TLA+ modules for the Python service in `app/` (FastAPI, one process, one SQLite
file) and the dashboard that edits it, TLC configurations that check them on
small instances, and TLAPS proofs of their invariants, of their action properties
and of the three refinements for every size of instance. Paths below are relative
to the repository; line numbers are in `PROJECT.json`.

## 1. The system

One process runs one asyncio event loop. On it live the WhatsApp worker (a task
started by `lifespan`), every `async def` handler, and the SSE generators.
Plain `def` handlers and `asyncio.to_thread` run in threads of a pool. All
durable state is one SQLite file, opened anew for each call; every store method
is one or two statements and its own transaction.

| Component | State | Operations | Talks to |
|---|---|---|---|
| WhatsApp delivery (`api.py` 67-149, 535-566, `whatsapp.py`) | `adapter.offset`, `poll_lock`, `worker_error`, retry delay; table rows `whatsapp_offset`, `processed_events` | worker loop, `POST /agent/poll`, receive, claim, run the graph, send | the platform (GET /updates, POST /messages), the graph, the event recorder |
| Agent graph (`graph.py`, `tools.py`, `policy.py`, `llm.py`) | none of its own; writes summaries | load memory, decide, route, answer, persist | memory, model, decision router |
| Personal memory (`memory.py`) | tables `kv_memory`, `preferences`, `summaries`, `tasks`, `processed_events` | save, get, forget, export, mark an event, save the offset | delivery, graph, admin handlers |
| Decision router (`decision_router.py`, `decision_backends.py`) | failure counters and open-until times per backend name | `decide` | Laya in a thread, two HTTP services |
| Event recorder (`events.py`, `dashboard_store.py`) | table `dashboard_events`, a queue per subscriber | record, subscribe | every handler, the browsers |
| Configuration (`api.py` 258-309, 362-429 and 467-480, `dashboard_store.py` 62-121 and 252-275) | tables of agents, providers, settings, audit | create, update, delete | dashboard, chat service |
| Chat service (`dashboard_services.py`, `providers.py`) | tables of conversations and messages | generate behind two endpoints | configuration, providers' HTTP APIs |
| Sessions (`auth.py`) | table of sessions | login, look up, revoke | all dashboard handlers |
| Dashboard client (`dashboard/app/page.tsx`) | forms, lists, selected conversation | load, save, delete, chat | all dashboard endpoints |
| MCP server (`mcp_decision_server.py`) | none | `review_required`, wrappers of `decide` | router |
| CLI, scripts, deployment | none | wrap `decide` and the graph | |

What is hard about it:

* *Interleaving.* Coroutines interleave at each `await` (long poll, lock, graph,
  POST, provider); threads of the pool interleave anywhere, between two
  statements of a handler and between the SELECT and the INSERT of a save.
* *Failure.* The offset, the claim, the reply and the timeline are four separate
  writes to three places; a restart or an error falls between any two. A POST
  that times out may still be accepted. An exception that the worker's loop does
  not name ends the worker.
* *Shared counters.* Concurrent `decide` calls share one breaker per backend.
* *Cursors and revisions.* A cursor of the event stream, an offset of the feed and
  a revision in a form are all read long before they are used; so is a session.
* *Late answers.* A browser acts on answers in the order in which they arrive: the
  cookie, the selected conversation and the messages shown are each set by
  whichever answer comes last, or by none when the connection is lost.

## 2. Modules

| Module | Models | Composes |
|---|---|---|
| `AtMostOnceReply` | abstract promise: an id is claimed once, a claimed id is answered at most once | |
| `WhatsAppDelivery` | platform, worker, poll requests, adapter, lock, offset, claims, timeline, crashes | refines `AtMostOnceReply` |
| `DecisionRouter` | concurrent `decide` calls, breaker, clock, failure classes, confidence | |
| `EventStream` | `record` from coroutines and threads, `subscribe`, clients with cursors | |
| `ConfigStore` | tabs that open, save and delete agents and providers and change the setting; revisions, secrets, audit | |
| `AgentGraph` | runs of the graph from the webhook, the worker, `/messages` and dashboard chats; summaries, `forget` | refines `AtMostOnceReply` |
| `ConversationLog` | abstract promise: messages are only added; one question per chat, then at most one reply; what is shown is stored | |
| `ChatService` | chats over the configured agents and providers, conversations, edits meanwhile | refines `ConversationLog` |
| `DashboardClient` | the chat console of one tab: selections, questions, answers that arrive late or never, other clients | composed with `ConversationLog` |
| `Sessions` | logins, logouts and other requests of one browser; the session table, the cookie, the clock | |
| `MC...` | model values and definitions for TLC | one for each module with a run |
| `...Proofs` | the theorems of `WhatsAppDelivery`, `DecisionRouter`, `EventStream`, `ConfigStore`, `AgentGraph`, `ChatService`, `DashboardClient`, `Sessions` | each its module and TLAPS |

The dashboard modules meet in the store. A handler that calls
`events.record` is, for `EventStream`, its action `Record` (coroutine) or the pair
`Commit`, `HandOut` (thread); `ConfigStore` keeps the events of its own handlers.
`ChatService` sees the provider table of `ConfigStore` as rows that `SaveProvider`
and `DeleteProvider` change. The timeline of `WhatsAppDelivery` is what its calls
of `events.record` say. `ChatService` and `DashboardClient` are the two sides of
`ConversationLog`: the first is shown to implement it, the second runs on it, so the
client is checked against whatever a correct service may do. `Sessions` is the
gate in front of all of them: its request that is admitted and acts later stands
for any handler behind `require_session`.

### WhatsAppDelivery

Each coroutine has a program counter. `running` is the coroutine in a stretch
between two awaits, so that coroutines do not interleave inside it, while a
crash, the platform and `ForgetProfile` (a handler in a thread) may. A step of the
model is a durable write, an await or a branch of the code:
`Poll` - `IssueGet` - `ReceiveUpdates` (or `ReceiveNothing`, `ReceiveFails`) -
`SaveOffset` - per message `Claim` or `SkipDuplicate`, `StartGraph`,
`GraphReturns`, `Send`, `SendReturns`, `RecordDelivered` - `FinishBatch`.
`lockq` is `poll_lock` with its FIFO waiters; both callers hold it around
`receive` only, and `process_messages` runs without it. An update of the feed is
a position; `Updates[n]` is its message id, and ids may repeat. `Fail` is an
exception the worker's loop handles (back off, drop the rest of the batch),
`StoreFails` is `sqlite3.OperationalError`, which it does not handle.

The platform is taken to send, with every answer that is not empty, an integer
`next_offset` that lies behind the last update of it. The adapter also accepts an
answer without one (`whatsapp.py` 92): it then keeps its offset, and the next poll
fetches the same updates again, whose ids are claimed by then.

### DecisionRouter

A call asks `Order[at]`, and one step takes it from an outcome to the next
request, because `decide` awaits only the backend. Time is a bounded counter; a
timer fires in the unit it is due. `lastFailure` is a history variable. A
mishap is what a request can meet (statuses, network, payload); `Classify` is the
exception the backend raises for it and `Reported` what `decide` says of it.

The Laya backend loads its model in the event loop when it is first asked:
`loading` is the call that holds the loop meanwhile, and while it does no other
call starts, answers or times out, although the clock moves (`LoadTime` bounds
the load). A load that fails is tried again by the next request. `ReviewRequired` is
the MCP tool that judges a result once more.

### EventStream

The stretch from registering the queue to reading the table has no await, but
threads may step in: the two are actions, and coroutines wait (`LoopFree`).
`received` is a history variable of what each client got. `events_after` returns one
page, the oldest `Limit` events after the cursor, and the generator goes on to the
queue without asking for another: `skipped` keeps what lay beyond the page, so
that the properties can say that nothing else is missing. It is one history
variable per client and is emptied of what a reconnection reads after all.
`Sent` is what a client was sent followed by what the server holds for it; a
sequence `Lists` a set when it has the set's numbers, each once and rising.

### ConfigStore

A row knows the stamp (number of the change) of its contents, of its secret and
of its creation, so that properties can tell contents apart; the revision is the
code's. Saves are coroutines of several steps that exclude each other through
`running`; deletes run in threads and exclude nothing. An update sends the revision
of its form, as the dashboard does; an API client that omits it is not
modelled (its update is not checked at all). A blank form takes any id, in use or
not, and is saved by POST, which never sends a revision. A conflict (409) or a missing
record (404) changes nothing and is no action. The one setting is written without
revision and without audit record; nothing reads it.

### ChatService

`plan` is what `ordered` returned, `at` the provider being asked. What a provider's
call raises is a constant: `ProviderError` continues the loop, anything else leaves
it. The two providers of the code never manage to raise `ProviderError` (see
section 5); only an injected factory, as in the tests, can. `Resolve` is the agent
a chat gets: the one it names, enabled or not, or the first enabled one. Agents and
providers are saved by coroutines, which cannot fall between the statements of a
chat, and deleted by threads, which can. `KeepsTheLog` is the refinement: `messages` is
the log, `shown` what clients were shown. `Orders` is the sequence that `ordered`
returns, stated by what it is - the enabled providers, each once, every pair as
`Before` says - and not by how it is built; no property is about the order itself.

### AgentGraph

`WhatsAppDelivery` takes a run of the graph as one step of its worker; this module
opens it for all four callers. `Deployments` is the set of assignments of callers to
requests: a service has the webhook with the mock adapter, or the worker with the
official one, whose graph runs in a thread. The webhook's decision node calls
`asyncio.run` inside a running loop and always raises, so `Decided` is "review"
there. `Load`,
`Speak` and `Persist` are the nodes that touch the store; the decision and the
supervisor touch nothing shared and are part of `Speak`. The webhook never
suspends (the mock adapter's `send` does not await), so `loop` is held from its
claim to its reply and no other handler begins or ends meanwhile, while threads
go on. A chat's id is the address of its body: `Unused` says that living bodies
have different addresses. `before` and `forgotten` are history variables.
No handler writes profile, preferences or tasks, so the tables start full.

### DashboardClient

State of the page (`selected`, `messages`, `source` for `streaming` and its
EventSource), the requests under way (`fetches` for selections, `pc` for chats)
and the log at the server. `Complete` is the whole handler of the event: the chat's
conversation is selected and the reply put below whatever is shown. `had` is a
history variable: how much of a page the selected conversation had when it was
selected, or `None` once another answer was under way, when nothing can be said of
what is shown. A lost stream and an error are the same event to the page, which
closes the EventSource; without that it would connect again, and the GET would ask
the question again. The question itself is not put into `messages`, as in the
code.

### Sessions

Requests of one browser, each sent once with the cookie of that moment. A logout is
two steps (`RevokeReads`, `RevokeWrites`), as `revoke_session` reads and writes back
in two transactions in a thread; a check is one. `Arrives` is the answer reaching
the browser, where it sets or deletes the cookie; `Lose` is a connection lost or a
process ended at any step before. `sentAt` and `stale` are history: when a request
left, and whether a logout with the same cookie was done by then.

What an answer does to the cookie depends on the deployment, `crossSite`, chosen in
`Init`. Login sets the cookie `SameSite=None` for a dashboard of another origin
(`api.py` 191 to 200); logout deletes it with `delete_cookie`'s defaults, `SameSite=Lax`
and no `Secure` (209). A browser ignores a Lax `Set-Cookie` in the answer to a fetch
from another site, so the cookie stays when the dashboard is of another site, as in
`docs/DEPLOYMENT.md`, and goes when both are of one site. Both are taken to be
served by https: without `Secure`, today's browsers do not keep a `SameSite=None`
cookie at all. `require_decision_auth` (172) also admits requests with the literal
header `******`; `Uses` are the requests that need a session.

## 3. Runs

Passing runs, with the states TLC finds. Each run of a module with proofs also
checks the inductive invariant they rest on (`DeliveryInv`, `RouterInv`,
`StreamInv`, `ConfigInv`, `ChatInv`, `GraphInv`, `SessionInv`, `ConsoleInv`, each
of which begins with the module's `TypeOK`), so that what is assumed of a state in
a proof is known to hold of the states there are:

| Run | Question | Instance | States |
|---|---|---|---|
| `DeliverySafety` | the inductive invariant and its consequences; who may overtake whom; the refinement; all under faults | feed of two ids and a picture, one id repeated; worker and one poll request; one each of upstream failure, restart, deleted profile | 1.9 M |
| `DeliveryLiveness` | nothing skipped and every text answered while nothing goes wrong; the saved offset is the adapter's; the worker leaves its degraded state; the lock is never kept | three updates, the first two the same message; worker and one poll request; an upstream and a database failure; fairness | 63 k |
| `Router` | results explained, fail closed, a failing backend left alone, early closing only by an answer that was under way, late only by a load, every call ends | three calls, Laya and an HTTP backend, threshold 1, open for 2, timeout 1, load up to 2, calls start within three units of time; fairness | 565 k |
| `Stream` | complete and in order across reconnections, but for what lay beyond a page; nothing missed with a thread | two clients, one thread, three events, pages of two, two lost connections; fairness | 154 k |
| `ConfigEdits` | an update replaces only what its tab has seen, and whoever opened what a creation replaces gets a conflict, in the life of a record; acknowledged means recorded; audit in commit order | two tabs, one provider and the setting, four changes, one crash | 1.5 M |
| `Chat` | keys that fit, every chat ends; the refinement of the log: replies follow their questions, shown means stored | two chats, two conversations, two agents, two providers, one edit, one crash; fairness | 466 k |
| `Graph` | summaries belong to their replies, forgotten contents stay so, a duplicate is told after the first attempt is over, at most one reply to a message of the platform | a webhook and its retry, or two updates of the worker, a caller of `/messages` with the same id, two chats at one address; with and without a model; one deletion, one crash; the two callers of the platform alike | 1.3 M |
| `SessionCookies` | no admission after expiry or logout, no refusal without a reason, cookie and session agree, a logout that came back is final for its token, which a browser on the service's own site has lost | two logins, two logouts, one other request; sessions last one unit of time of two; a dashboard of the same site or of another | 1.3 M |
| `Console` | an undisturbed selection shows its transcript, a click asks once | two questions of the tab, one chat elsewhere, two conversations, pages of two messages, three selections; the tab's questions alike | 1.6 M |

Several properties name the condition under which the code keeps them, instead of
a run of their own that leaves the disturbance out: `NoneSkippedUnlessWrong`,
`OvertakesOnlyOthers` and `EveryTextAnswered` hold while no fault has happened, `OffsetDurable` while the
database has not failed and the profile was not forgotten, the two halves of `NothingMissed` while no thread has
recorded an event and while no connection has been lost. Section 5 says what happens
otherwise. `TranscriptOfSelected` is about selections during which no other answer is
under way.

The bounds are small on purpose: each is the least at which the case of interest
happens. Two coroutines are enough for every conflict over the offset or a
claim, as conflicts are pairwise; a repeated id in a batch, and across two
batches, needs two and three positions. Three calls of the router are a failure
that opens a circuit, a probe after the quiet period that fails beyond the
threshold, and an answer that was under way all along; five units of time hold the
quiet period and what follows. A threshold of 1 makes the second failure the one
beyond it. Three events and two reconnections give a client a backlog, a queue and
a cursor at once, and a page of two leaves the third event beyond it. Four changes are a creation, a deletion, a second creation
and a stale save. Two logins and two logouts give every order of two cookies' answers;
one unit of validity lets a session end while a request is under way. Three
selections and two questions are late answers and what they disturb; the chat
elsewhere makes the page incomplete. The proofs remove the bounds for everything but
the liveness properties. `SYMMETRY` stands in two runs without liveness, for
requests that differ in name only.

`CHECK_DEADLOCK FALSE` stands where the system may stop by the bounds of the model:
router, chats and browsers finish their requests, events and changes are used up.

Each property has a seeded fault beside the definition it changes (the
operators commented "Seeded fault"), a plausible slip in that code which violates
the property: a missing lock, an unchecked claim, a reply returned before it is
stored.

## 4. Fairness

*Delivery.* asyncio serves ready callbacks in FIFO order, so a coroutine that is
ready again and again runs although others run in between: strong fairness of
what each coroutine does next. It is assumed that `graph.invoke` returns (the code
sets no timeout on the model call, so this is an assumption about the model's
client), that httpx requests end (they have timeouts), that the platform does
not hide an update for ever and accepts what it is sent. Nobody has to send a
message or call `/agent/poll`; no fault has to be repaired.

*Router.* The clock moves, due timers fire once the loop is free, and a load of the
model ends (it is bounded by `LoadTime`); no backend ever has to answer.

*Stream.* Threads finish what they began; an EventSource reconnects by itself; a
ready generator runs, although the loop is now and then at another one (strong
fairness). A `put_nowait` from a thread does not wake the loop, so the
run relies on other activity of the loop (the worker's poll timers, requests).

*Chat.* A request to a provider ends, by its 30 s at the latest; cancelling clients
are not required.

## 5. Where code and documents disagree

Each of these is a run that TLC ends with a counterexample; quotations are in
`PROJECT.json`.

| Run | What the code does |
|---|---|
| `ReadyWithoutWorker` | a database error ends the worker while readiness stays ok |
| `ChatNoFallback` | `ProviderError` is made with too few arguments, so no chat ever falls back |
| `BlankErasesSecret` | saving a provider with a blank secret erases it, although the form says "leave blank to keep" |

The models reproduce more behaviour that a reader of the documents would not
expect. It has no run of its own; the properties' conditions leave it out:

* the offset is saved before the batch is claimed, so a restart in between skips
  messages (`whatsapp.py` 95), where the deployment design says that "restarts do not
  intentionally skip updates" (`NoneSkippedUnlessWrong` ends with the first fault);
* the worker and a poll request work on their batches after they have released
  `poll_lock` (`api.py` 120, 563), so a later message of the feed may be answered
  before an earlier one (`OvertakesOnlyOthers` says between whom);
* a timeout that the backend's client sees is reported as "unavailable"
  (`decision_router.py` 88), where the router's design wants timeouts told apart;
* revisions start again with a new record, so a form opened before a deletion
  overwrites the record created after it (`dashboard_store.py` 85), where the design
  wants a conflict on stale writes (`NoBlindUpdate` is about one life of a record);
* creating an agent or a provider under an id in use replaces the record, with what
  another tab was told it had saved, and no conflict (`api.py` 281, 367); the other
  tab gets its conflict at its next save (`NoBlindUpdate`);
* `create_app` builds its graph without the decision router, so every decision of
  the graph is "review"; with a router, the webhook's `asyncio.run` would raise
  (`Decided`);
* a failed reply drops the rest of its batch for good (`NoneSkippedUnlessWrong`);
* forgetting the profile also deletes the saved offset, which the next restart
  notices; the claims still prevent a second reply (`AtMostOneReply`);
* a client more than one page of 100 events behind gets a timeline with a gap
  (`skipped`); lists of events, audit and messages show the oldest 100;
* an event that a pool thread has committed and not yet fanned out reaches a new
  subscriber twice, from the table and from its queue (`NothingMissed`);
* if such an event is fanned out after a later one, the client's cursor passes it,
  and a connection lost at that point loses the event (`EveryEventArrives`);
* an update brings back a record that was deleted between its SELECT and its
  INSERT (`NoBlindUpdate` excepts a row that is gone);
* creations of agents and providers and changes of the setting leave no audit record
  (`AnswerMeansRecorded` excepts them); nobody reads the setting;
* a provider deleted between the read of its endpoint and of its key is called
  without a key, and one edited while a chat waits for the provider before it is
  called at its old endpoint with its new key (`KeyOfRevision`);
* a run that loaded the profile before it was forgotten writes it into its summary
  afterwards, and a summary is replaced when an address or an id is used again
  (`StaysForgotten` and `OwnSummary` are about runs that begin later and about
  runs under way);
* the page's `onmessage` never fires, because every event of the stream has a name
  (`events.py` 51): the live timeline stands still until the next load;
* an answer to an earlier selection, or a chat that completes late, shows messages
  under another conversation and sends the next question there; the user's own
  question is not shown until the conversation is selected again; a chat that fails
  in its first message leaves a conversation behind, and the retry makes another
  (`TranscriptOfSelected` is silent where another answer is under way);
* a logout does not take the cookie from the browser when the dashboard is of
  another site, the deployment that login's `SameSite=None` is for: the browser goes
  on sending a revoked token until its `max_age` (`api.py` 209; `CookieFollows` says
  that it opens nothing);
* a login leaves an earlier session of the browser alive; on one site a logout whose
  answer comes after a newer login deletes the newer cookie; requests and streams that were
  admitted before a logout go on after it (`CheckedRightly` is about requests sent
  after it);
* a webhook that fails after its claim is never answered: its retry is a duplicate
  (`AtMostOnceWebhook` promises no answer).

## 6. Proofs

Every invariant of every run, and every action property and refinement among their
properties, is a theorem of its specification: it holds for all values of the
constants that the named assumptions of the module allow. The assumptions say what
the code fixes (a feed is a sequence of ids, a failure threshold is at least 1, a
page has at least one row, a session lasts at least one unit, provider ids and
requests of a tab are finitely many) and that model values of different kinds
differ; bounds on time, events and faults are arbitrary natural numbers, so they
bound nothing.

Each proof module has the same plan. Properties of this kind are seldom inductive;
the component's module defines the invariant that is, as a conjunction of named
parts. The lemmas `InitInv` (or `Initially`) and one `...Step` per part, with a step
per action, show that it holds initially and is preserved; the theorems at the end
add the temporal step. What an action does to one actor's variables is stated once
in a lemma (`Begun`, `MovesOn`, `Saved`, `Fetched`) and so is that it leaves the
other actors alone (`OthersWait`).

| Module | Theorems (property) | What makes it inductive |
|---|---|---|
| `WhatsAppDelivery` | `Invariance` (`DeliveryInv`), `TypeCorrect`, `NeverTwice` (`AtMostOneReply`), `WorkIsExclusive`, `BatchesNeverOverlap`, `TimelineIsTruthful`, `OvertakingTakesTwo` (`OvertakesOnlyOthers`), `NothingSkipped` (`NoneSkippedUnlessWrong`), `OffsetIsDurable`, `OffsetGrows` (`OffsetMonotone`), `Implementation` (`AtMostOnceConsumer`) | see below |
| `DecisionRouter` | `RouterConsistent` (`RouterInv`), `ResultsExplained`, `FailsClosed` (`ReviewUnlessConfident`), `NoLateRequest` (`LateOnlyByLoad`), `FailingIsLeftAlone` (`LeftAlone`), `NobodyProbes` (`EarlyCloseIsStale`) | the outcomes a call has are those of the backends before the one it asks; beyond the threshold the circuit's time is that of the latest failure; whoever asks a backend with an open circuit left before that failure; the loop is held only by the first request to Laya |
| `EventStream` | `StreamConsistent` (`StreamInv`), `NothingIsMissed` (`NothingMissed`) | queues of clients that are not registered are empty, and until the table is read only threads fill them; without a thread the cursor lists what was received |
| `ConfigStore` | `ConfigConsistent` (`ConfigInv`), `AnswersAreRecorded` (`AnswerMeansRecorded`), `OverwritingIsNoticed` (`NoBlindUpdate`) | within one life of a record its revision determines its contents; between the SELECT of a save and its answer only a deletion comes; an update that is not yet in the audit is later than all that are |
| `AgentGraph` | `GraphConsistent` (`GraphInv`), `ForgottenStays`, `SummaryIsOwn` (`OwnSummary`), `DuplicatesAreOver`, `Implementation` (`AtMostOnceWebhook`) | an id of the platform has one request that is not a duplicate, an address one chat at work; a summary is there from its write on |
| `ChatService` | `ChatsConsistent` (`ChatInv`), `KeyIsOfRevision`, `Implementation` (`KeepsTheLog`) | what the table has of a chat, by where the chat is; from the list of providers to the first key the chat holds the loop, and only deletions get between |
| `Sessions` | `SessionsConsistent` (`SessionInv`), `SessionsChecked` (`CheckedRightly`), `CookieFollowsSession` | a session ends when its login says, whatever a logout writes back; a token is revoked only by a logout that carries it; a browser knows the tokens whose login came back; the token of a logout that is done is revoked for good |
| `DashboardClient` | `ConsoleConsistent` (`ConsoleInv`), `TranscriptIsOwn` (`TranscriptOfSelected`), `ClickAsksOnce` (`OneQuestionPerClick`) | see below |

*Delivery.* "At most one reply" is not inductive: nothing in it says why a coroutine
about to post holds a message nobody has posted. The invariant adds the reasons in
layers. `LockInv`: who polls is the head of the lock's queue. `OffsetInv`, which
rests on it: the GET in flight asks for what follows the current offset, so a new
batch lies beyond every batch there is. `ClaimInv`, which rests on the primary key
of `processed_events` alone and so survives restarts and rewound offsets: a
message in work is claimed and has one owner, an owner that has not posted yet
owns a message without reply or pending post, a pending post is the only one.
`TimelineTruthful` then follows step by step. `FeedInv` adds what is behind the order
of replies and the offset: a coroutine away from its batch has none left
(`BatchInv`); the message in work stands in front of what is left (`TurnInv`); and,
before a first mishap, every text that the offset has passed is claimed or in a batch
(`SkipInv`), and every claimed one has its answer or somebody at work on it
(`AnswerInv`). Together these are `OvertakesOnlyOthers`: a text in front of the one in
work that has no answer can only be another coroutine's.

*Console.* `TranscriptOfSelected` says nothing while an answer is under way, so the
invariant says what that time prepares. `SelectInv`: after an undisturbed selection
its own request is the only one, no EventSource is open, and the answer is a
beginning of the conversation at least as long as what the selection found.
`AskInv`: a question sent after that goes to the selected conversation, and its
reply, once stored, is `Below` all that the page shows; so putting it at the end
keeps the order. Both rest on `LogInv`, facts about the log that the service keeps:
a message is stored once, a chat is in one conversation.

*Refinements.* `AtMostOnceConsumer`, `AtMostOnceWebhook` and `KeepsTheLog` are proved
by mapping: the initial state to an initial state, and each step, from the
invariant, to a step of the abstract module or to a stutter.

Working the proofs out corrected the models and the properties in a few places.
`OffsetDurable` is false after the profile was forgotten, which deletes the saved
offset too; the property now says so. `LeftAlone` is false for a failure threshold
of 0, which the code accepts and the service never sets; the assumption excludes it.
`LoopInv` of `ConfigStore` was split from `SaveInv`, which was not inductive without
it. The order of the providers and `NothingMissed` were rewritten without functions
that are defined by recursion, which the provers cannot unfold.

Only model-checked: the liveness properties `EveryTextAnswered`, `WorkerRecovers`,
`PollServed`, `EveryCallEnds`, `EveryEventArrives` and `EveryChatEnds`, because the
prover does not do fairness or ENABLED; and, as counterexamples, the three runs of
section 5.

## 7. Not modelled, and the plan

Not modelled: encryption and redaction (pure functions on data, a library's
cryptography), validation of settings and contracts (single values; their
results are the assumptions on constants), the CLI and scripts (stateless wrappers),
container files. Of `tools.py` the graph calls `task_list` only, which is a read in
`AgentGraph`; nothing calls the others. The connection test changes no state. The
comparison of passwords is data. The lists of the dashboard's other tabs show what
`load` brought and keep nothing of their own.

Planned, in this order:

1. An abstract feed (each client receives a prefix of one sequence, but for pages)
   that `EventStream` without threads refines, and the proof that it does.
2. That the abstract modules promise what they are used for: that an id of
   `AtMostOnceReply` is answered at most once, and that in `ConversationLog` a reply
   follows its question and whatever was shown is stored.
3. Lemmas behind the liveness properties that need no fairness: that each step
   towards the goal is enabled as its guards say, and that no other step undoes it.

## 8. Running it

    tlc -workers 2 -config DeliverySafety.cfg MCWhatsAppDelivery
    tlapm WhatsAppDeliveryProofs.tla    # and so for each ...Proofs module

`PROJECT.json` names the module of each configuration.
