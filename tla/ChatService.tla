---------------------------- MODULE ChatService ----------------------------
(***************************************************************************)
(* Chats with the configured providers: ChatService.generate behind POST   *)
(* /dashboard/chat and GET /dashboard/chat/stream.                         *)
(*                                                                         *)
(* A chat stores the question, walks the enabled providers in the agent's  *)
(* order and stores the first reply.  It is a coroutine that awaits only   *)
(* the provider.  Agents and providers are edited by other coroutines, and *)
(* deleted by threads that run at any time.  A call that goes wrong raises *)
(* a ProviderError, which the loop over the providers handles, or          *)
(* something else, which it does not.  A message is known by its chat and  *)
(* role.  An agent's list of providers is fixed.                           *)
(***************************************************************************)
EXTENDS Naturals, Sequences, SequencesExt, FiniteSets

CONSTANTS
    Providers,      \* ids of providers
    Rank,           \* their position by (priority, id)
    AgentIds,       \* the agents, in the order of their ids
    Preferred,      \* provider_ids, for each agent
    Chats,          \* requests
    Conversations,  \* ids of conversations
    Own,            \* those that exist and belong to the actor
    None,           \* no chat, no conversation
    Raises,         \* what the call of a provider may raise
    MaxEdits,       \* bound on changes of the configuration
    MaxCrashes      \* bound on restarts of the process

Agents == ToSet(AgentIds)

ASSUME AgentAssumption == /\ Preferred \in [Agents -> Seq(Providers)]
                          /\ IsInjective(AgentIds) /\ None \notin Agents
ASSUME RankAssumption == /\ Rank \in [Providers -> Nat] /\ IsInjective(Rank)
                         /\ IsFiniteSet(Providers)
ASSUME ConversationAssumption == /\ Own \subseteq Conversations
                                 /\ None \notin Conversations \cup Chats
ASSUME RaisesAssumption ==
    Raises \subseteq {"ProviderError", "TypeError", "HTTPStatusError"}
ASSUME BoundAssumption == MaxEdits \in Nat /\ MaxCrashes \in Nat

VARIABLES
    config,    \* dashboard_providers
    agents,    \* dashboard_agents: "enabled", "disabled" or "deleted"
    edits,     \* how often it was changed
    messages,  \* dashboard_messages, by conversation
    owned,     \* the actor's rows of dashboard_conversations
    pc,        \* where each chat is
    conv,      \* its conversation
    plan,      \* the providers it asks, as it read them
    at,        \* the one it is at
    key,       \* the secret it sends with its request
    running,   \* the chat that holds the event loop, or None
    shown,     \* the chats whose reply the client was shown
    crashes    \* how often the process was restarted

setup == << config, agents, edits >>
tables == << setup, messages, owned >>
choice == << conv, plan >>
vars == << tables, pc, choice, at, key, running, shown, crashes >>
-----------------------------------------------------------------------------
\* A deleted provider is one that is disabled and has no secret.  A secret is
\* the number of the edit that entered it, 0 for none.
Row == [enabled : BOOLEAN, secret : 0 .. MaxEdits + 1]

Deleted == [enabled |-> FALSE, secret |-> 0]

Enabled == {p \in Providers : config[p].enabled}

\* First the agent's own providers, in the order of its list, then the others by
\* priority.
Before(a, p, q) ==
    LET own == ToSet(Preferred[a])
        Place(x) == SelectInSeq(Preferred[a], LAMBDA y : y = x)
    IN  \/ p \in own /\ (q \in own => Place(p) < Place(q))
        \/ p \notin own /\ q \notin own /\ Rank[p] < Rank[q]

\* The enabled providers in that order, each once: there is one such sequence.
Orders(a) == {order \in [1 .. Cardinality(Enabled) -> Enabled] :
                 \A i, k \in DOMAIN order : i < k => Before(a, order[i], order[k])}

Snapshot(order) == [i \in 1 .. Len(order) |->
                      [id |-> order[i], secret |-> config[order[i]].secret]]

Question(c) == [chat |-> c, role |-> "user"]
Reply(c) == [chat |-> c, role |-> "assistant"]

InFlight == {"listed", "asking", "replied"}
Ended == {"done", "failed", "gone"}

Init == /\ config = [p \in Providers |-> [enabled |-> TRUE, secret |-> 1]]
        /\ agents = [a \in Agents |-> "enabled"]
        /\ edits = 0
        /\ messages = [k \in Conversations |-> << >>]
        /\ owned = Own
        /\ pc = [c \in Chats |-> "idle"]
        /\ conv = [c \in Chats |-> None]
        /\ plan = [c \in Chats |-> << >>]
        /\ at = [c \in Chats |-> 1]
        /\ key = [c \in Chats |-> 0]
        /\ running = None
        /\ shown = {}
        /\ crashes = 0

Goto(c, step) == pc' = [pc EXCEPT ![c] = step]

Resumes(c, step) == pc[c] = step /\ running = None

AppendMessage(k, m) == messages' = [messages EXCEPT ![k] = Append(@, m)]

\* Seeded fault: the loop runs past the last provider.
GoOnPastTheLast(c, n) == /\ at' = [at EXCEPT ![c] = n]
                         /\ IF n <= Len(plan'[c]) + 1
                            THEN Goto(c, "listed") /\ running' = c
                            ELSE Goto(c, "failed") /\ running' = None

\* The loop over the providers, from position n on.
GoOn(c, n) == /\ at' = [at EXCEPT ![c] = n]
              /\ IF n <= Len(plan'[c])
                 THEN Goto(c, "listed") /\ running' = c
                 ELSE Goto(c, "failed") /\ running' = None

\* The conversation is the actor's; the question is stored.
Begin(c, k, a) == /\ Resumes(c, "idle")
                  /\ conv' = [conv EXCEPT ![c] = k]
                  /\ AppendMessage(k, Question(c))
                  /\ \E order \in Orders(a) :
                        plan' = [plan EXCEPT ![c] = Snapshot(order)]
                  /\ GoOn(c, 1)
                  /\ UNCHANGED << setup, key, shown, crashes >>

Continue(c, k, a) == k \in owned /\ Begin(c, k, a) /\ UNCHANGED owned

\* No conversation is given: one is created under a fresh id.
Create(c, k, a) == /\ k \notin owned \cup Own
                   /\ messages[k] = << >>
                   /\ owned' = owned \cup {k}
                   /\ Begin(c, k, a)

\* _agent: the agent with the id that is asked for, enabled or not, or else the
\* first enabled one.
Resolve(wish) ==
    IF wish # None THEN {wish} \cap {a \in Agents : agents[a] # "deleted"}
    ELSE LET on == SelectSeq(AgentIds, LAMBDA a : agents[a] = "enabled")
         IN  IF on = << >> THEN {} ELSE {Head(on)}

\* No such agent, or a conversation that is not the actor's: nothing is stored.
Refuse(c, k, wish) ==
    /\ Resumes(c, "idle")
    /\ k \notin owned \/ Resolve(wish) = {}
    /\ Goto(c, "failed")
    /\ UNCHANGED << tables, choice, at, key, running, shown, crashes >>

\* provider_from_config reads the secret, and the request leaves.
Ask(c) == /\ pc[c] = "listed" /\ running = c
          /\ key' = [key EXCEPT ![c] = config[plan[c][at[c]].id].secret]
          /\ Goto(c, "asking")
          /\ running' = None
          /\ UNCHANGED << tables, choice, at, shown, crashes >>

\* Seeded fault: the loop goes on after a reply.
ReturnsAndGoesOn(c) == /\ Resumes(c, "asking")
                       /\ AppendMessage(conv[c], Reply(c))
                       /\ UNCHANGED << setup, owned, choice, key, shown,
                                       crashes >>
                       /\ GoOn(c, at[c] + 1)

\* The provider replies; the reply is stored and returned.
Returns(c) == /\ Resumes(c, "asking")
              /\ AppendMessage(conv[c], Reply(c))
              /\ Goto(c, "replied")
              /\ UNCHANGED << setup, owned, choice, at, key, running,
                              shown, crashes >>

\* Seeded fault: the loop asks the same provider again.
AsksAgain(c) == /\ Resumes(c, "asking")
                /\ UNCHANGED << tables, choice, key, shown, crashes >>
                /\ GoOn(c, at[c])

\* A ProviderError: the next provider, or 502 after the last one.
FallsBack(c) == /\ Resumes(c, "asking")
                /\ UNCHANGED << tables, choice, key, shown, crashes >>
                /\ GoOn(c, at[c] + 1)

\* Any other exception leaves generate at once.  A status of 500 and above is
\* one: ProviderError is made with one argument of three, a TypeError.
Escapes(c) == /\ Resumes(c, "asking")
              /\ Goto(c, "failed")
              /\ UNCHANGED << tables, choice, at, key, running, shown, crashes >>

Raise(c, exception) == IF exception = "ProviderError" THEN FallsBack(c)
                                                      ELSE Escapes(c)

\* The client of a stream goes while the provider works: the task is cancelled.
Cancel(c) == /\ Resumes(c, "asking")
             /\ Goto(c, "gone")
             /\ UNCHANGED << tables, choice, at, key, running, shown, crashes >>

\* The client is shown the reply, or has gone by then.
Deliver(c) == /\ pc[c] = "replied"
              /\ Goto(c, "done")
              /\ shown' \in {shown, shown \cup {c}}
              /\ UNCHANGED << tables, choice, at, key, running, crashes >>

Edited == /\ edits < MaxEdits
          /\ edits' = edits + 1
          /\ UNCHANGED << messages, owned, pc, choice, at, key, running, shown,
                          crashes >>

EditProvider(p, row) == /\ Edited
                        /\ config' = [config EXCEPT ![p] = row]
                        /\ UNCHANGED agents

EditAgent(a, status) == /\ Edited
                        /\ agents' = [agents EXCEPT ![a] = status]
                        /\ UNCHANGED config

\* Seeded fault: update_provider runs in a thread as well.
SaveProviderAnyTime(p, enabled, typed) ==
    EditProvider(p, [enabled |-> enabled,
                     secret |-> IF typed THEN edits + 2 ELSE 0])

\* create_provider and update_provider are coroutines; a blank secret is NULL.
SaveProvider(p, enabled, typed) ==
    /\ running = None
    /\ EditProvider(p, [enabled |-> enabled,
                        secret |-> IF typed THEN edits + 2 ELSE 0])

\* delete_provider runs in a thread.
DeleteProvider(p) == config[p] # Deleted /\ EditProvider(p, Deleted)

\* create_agent and update_agent are coroutines as well.
SaveAgent(a, status) == running = None /\ EditAgent(a, status)

\* delete_agent runs in a thread; the chats with that agent go on.
DeleteAgent(a) == agents[a] # "deleted" /\ EditAgent(a, "deleted")

\* POST /dashboard/conversations, a coroutine: a conversation without messages.
NewConversation(k) ==
    /\ running = None
    /\ k \notin owned \cup Own
    /\ messages[k] = << >>
    /\ owned' = owned \cup {k}
    /\ UNCHANGED << setup, messages, pc, choice, at, key, running, shown,
                    crashes >>

Crash == /\ crashes < MaxCrashes
         /\ crashes' = crashes + 1
         /\ \E c \in Chats : pc[c] \in InFlight
         /\ pc' = [c \in Chats |-> IF pc[c] \in InFlight THEN "gone" ELSE pc[c]]
         /\ running' = None
         /\ UNCHANGED << tables, choice, at, key, shown >>

Start(c) == \E k \in Conversations, wish \in Agents \cup {None} :
               \/ \E a \in Resolve(wish) : Create(c, k, a) \/ Continue(c, k, a)
               \/ Refuse(c, k, wish)

Run(c) == \/ Ask(c) \/ Returns(c)
          \/ \E exception \in Raises : Raise(c, exception)
          \/ Cancel(c) \/ Deliver(c)

Reconfigure ==
    \/ \E p \in Providers :
          \/ \E enabled, typed \in BOOLEAN : SaveProvider(p, enabled, typed)
          \/ DeleteProvider(p)
    \/ \E a \in Agents :
          \/ \E status \in {"enabled", "disabled"} : SaveAgent(a, status)
          \/ DeleteAgent(a)

Next == \/ \E c \in Chats : Start(c) \/ Run(c)
        \/ \E k \in Conversations : NewConversation(k)
        \/ Reconfigure
        \/ Crash

\* The loop runs what is ready, and a request ends: the client gives it 30 s.
End(c) == Returns(c) \/ \E exception \in Raises : Raise(c, exception)

Fairness == \A c \in Chats : /\ WF_vars(Ask(c)) /\ WF_vars(Deliver(c))
                             /\ SF_vars(End(c))

Spec == Init /\ [][Next]_vars

FairSpec == Spec /\ Fairness
-----------------------------------------------------------------------------
Plans == Seq([id : Providers, secret : 0 .. MaxEdits + 1])

\* The values the variables take.
TypeOK == /\ config \in [Providers -> Row]
          /\ agents \in [Agents -> {"enabled", "disabled", "deleted"}]
          /\ edits \in 0 .. MaxEdits
          /\ messages \in [Conversations ->
                             Seq([chat : Chats, role : {"user", "assistant"}])]
          /\ owned \subseteq Conversations
          /\ pc \in [Chats -> InFlight \cup Ended \cup {"idle"}]
          /\ conv \in [Chats -> Conversations \cup {None}]
          /\ plan \in [Chats -> Plans]
          /\ at \in [Chats -> Nat \ {0}]
          /\ \A c \in Chats : /\ at[c] <= Len(plan[c]) + 1
                              /\ pc[c] \in InFlight => at[c] <= Len(plan[c])
          /\ key \in [Chats -> 0 .. MaxEdits + 1]
          /\ running \in Chats \cup {None}
          /\ shown \subseteq Chats
          /\ crashes \in 0 .. MaxCrashes

Log == INSTANCE ConversationLog WITH log <- messages

\* However chats interleave in one conversation, and wherever a crash, a cancelled
\* stream or an edit falls, a chat asks once and leaves at most one reply, in the
\* conversation of its question and after it, and what a client was shown is in
\* the table (generate, 71 to 99).
KeepsTheLog == Log!Spec

\* Every chat ends, whatever the providers raise.
EveryChatEnds == \A c \in Chats : pc[c] \in InFlight ~> pc[c] \in Ended

\* A chat fails only after generate's loop (dashboard_services.py 86 to 99) has
\* tried every enabled provider.
FallbackReached ==
    \A c \in Chats : pc[c] = "failed" => at[c] > Len(plan[c])

\* The first provider asked gets the key that was beside its endpoint when the
\* chat read it, or none if the provider was deleted since: no edit comes
\* between the list and the secret, which are read one after the other.  The
\* providers a chat falls back to are asked after an await, and may get a newer
\* key with an older endpoint (generate, 86 to 88).
KeyOfRevision ==
    \A c \in Chats : pc[c] = "asking" /\ at[c] = 1 =>
       key[c] \in {plan[c][1].secret, 0}
-----------------------------------------------------------------------------
(***************************************************************************)
(* The inductive invariant behind the two properties.                      *)
(***************************************************************************)
\* The chat that holds the loop is about to ask.
LoopInv == \A c \in Chats : pc[c] = "listed" <=> running = c

\* What the table has of a chat, wherever the chat is.
StoredInv ==
    \A c \in Chats :
       /\ pc[c] = "idle" => ~Log!Asked(c)
       /\ pc[c] \in InFlight => /\ conv[c] \in Conversations
                                /\ Log!Has(conv[c], Question(c))
       /\ pc[c] \in {"idle", "listed", "asking"} => ~Log!Answered(c)
       /\ pc[c] = "replied" => Log!Answered(c)

\* The secret of the first provider is the one that was read, until it is deleted.
SecretInv ==
    \A c \in Chats : pc[c] = "listed" /\ at[c] = 1 =>
       config[plan[c][1].id].secret \in {plan[c][1].secret, 0}

ChatInv == TypeOK /\ LoopInv /\ StoredInv /\ SecretInv
=============================================================================
