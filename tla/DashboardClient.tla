-------------------------- MODULE DashboardClient --------------------------
(***************************************************************************)
(* The chat console of one browser tab (page.tsx): the user selects        *)
(* conversations and sends questions, and the answers come back whenever   *)
(* they do.  Nothing ties an answer to the selection it was asked for.     *)
(*                                                                         *)
(* The other side is ConversationLog, which ChatService implements; other  *)
(* clients of the same owner write into it too.                            *)
(***************************************************************************)
EXTENDS Naturals, Sequences, SequencesExt, FiniteSets

CONSTANTS
    Chats,          \* requests of this tab to /dashboard/chat/stream
    Others,         \* chats of other clients
    Conversations,  \* ids of conversations
    Own,            \* those that exist at first
    Limit,          \* messages in one page, 100
    MaxFetches,     \* bound on selections
    None            \* no conversation, no chat

ASSUME ChatAssumption == /\ IsFiniteSet(Chats)
                         /\ Chats \cap Others = {}
                         /\ None \notin Chats \cup Conversations
ASSUME OwnAssumption == Own \subseteq Conversations
ASSUME LimitAssumption == Limit \in Nat \ {0} /\ MaxFetches \in Nat

VARIABLES
    log,       \* dashboard_messages
    shown,     \* the chats whose reply a client was shown
    known,     \* the conversations that exist
    pc,        \* where each request of this tab is
    target,    \* the conversation it names, until it is read, or None
    selected,  \* conversationId of the page
    messages,  \* messages of the page
    source,    \* the chat whose EventSource is open, or None
    fetches,   \* the selections' requests: the conversation and its page
    clicks,    \* how often the user has sent a question
    had        \* how much of a page the selected conversation had when it was
               \* selected, or None if something else was under way since then

server == << log, shown, known >>
chats == << pc, target >>
page == << selected, messages, source, clicks >>
vars == << server, chats, page, fetches, had >>

Server == INSTANCE ConversationLog WITH Chats <- Chats \cup Others
-----------------------------------------------------------------------------
Finished == [of |-> None, step |-> "over", page |-> << >>]

InFlight == {n \in 1 .. Len(fetches) : fetches[n] # Finished}

Init == /\ Server!Init
        /\ known = Own
        /\ pc = [c \in Chats |-> "idle"]
        /\ target = [c \in Chats |-> None]
        /\ selected = None
        /\ messages = << >>
        /\ source = None
        /\ fetches = << >>
        /\ clicks = 0
        /\ had = 0

Goto(c, step) == pc' = [pc EXCEPT ![c] = step]

FirstOf(s, n) == IF Len(s) <= n THEN s ELSE SubSeq(s, 1, n)

\* Seeded fault: the page has no limit.
PageWhole(k) == log[k]

\* list_messages: the oldest messages of the conversation.
Page(k) == FirstOf(log[k], Limit)

\* selectConversation, up to its await.  The messages stay until the answer.
Select(k) ==
    /\ k \in known
    /\ Len(fetches) < MaxFetches
    /\ selected' = k
    /\ fetches' = Append(fetches, [of |-> k, step |-> "sent", page |-> << >>])
    /\ had' = IF InFlight = {} /\ source = None THEN Len(Page(k)) ELSE None
    /\ UNCHANGED << server, chats, messages, source, clicks >>

AnswerFetch(n) == /\ fetches[n].step = "sent"
                  /\ fetches' = [fetches EXCEPT ![n].step = "answered",
                                                ![n].page = Page(fetches[n].of)]
                  /\ UNCHANGED << server, chats, page, had >>

\* setMessages, whatever is selected by now.
ArriveFetch(n) == /\ fetches[n].step = "answered"
                  /\ messages' = fetches[n].page
                  /\ fetches' = [fetches EXCEPT ![n] = Finished]
                  /\ UNCHANGED << server, chats, selected, source, clicks, had >>

\* The request fails, and nobody handles it: the page shows the messages of the
\* conversation selected before.
FailFetch(n) == /\ fetches[n] # Finished
                /\ fetches' = [fetches EXCEPT ![n] = Finished]
                /\ had' = None
                /\ UNCHANGED << server, chats, page >>

\* The EventSource asks: a request is made.
Request(c) == /\ pc[c] = "idle"
              /\ Goto(c, "sent")
              /\ target' = [target EXCEPT ![c] = selected]
              /\ source' = c

\* sendChat: one question at a time.
SendChat(c) == /\ source = None
               /\ Request(c)
               /\ clicks' = clicks + 1
               /\ had' = IF InFlight = {} THEN had ELSE None
               /\ UNCHANGED << server, selected, messages, fetches >>

\* generate stores the question, in a conversation it makes if none is named.
Begin(c) == /\ pc[c] = "sent"
            /\ \E k \in Conversations :
                  /\ IF target[c] = None THEN k \notin known ELSE k = target[c]
                  /\ Server!Ask(c, k)
                  /\ known' = known \cup {k}
            /\ Goto(c, "asked")
            /\ target' = [target EXCEPT ![c] = None]
            /\ UNCHANGED << page, fetches, had >>

\* An event leaves, if the stream is still open.
Emit(c, event) == Goto(c, IF source = c THEN event ELSE "over")

\* The reply is stored.
Reply(c) == /\ pc[c] = "asked"
            /\ \E k \in Conversations : Server!Answer(c, k)
            /\ Emit(c, "complete")
            /\ UNCHANGED << known, target, page, fetches, had >>

\* 401, no agent or no provider that replies: the event "error", or an answer
\* that ends early.
Fail(c) == /\ pc[c] \in {"sent", "asked"}
           /\ Emit(c, "error")
           /\ target' = [target EXCEPT ![c] = None]
           /\ UNCHANGED << server, page, fetches, had >>

Home(c) == CHOOSE k \in Conversations : Server!Has(k, Server!Question(c))

\* Seeded fault: a chat that began a conversation leaves the selection alone.
CompleteUnselected(c) ==
    /\ source = c /\ pc[c] = "complete"
    /\ messages' = Append(messages, Server!Reply(c))
    /\ source' = None
    /\ Server!Show(c)
    /\ Goto(c, "over")
    /\ UNCHANGED << known, target, selected, fetches, clicks, had >>

\* The event "complete": the chat's conversation is selected, and the reply is
\* put below whatever the page shows.
Complete(c) == /\ source = c /\ pc[c] = "complete"
               /\ selected' = Home(c)
               /\ messages' = Append(messages, Server!Reply(c))
               /\ source' = None
               /\ Server!Show(c)
               /\ Goto(c, "over")
               /\ UNCHANGED << known, target, fetches, clicks, had >>

\* The event "error", or an answer that ends without one.
ErrorArrives(c) == /\ source = c /\ pc[c] = "error"
                   /\ source' = None
                   /\ Goto(c, "over")
                   /\ UNCHANGED << server, target, selected, messages, fetches,
                                   clicks, had >>

\* What is under way to a stream that is gone is lost.
Dropped(c) == [pc EXCEPT ![c] = IF @ \in {"complete", "error"} THEN "over" ELSE @]

\* Seeded fault: the handler leaves the EventSource open, which connects and
\* asks again.
LoseStreamAndReconnect(c) ==
    /\ source = c
    /\ \E d \in Chats : /\ pc[d] = "idle"
                        /\ pc' = [Dropped(c) EXCEPT ![d] = "sent"]
                        /\ target' = [target EXCEPT ![d] = selected]
                        /\ source' = d
    /\ UNCHANGED << server, selected, messages, fetches, clicks, had >>

\* The connection is lost, which the page takes for the same event: it closes the
\* EventSource.  The chat may go on at the server.
LoseStream(c) == /\ source = c
                 /\ source' = None
                 /\ pc' = Dropped(c)
                 /\ UNCHANGED << server, target, selected, messages, fetches,
                                 clicks, had >>

\* The user opens the page again.
Reload == /\ selected' = None
          /\ messages' = << >>
          /\ source' = None
          /\ pc' = IF source = None THEN pc ELSE Dropped(source)
          /\ fetches' = [n \in 1 .. Len(fetches) |-> Finished]
          /\ had' = 0
          /\ UNCHANGED << server, target, clicks >>

\* Another client of the owner chats in a conversation that exists.
OtherChats(c) == /\ \E k \in known : Server!Ask(c, k) \/ Server!Answer(c, k)
                 /\ UNCHANGED << known, chats, page, fetches, had >>

Serve(c) == Begin(c) \/ Reply(c) \/ Fail(c)

Show(c) == Complete(c) \/ ErrorArrives(c)

Next == \/ \E k \in Conversations : Select(k)
        \/ \E n \in 1 .. Len(fetches) :
              AnswerFetch(n) \/ ArriveFetch(n) \/ FailFetch(n)
        \/ \E c \in Chats : SendChat(c) \/ Serve(c) \/ Show(c) \/ LoseStream(c)
        \/ \E c \in Others : OtherChats(c)
        \/ Reload

Spec == Init /\ [][Next]_vars
-----------------------------------------------------------------------------
\* The values the variables take.
TypeOK == /\ log \in [Conversations -> Seq(Server!Messages)]
          /\ shown \subseteq Chats \cup Others
          /\ known \subseteq Conversations
          /\ pc \in [Chats -> {"idle", "sent", "asked", "complete", "error", "over"}]
          /\ target \in [Chats -> Conversations \cup {None}]
          /\ selected \in known \cup {None}
          /\ messages \in Seq(Server!Messages)
          /\ source \in Chats \cup {None}
          /\ fetches \in Seq([of : Conversations \cup {None},
                              page : Seq(Server!Messages),
                              step : {"sent", "answered", "over"}])
          /\ \A n \in 1 .. Len(fetches) : Len(fetches[n].page) <= Limit
          /\ clicks \in 0 .. Cardinality(Chats)
          /\ had \in 0 .. Limit \cup {None}

InOrder(seq, whole) ==
    /\ ToSet(seq) \subseteq ToSet(whole)
    /\ \A i, j \in 1 .. Len(seq), x, y \in 1 .. Len(whole) :
          i < j /\ seq[i] = whole[x] /\ seq[j] = whole[y] => x < y

Agree(seq, whole, n) == /\ n <= Len(seq) /\ n <= Len(whole)
                        /\ \A i \in 1 .. n : seq[i] = whole[i]

\* The page after a selection during which nothing else was under way: the
\* messages are those of the selected conversation, in their order and each
\* once, and they begin with those that it had when it was selected, up to one
\* page (selectConversation, 119 to 123, and the handler of "complete", 131 to
\* 135).  With another answer under way they may be those of another
\* conversation, or show a reply twice or no more.
TranscriptOfSelected ==
    had # None /\ InFlight = {} =>
       IF selected = None THEN messages = << >>
       ELSE /\ InOrder(messages, log[selected])
            /\ Agree(messages, log[selected], had)

\* A click stores at most one question: a stream that is lost is not opened again,
\* although an EventSource does so by itself and GET /dashboard/chat/stream asks
\* the question (sendChat, 125 to 137).
OneQuestionPerClick ==
    Cardinality({c \in Chats : Server!Asked(c)}) <= clicks
-----------------------------------------------------------------------------
(***************************************************************************)
(* The inductive invariant behind the two properties.                      *)
(***************************************************************************)
\* A message is stored once, a chat is in one conversation, a reply is below its
\* question, and every message is in a conversation that exists.
LogInv ==
    /\ \A k \in Conversations : \A x, y \in 1 .. Len(log[k]) :
          log[k][x] = log[k][y] => x = y
    /\ \A k, l \in Conversations, c \in Chats :
          Server!Has(k, Server!Question(c)) /\ Server!Has(l, Server!Question(c)) => k = l
    /\ \A k \in Conversations, c \in Chats :
          Server!Has(k, Server!Reply(c)) => Server!Has(k, Server!Question(c))
    /\ \A k \in Conversations, m \in Server!Messages : Server!Has(k, m) => k \in known

\* A click makes one request, and a request asks one question.
ClickInv ==
    /\ clicks = Cardinality({c \in Chats : pc[c] # "idle"})
    /\ \A c \in Chats : Server!Asked(c) => pc[c] \notin {"idle", "sent"}
    /\ \A c \in Chats : pc[c] = "complete" => Server!Answered(c)

\* A selection's request names a conversation that exists.
FetchInv ==
    \A n \in 1 .. Len(fetches) : fetches[n] = Finished \/ fetches[n].of \in known

\* After an undisturbed selection its own request is the only one under way, and
\* what it was answered is the beginning of the conversation.
SelectInv ==
    had # None => \A n \in InFlight :
       /\ source = None
       /\ InFlight = {n}
       /\ selected # None
       /\ fetches[n].of = selected
       /\ had <= Len(log[selected])
       /\ fetches[n].step = "answered" =>
             /\ had <= Len(fetches[n].page)
             /\ Agree(fetches[n].page, log[selected], Len(fetches[n].page))

\* Wherever m is in the sequence, it is below all of seq.
Below(seq, whole, m) ==
    \A i \in 1 .. Len(seq), x, y \in 1 .. Len(whole) :
       seq[i] = whole[x] /\ whole[y] = m => x < y

\* Then the next question goes to the selected conversation, and its reply is
\* stored below what the page shows.
AskInv ==
    had # None /\ InFlight = {} =>
       /\ selected = None => had = 0
       /\ \A c \in Chats : source = c =>
             /\ pc[c] = "sent" => target[c] = selected
             /\ selected # None /\ pc[c] \in {"asked", "complete"} =>
                   Server!Has(selected, Server!Question(c))
             /\ selected # None /\ pc[c] = "complete" =>
                   Below(messages, log[selected], Server!Reply(c))

ConsoleInv == TypeOK /\ LogInv /\ ClickInv /\ FetchInv /\ SelectInv /\ AskInv
=============================================================================
