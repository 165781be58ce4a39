---------------------------- MODULE EventStream ----------------------------
(***************************************************************************)
(* The dashboard's event stream: EventRecorder.record appends an event to  *)
(* the table dashboard_events and puts it into the queue of every          *)
(* subscriber; EventRecorder.subscribe registers a queue, sends what the   *)
(* table holds after the client's cursor, and then what the queue brings.  *)
(*                                                                         *)
(* Most events are recorded by coroutines of the event loop, in one step.  *)
(* The handlers that delete an agent or a provider are plain functions, so *)
(* they run in threads of the pool: the commit and the fan-out are two     *)
(* steps there, and anything may happen in between.  An event is its       *)
(* sequence number.                                                        *)
(***************************************************************************)
EXTENDS Naturals, Sequences, SequencesExt

CONSTANTS Clients,         \* browsers with an EventSource
          Threads,         \* pool threads that record an event
          Limit,           \* how many events events_after returns (100)
          MaxEvents,       \* bound on the number of events
          MaxDisconnects   \* bound on lost connections

ASSUME LimitAssumption == Limit \in Nat \ {0}
ASSUME BoundAssumption == MaxEvents \in Nat /\ MaxDisconnects \in Nat

VARIABLES last,         \* the last sequence number of dashboard_events
          committed,    \* what a thread has committed and not yet handed out
          subscribers,  \* the clients whose queue is in _subscribers
          pc,           \* a connection is "closed", "reading" or "streaming"
          backlog,      \* what events_after returned and is not yet sent
          queue,        \* the subscriber's asyncio.Queue
          cursor,       \* the client's Last-Event-ID
          received,     \* all events the client has been sent, in order
          disconnects,  \* how many connections were lost
          byThread,     \* the events that a thread recorded
          skipped       \* the events beyond the page that a client was read

server == << last, committed, byThread >>
vars == << server, subscribers, pc, backlog, queue, cursor, received,
           disconnects, skipped >>
-----------------------------------------------------------------------------
Events == 1 .. MaxEvents

Init == /\ last = 0
        /\ committed = [t \in Threads |-> 0]
        /\ subscribers = {}
        /\ pc = [c \in Clients |-> "closed"]
        /\ backlog = [c \in Clients |-> << >>]
        /\ queue = [c \in Clients |-> << >>]
        /\ cursor = [c \in Clients |-> 0]
        /\ received = [c \in Clients |-> << >>]
        /\ disconnects = 0
        /\ byThread = {}
        /\ skipped = [c \in Clients |-> {}]

\* No coroutine is between registering its queue and reading the table.
LoopFree == \A c \in Clients : pc[c] # "reading"

FanOut(e) == queue' = [c \in Clients |-> IF c \in subscribers
                                          THEN Append(queue[c], e)
                                          ELSE queue[c]]

\* record, in the event loop.
Record == /\ LoopFree
          /\ last < MaxEvents
          /\ last' = last + 1
          /\ FanOut(last')
          /\ UNCHANGED << committed, byThread, subscribers, pc, backlog, cursor,
                          received, disconnects, skipped >>

\* record, in a thread: append_event ...
Commit(t) == /\ committed[t] = 0
             /\ last < MaxEvents
             /\ last' = last + 1
             /\ committed' = [committed EXCEPT ![t] = last']
             /\ byThread' = byThread \cup {last'}
             /\ UNCHANGED << subscribers, pc, backlog, queue, cursor, received,
                             disconnects, skipped >>

\* ... and put_nowait into every queue.
HandOut(t) == /\ committed[t] # 0
              /\ FanOut(committed[t])
              /\ committed' = [committed EXCEPT ![t] = 0]
              /\ UNCHANGED << last, byThread, subscribers, pc, backlog, cursor,
                              received, disconnects, skipped >>

\* Seeded fault: the queue is never registered.
SubscribeLate(c) ==
    /\ LoopFree
    /\ pc[c] = "closed"
    /\ pc' = [pc EXCEPT ![c] = "reading"]
    /\ queue' = [queue EXCEPT ![c] = << >>]
    /\ UNCHANGED << server, subscribers, backlog, cursor, received,
                    disconnects, skipped >>

\* The client connects or reconnects with its cursor: the queue is registered.
Subscribe(c) ==
    /\ LoopFree
    /\ pc[c] = "closed"
    /\ subscribers' = subscribers \cup {c}
    /\ pc' = [pc EXCEPT ![c] = "reading"]
    /\ queue' = [queue EXCEPT ![c] = << >>]
    /\ UNCHANGED << server, backlog, cursor, received, disconnects,
                    skipped >>

\* The events after n, at most Limit of them.
EventsAfter(n) ==
    LET upto == IF last < n + Limit THEN last ELSE n + Limit
    IN  [i \in 1 .. (IF upto > n THEN upto - n ELSE 0) |-> n + i]

\* A client that is further behind is read one page and then the queue.
ReadBacklog(c) ==
    /\ pc[c] = "reading"
    /\ backlog' = [backlog EXCEPT ![c] = EventsAfter(cursor[c])]
    /\ skipped' = [skipped EXCEPT ![c] = (@ \cap 1 .. cursor[c])
                                            \cup (cursor[c] + Limit + 1 .. last)]
    /\ pc' = [pc EXCEPT ![c] = "streaming"]
    /\ UNCHANGED << server, subscribers, queue, cursor, received, disconnects >>

Receive(c, e) == /\ received' = [received EXCEPT ![c] = Append(@, e)]
                 /\ cursor' = [cursor EXCEPT ![c] = e]

SendBacklog(c) == /\ LoopFree
                  /\ pc[c] = "streaming"
                  /\ backlog[c] # << >>
                  /\ Receive(c, Head(backlog[c]))
                  /\ backlog' = [backlog EXCEPT ![c] = Tail(@)]
                  /\ UNCHANGED << server, subscribers, pc, queue, disconnects,
                                  skipped >>

SendLive(c) == /\ LoopFree
               /\ pc[c] = "streaming"
               /\ backlog[c] = << >>
               /\ queue[c] # << >>
               /\ Receive(c, Head(queue[c]))
               /\ queue' = [queue EXCEPT ![c] = Tail(@)]
               /\ UNCHANGED << server, subscribers, pc, backlog, disconnects,
                               skipped >>

\* Seeded fault: the queue of a lost connection stays registered.
DisconnectLeaks(c) == /\ LoopFree
                      /\ disconnects < MaxDisconnects
                      /\ pc[c] = "streaming"
                      /\ pc' = [pc EXCEPT ![c] = "closed"]
                      /\ backlog' = [backlog EXCEPT ![c] = << >>]
                      /\ disconnects' = disconnects + 1
                      /\ UNCHANGED << server, subscribers, queue, cursor, received,
                                      skipped >>

\* The connection is lost; the generator's finally removes the queue.
Disconnect(c) == /\ LoopFree
                 /\ disconnects < MaxDisconnects
                 /\ pc[c] = "streaming"
                 /\ pc' = [pc EXCEPT ![c] = "closed"]
                 /\ subscribers' = subscribers \ {c}
                 /\ backlog' = [backlog EXCEPT ![c] = << >>]
                 /\ queue' = [queue EXCEPT ![c] = << >>]
                 /\ disconnects' = disconnects + 1
                 /\ UNCHANGED << server, cursor, received, skipped >>

Send(c) == SendBacklog(c) \/ SendLive(c)

Next == \/ Record
        \/ \E t \in Threads : Commit(t) \/ HandOut(t)
        \/ \E c \in Clients : \/ Subscribe(c) \/ ReadBacklog(c)
                              \/ Send(c) \/ Disconnect(c)

\* The event loop and the threads finish what they began, and an EventSource
\* connects again by itself.
Fairness == /\ \A t \in Threads : WF_vars(HandOut(t))
            /\ \A c \in Clients : /\ SF_vars(Subscribe(c))
                                  /\ WF_vars(ReadBacklog(c))
                                  /\ SF_vars(Send(c))

Spec == Init /\ [][Next]_vars

FairSpec == Spec /\ Fairness
-----------------------------------------------------------------------------
\* The values the variables take.  The queues hold events that exist, and no
\* queue of a lost connection stays registered.
TypeOK == /\ last \in 0 .. MaxEvents
          /\ committed \in [Threads -> 0 .. last]
          /\ subscribers = {c \in Clients : pc[c] # "closed"}
          /\ pc \in [Clients -> {"closed", "reading", "streaming"}]
          /\ backlog \in [Clients -> Seq(1 .. last)]
          /\ queue \in [Clients -> Seq(1 .. last)]
          /\ received \in [Clients -> Seq(1 .. last)]
          /\ cursor \in [Clients -> 0 .. last]
          /\ disconnects \in 0 .. MaxDisconnects
          /\ byThread \subseteq 1 .. last
          /\ skipped \in [Clients -> SUBSET (1 .. last)]

\* A client that the server has read the table for at least once.
Connected(c) == pc[c] = "streaming"

\* What the client has been sent, and then what the server holds for it.
Sent(c) == received[c] \o backlog[c] \o queue[c]

InHand == {committed[t] : t \in Threads}

Rising(seq) == \A i, k \in 1 .. Len(seq) : i < k => seq[i] < seq[k]

Lists(seq, S) == Rising(seq) /\ ToSet(seq) = S

\* What a connected client has been sent, followed by what the server holds for
\* it, lacks nothing of the table but what lay beyond one page when the client
\* connected.  As long as the event loop alone records events, it is in order and
\* without repetition, however often the client has reconnected; as long as no
\* connection is lost, and whatever the threads do, an event that is not there is
\* in the hands of a thread (subscribe, events.py 37 to 47, and events_after).
NothingMissed ==
    \A c \in Clients : Connected(c) =>
       LET due == (1 .. last) \ skipped[c]
       IN  /\ byThread = {} => Lists(Sent(c), due)
           /\ disconnects = 0 => due \subseteq ToSet(Sent(c)) \cup InHand

\* Every event reaches every client, across lost connections, unless it was
\* beyond the page of a client that connected late, or a thread recorded events
\* and a connection was lost: the cursor may then have passed an event that its
\* thread has yet to hand out.
EveryEventArrives ==
    \A c \in Clients, e \in Events :
       last >= e ~> \/ e \in ToSet(received[c]) \cup skipped[c]
                    \/ byThread # {} /\ disconnects > 0
-----------------------------------------------------------------------------
(***************************************************************************)
(* The inductive invariant behind NothingMissed.                           *)
(***************************************************************************)
\* A thread hands out what it recorded.
HandInv == \A t \in Threads : committed[t] # 0 => committed[t] \in byThread

\* The queue of a client is filled while it is registered; nothing but a thread
\* fills it before the table is read.
QueueInv ==
    \A c \in Clients :
       /\ pc[c] # "streaming" => backlog[c] = << >>
       /\ pc[c] = "closed" => queue[c] = << >>
       /\ pc[c] = "reading" /\ byThread = {} => queue[c] = << >>

\* The first connection starts from nothing.
FreshInv ==
    \A c \in Clients : disconnects = 0 /\ pc[c] # "streaming" =>
       received[c] = << >> /\ cursor[c] = 0 /\ skipped[c] = {}

\* The cursor tells the server what the client has.
CursorInv ==
    \A c \in Clients :
       byThread = {} => Lists(received[c], (1 .. cursor[c]) \ skipped[c])

StreamInv == TypeOK /\ HandInv /\ QueueInv /\ FreshInv /\ CursorInv
=============================================================================
