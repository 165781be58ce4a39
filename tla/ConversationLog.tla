--------------------------- MODULE ConversationLog ---------------------------
(***************************************************************************)
(* What the chat endpoints promise to whoever reads a conversation: the    *)
(* table of messages only grows; a chat is in one conversation, with one   *)
(* question, then perhaps one reply; and a client is shown no reply that   *)
(* the table does not have.  Nothing here promises a reply.                *)
(***************************************************************************)
EXTENDS Sequences, SequencesExt

CONSTANTS Chats,          \* requests
          Conversations   \* ids of conversations

VARIABLES log,     \* dashboard_messages, by conversation
          shown    \* the chats whose reply a client was shown

vars == << log, shown >>

Question(c) == [chat |-> c, role |-> "user"]
Reply(c) == [chat |-> c, role |-> "assistant"]

Messages == [chat : Chats, role : {"user", "assistant"}]

Has(k, m) == m \in ToSet(log[k])

Asked(c) == \E k \in Conversations : Has(k, Question(c))
Answered(c) == \E k \in Conversations : Has(k, Reply(c))

Store(k, m) == log' = [log EXCEPT ![k] = Append(@, m)]

Init == /\ log = [k \in Conversations |-> << >>]
        /\ shown = {}

Ask(c, k) == /\ ~Asked(c)
             /\ Store(k, Question(c))
             /\ UNCHANGED shown

Answer(c, k) == /\ Has(k, Question(c))
                /\ ~Answered(c)
                /\ Store(k, Reply(c))
                /\ UNCHANGED shown

Show(c) == /\ Answered(c)
           /\ shown' = shown \cup {c}
           /\ UNCHANGED log

Next == \E c \in Chats : \/ \E k \in Conversations : Ask(c, k) \/ Answer(c, k)
                         \/ Show(c)

Spec == Init /\ [][Next]_vars
=============================================================================
