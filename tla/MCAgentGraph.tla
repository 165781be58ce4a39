---------------------------- MODULE MCAgentGraph ----------------------------
(* Instance of AgentGraph for TLC.                                         *)
EXTENDS AgentGraph, TLC

CONSTANTS hook, retry, call, chat1, chat2, m1, d1

\* A webhook and its retry, or two updates of the worker, a caller of /messages
\* that uses the same id, and two chats in the dashboard.
With(platform) == [r \in {hook, retry, call, chat1, chat2} |->
                     CASE r \in {hook, retry} -> platform
                       [] r = call -> "message"
                       [] OTHER -> "chat"]

MockAndOfficial == {With("webhook"), With("worker")}

SameId == [r \in {hook, retry, call} |-> m1]

\* The webhook asks for the profile, one chat for the tasks, the others for
\* neither; a decision of "developer" takes the first two from the assistant.
AsksFor(route_, task, profile) ==
    [keyword |-> route_, task |-> task, profile |-> profile]

Questions == [r \in {hook, retry, call, chat1, chat2} |->
                CASE r \in {hook, retry} ->
                        AsksFor("personal_assistant", FALSE, TRUE)
                  [] r = chat1 -> AsksFor("personal_assistant", TRUE, FALSE)
                  [] r = call -> AsksFor("personal_assistant", FALSE, FALSE)
                  [] r = chat2 -> AsksFor("developer", FALSE, FALSE)]

\* The webhook and its retry, or the two updates, are alike.
Alike == Permutations({hook, retry})
=============================================================================
