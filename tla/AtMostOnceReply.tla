-------------------------- MODULE AtMostOnceReply --------------------------
(***************************************************************************)
(* What the WhatsApp side of the agent promises to a sender, whatever      *)
(* fails: a message id is claimed once, for ever, and only a claimed       *)
(* message is answered, at most once.  Nothing here promises an answer:    *)
(* the agent is an at-most-once consumer.                                  *)
(***************************************************************************)
EXTENDS Naturals

CONSTANT Msgs          \* the ids of the messages people send

VARIABLES claimed,     \* the ids the agent has taken responsibility for
          answers      \* how many answers to each id reached the platform

vars == << claimed, answers >>

Init == /\ claimed = {}
        /\ answers = [m \in Msgs |-> 0]

Claim(m) == /\ m \notin claimed
            /\ claimed' = claimed \cup {m}
            /\ UNCHANGED answers

Answer(m) == /\ m \in claimed
             /\ answers[m] = 0
             /\ answers' = [answers EXCEPT ![m] = 1]
             /\ UNCHANGED claimed

Next == \E m \in Msgs : Claim(m) \/ Answer(m)

Spec == Init /\ [][Next]_vars
=============================================================================
