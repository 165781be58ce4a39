--------------------------- MODULE MCChatService ---------------------------
(* Instances of ChatService for TLC.                                       *)
EXTENDS ChatService

CONSTANTS c1, c2, p1, p2, mine, other, usual, special

InOrder == << usual, special >>

\* The usual agent leaves the order to the priorities; the special one wants
\* the provider of lower priority first, and lists it twice.
Lists == [a \in {usual, special} |->
            IF a = usual THEN << >> ELSE << p2, p2, p1 >>]

ByPriority == [p \in {p1, p2} |-> IF p = p1 THEN 1 ELSE 2]
=============================================================================
