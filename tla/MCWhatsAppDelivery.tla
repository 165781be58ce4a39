------------------------- MODULE MCWhatsAppDelivery -------------------------
EXTENDS WhatsAppDelivery

CONSTANTS m1, m2, picture, w, p1, p2

\* A feed that repeats a message, as a platform does that saw no confirmation,
\* with an update in between that is not a text.
FeedWithRepeat == << m1, picture, m2, m1 >>
FeedOfRepeats == << m1, m1, m2 >>
FeedOfOne == << m1 >>

Faults(upstream, store_, restart, forget) ==
    [k \in Mishaps |-> CASE k = "upstream" -> upstream [] k = "store" -> store_
                         [] k = "restart" -> restart [] k = "forget" -> forget]

AllButStore == Faults(1, 0, 1, 1)
UpstreamAndStore == Faults(1, 1, 0, 0)
StoreOnly == Faults(0, 1, 0, 0)
=============================================================================
