--------------------------- MODULE MCEventStream ---------------------------
EXTENDS EventStream

CONSTANTS browser1, browser2, t1, t2
=============================================================================
