--------------------------- MODULE MCDurableSteps ---------------------------
\* Instances of DurableSteps for TLC: two steps, two slots.
EXTENDS DurableSteps

CONSTANTS c1, c2
=============================================================================
