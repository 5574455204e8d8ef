-------------------------- MODULE MCUniqueEnqueue ---------------------------
\* Instances of UniqueEnqueue for TLC: callers are interchangeable.
EXTENDS UniqueEnqueue, TLC

CONSTANTS c1, c2, c3

Callers == Permutations({c1, c2, c3})
=============================================================================
