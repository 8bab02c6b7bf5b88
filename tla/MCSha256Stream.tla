--------------------------- MODULE MCSha256Stream ---------------------------
EXTENDS Sha256Stream
\* Longer than two blocks, so that every length but the last meets every index.
MCMessage == [a |-> [i \in 1 .. 9 |-> i], b |-> [i \in 1 .. 9 |-> 10 + i], c |-> <<21, 22>>]
=============================================================================
