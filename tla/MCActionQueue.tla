---------------------------- MODULE MCActionQueue ----------------------------
\* Bounds: two spider threads, two pool threads (enough for two downloads to
\* overlap, which is what serial execution forbids), Actions actions in all.
EXTENDS ActionQueue

CONSTANTS p1, p2, w1, w2, a1, a2, a3, a4

MCProducers == {p1, p2}
MCWorkers == {w1, w2}
MCActions == {a1, a2, a3, a4}
===============================================================================
