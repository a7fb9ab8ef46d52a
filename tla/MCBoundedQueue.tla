---------------------------- MODULE MCBoundedQueue ----------------------------
\* Bounds: three threads, each free to put and to take, and two items, over a
\* ring of two slots: the indexes wrap, and waiters of both kinds meet.
EXTENDS BoundedQueue

CONSTANTS t1, t2, t3, x1, x2

MCThreads == {t1, t2, t3}
MCItems == {x1, x2}
===============================================================================
