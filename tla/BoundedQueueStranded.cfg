\* A put that waits for room, against the comment on line 43.
SPECIFICATION Spec
CONSTANTS
    t1 = t1  t2 = t2  t3 = t3  x1 = x1  x2 = x2
    Threads <- MCThreads
    Items <- MCItems
    Capacity = 2
    Null = Null
INVARIANT NoStrandedPutter
