\* Three threads over a ring of two slots.
SPECIFICATION Spec
CONSTANTS
    t1 = t1  t2 = t2  t3 = t3  x1 = x1  x2 = x2
    Threads <- MCThreads
    Items <- MCItems
    Capacity = 2
    Null = Null
INVARIANTS TypeOK RingConsistent NoStrandedTaker
PROPERTY ImplementsBoundedFifo
