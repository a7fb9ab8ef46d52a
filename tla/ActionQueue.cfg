\* Four downloads, two spider threads, two pool threads.
SPECIFICATION Spec
CONSTANTS
    p1 = p1  p2 = p2  w1 = w1  w2 = w2
    a1 = a1  a2 = a2  a3 = a3  a4 = a4
    Producers <- MCProducers
    Workers <- MCWorkers
    Actions <- MCActions
    NoAction = NoAction
INVARIANTS TypeOK OneToken DequeueFindsItsAction
PROPERTIES ImplementsSerialExecutor SerialFairness
\* All actions may have been enqueued and run: the system may stop.
CHECK_DEADLOCK FALSE
