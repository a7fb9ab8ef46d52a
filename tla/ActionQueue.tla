----------------------------- MODULE ActionQueue -----------------------------
(***************************************************************************)
(* The download queue of the image crawler (gecco-java-demo, package exec).*)
(* AbstractActionQueue keeps a LinkedList under a lock; the thread pool    *)
(* behind it is used as a serial executor: only the action at the head of  *)
(* the list is ever handed to the pool, by enqueue when the list was empty *)
(* and by dequeue otherwise.  The hand-over happens after the lock has     *)
(* been released, so it is a step of its own.                              *)
(***************************************************************************)
EXTENDS Naturals, Sequences

CONSTANTS Producers,   \* spider threads, which call enqueue
          Workers,     \* threads of the ThreadPoolExecutor
          Actions,     \* DownloadAction objects; each is built for one enqueue
          NoAction     \* the Java null of a local variable

ASSUME ProducersAreNotWorkers == Producers \cap Workers = {}
ASSUME NoActionIsNoAction == NoAction \notin Actions

VARIABLES fresh,       \* actions not constructed yet
          queue,       \* AbstractActionQueue.queue
          pc,          \* where each thread is
          held,        \* `action` or `nextAction` of that thread
          submitted    \* tasks in the work queue of the pool

vars == <<fresh, queue, pc, held, submitted>>

Threads == Producers \cup Workers

-------------------------------------------------------------------------------
Init == /\ fresh = Actions
        /\ queue = <<>>
        /\ pc = [t \in Threads |-> "idle"]
        /\ held = [t \in Threads |-> NoAction]
        /\ submitted = {}

Goto(t, label, a) == /\ pc' = [pc EXCEPT ![t] = label]
                     /\ held' = [held EXCEPT ![t] = a]

\* Mutant of Enqueue: without the test of line 31 every caller hands over.
EnqueueAlwaysSubmits(p, a) ==
    /\ pc[p] = "idle"
    /\ a \in fresh
    /\ fresh' = fresh \ {a}
    /\ queue' = Append(queue, a)
    /\ Goto(p, "submit", a)
    /\ UNCHANGED submitted

\* Mutant of Enqueue: addFirst for add.
EnqueueInFront(p, a) ==
    /\ pc[p] = "idle"
    /\ a \in fresh
    /\ fresh' = fresh \ {a}
    /\ queue' = <<a>> \o queue
    /\ IF Len(queue') = 1
       THEN Goto(p, "submit", a)
       ELSE UNCHANGED <<pc, held>>
    /\ UNCHANGED submitted

\* AbstractActionQueue.enqueue, the synchronized block: canExecute is true
\* for the caller that finds its action alone in the list.
Enqueue(p, a) ==
    /\ pc[p] = "idle"
    /\ a \in fresh
    /\ fresh' = fresh \ {a}
    /\ queue' = Append(queue, a)
    /\ IF Len(queue') = 1
       THEN Goto(p, "submit", a)
       ELSE UNCHANGED <<pc, held>>
    /\ UNCHANGED submitted

\* executor.execute, called by enqueue and by dequeue outside the lock.  The
\* work queue is unbounded and the pool is never shut down, so the
\* DiscardPolicy of the pool has nothing to discard.
Submit(t) ==
    /\ pc[t] = "submit"
    /\ submitted' = submitted \cup {held[t]}
    /\ Goto(t, "idle", NoAction)
    /\ UNCHANGED <<fresh, queue>>

\* A pool thread takes any task: a thread below corePoolSize starts with the
\* task it was created for, ahead of those in the work queue.
Start(w, a) ==
    /\ pc[w] = "idle"
    /\ a \in submitted
    /\ submitted' = submitted \ {a}
    /\ Goto(w, "run", a)
    /\ UNCHANGED <<fresh, queue>>

\* Action.run: execute() returned.
ExecuteReturns(w) ==
    /\ pc[w] = "run"
    /\ Goto(w, "finally", held[w])
    /\ UNCHANGED <<fresh, queue, submitted>>

\* Mutant of ExecuteThrows: dequeue outside the finally block.
ExecuteThrowsSkipsDequeue(w) ==
    /\ pc[w] = "run"
    /\ Goto(w, "idle", NoAction)
    /\ UNCHANGED <<fresh, queue, submitted>>

\* Action.run: execute() threw; an Exception is logged, an Error ends the
\* thread (the pool replaces it), and the finally block runs in both cases.
ExecuteThrows(w) ==
    /\ pc[w] = "run"
    /\ Goto(w, "finally", held[w])
    /\ UNCHANGED <<fresh, queue, submitted>>

\* Mutant of Dequeue: without the test of line 58 null is handed over.
DequeueSubmitsNull(w) ==
    /\ pc[w] = "finally"
    /\ queue # <<>>
    /\ queue' = Tail(queue)
    /\ Goto(w, "submit", IF queue' # <<>> THEN Head(queue') ELSE NoAction)
    /\ UNCHANGED <<fresh, submitted>>

\* Mutant of Dequeue: the next action is not handed over.
DequeueForgetsNext(w) ==
    /\ pc[w] = "finally"
    /\ queue # <<>>
    /\ queue' = Tail(queue)
    /\ Goto(w, "idle", NoAction)
    /\ UNCHANGED <<fresh, submitted>>

\* Mutant of Dequeue: the newest action for the next one.
DequeuePeeksLast(w) ==
    /\ pc[w] = "finally"
    /\ queue # <<>>
    /\ queue' = Tail(queue)
    /\ IF queue' # <<>>
       THEN Goto(w, "submit", queue'[Len(queue')])
       ELSE Goto(w, "idle", NoAction)
    /\ UNCHANGED <<fresh, submitted>>

\* AbstractActionQueue.dequeue on a list that is not empty: the head goes,
\* whichever action calls, and the new head is handed to the pool.
Dequeue(w) ==
    /\ pc[w] = "finally"
    /\ queue # <<>>
    /\ queue' = Tail(queue)
    /\ IF queue' # <<>>
       THEN Goto(w, "submit", Head(queue'))
       ELSE Goto(w, "idle", NoAction)
    /\ UNCHANGED <<fresh, submitted>>

\* AbstractActionQueue.dequeue on an empty list: queue.remove() throws
\* NoSuchElementException out of run(), and the pool replaces the thread.
DequeueEmpty(w) ==
    /\ pc[w] = "finally"
    /\ queue = <<>>
    /\ Goto(w, "idle", NoAction)
    /\ UNCHANGED <<fresh, queue, submitted>>

\* AbstractActionQueue.clear, an operation of the interface that nothing in
\* the repository calls.
Clear(p) ==
    /\ pc[p] = "idle"
    /\ queue # <<>>
    /\ queue' = <<>>
    /\ UNCHANGED <<fresh, pc, held, submitted>>

-------------------------------------------------------------------------------
Producer(p) == Submit(p) \/ \E a \in Actions : Enqueue(p, a)

Worker(w) == \/ Submit(w)
             \/ \E a \in Actions : Start(w, a)
             \/ ExecuteReturns(w)
             \/ ExecuteThrows(w)
             \/ Dequeue(w)
             \/ DequeueEmpty(w)

Next == (\E p \in Producers : Producer(p)) \/ (\E w \in Workers : Worker(w))

NextWithClear == Next \/ \E p \in Producers : Clear(p)

\* A thread that can go on does.  execute() itself ends: DownloadAction sets
\* a connect and a read timeout of 5 s.  No fairness for enqueue or clear.
Fairness == /\ \A p \in Producers : WF_vars(Submit(p))
            /\ \A w \in Workers : WF_vars(Worker(w))

SafeSpec == Init /\ [][Next]_vars

Spec == SafeSpec /\ Fairness

SpecWithClear == Init /\ [][NextWithClear]_vars /\ Fairness

-------------------------------------------------------------------------------
TypeOK == /\ fresh \subseteq Actions
          /\ queue \in Seq(Actions)
          /\ pc \in [Threads -> {"idle", "submit", "run", "finally"}]
          /\ held \in [Threads -> Actions \cup {NoAction}]
          /\ submitted \subseteq Actions
          /\ \A t \in Threads : pc[t] # "idle" => held[t] \in Actions
          /\ \A p \in Producers : pc[p] \in {"idle", "submit"}

Busy == {t \in Threads : pc[t] # "idle"}

InFlight == submitted \cup {held[t] : t \in Busy}

\* One token carries the queue on (enqueue:27-41 and dequeue:44-61 hand over
\* after they have unlocked).  It is not doubled: no two threads are inside the
\* hand-over, execute() or the finally block at once, and none is while a task
\* waits in the pool, so downloads never overlap although the pool has five
\* threads.  It is not lost: while the list is not empty its head is in the
\* hands of some thread or of the pool.
OneToken == /\ \A t, u \in Busy : t = u
            /\ \A a, b \in submitted : a = b
            /\ Busy # {} => submitted = {}
            /\ queue # <<>> => Head(queue) \in InFlight

\* The errors dequeue logs (lines 48 and 52) cannot happen: an action whose
\* run() is at its finally block is the head of the list.
DequeueFindsItsAction ==
    \A w \in Workers : pc[w] = "finally" => queue # <<>> /\ held[w] = Head(queue)

\* Every action in the list leaves it: the list drains however enqueues, runs
\* and failures interleave.
Drains == \A a \in Actions :
    (\E i \in DOMAIN queue : queue[i] = a) ~> ~(\E i \in DOMAIN queue : queue[i] = a)

-------------------------------------------------------------------------------
\* The queue implements the serial executor: `running` is what workers really
\* execute, `pending` is the list without a head that has been started.
Running == {held[w] : w \in {v \in Workers : pc[v] = "run"}}

HeadStarted == /\ queue # <<>>
               /\ \E w \in Workers : /\ pc[w] \in {"run", "finally"}
                                     /\ held[w] = Head(queue)

Pending == IF HeadStarted THEN Tail(queue) ELSE queue

Serial == INSTANCE SerialExecutor
          WITH unsubmitted <- fresh, pending <- Pending, running <- Running

\* Actions run one at a time, in the order of enqueue, each once.
ImplementsSerialExecutor == Serial!SafeSpec

\* ... and each of them eventually.
SerialFairness == Serial!Fairness
===============================================================================
