-------------------------- MODULE ActionQueueProofs --------------------------
(***************************************************************************)
(* The safety properties of ActionQueue for every number of spider         *)
(* threads, pool threads and actions.                                      *)
(***************************************************************************)
EXTENDS ActionQueue, SequenceTheorems, TLAPS

\* The token: whoever is not idle holds the head of the list, alone, and
\* what waits in the pool is that head too.
Token == /\ \A t \in Threads : pc[t] # "idle" =>
                /\ queue # <<>>
                /\ held[t] = Head(queue)
                /\ submitted = {}
         /\ \A t, u \in Threads : pc[t] # "idle" /\ pc[u] # "idle" => t = u
         /\ \A a \in submitted : queue # <<>> /\ a = Head(queue)
         /\ queue # <<>> => submitted # {} \/ \E t \in Threads : pc[t] # "idle"

IInv == TypeOK /\ Token

-------------------------------------------------------------------------------
\* Facts about the list that enqueue and dequeue rest on.
LEMMA AppendKeepsHead ==
    ASSUME NEW S, NEW q \in Seq(S), NEW a \in S
    PROVE  /\ Append(q, a) \in Seq(S)
           /\ Append(q, a) # <<>>
           /\ Len(Append(q, a)) = 1 <=> q = <<>>
           /\ q = <<>> => Head(Append(q, a)) = a
           /\ q # <<>> => Head(Append(q, a)) = Head(q)
  <1>1. /\ Append(q, a) \in Seq(S) /\ Append(q, a) # <<>>
        /\ Len(Append(q, a)) = Len(q) + 1
    BY AppendProperties
  <1>2. Len(q) = 0 <=> q = <<>>
    BY EmptySeq
  <1>. QED BY <1>1, <1>2, HeadTailAppend

LEMMA TailOfQueue ==
    ASSUME NEW S, NEW q \in Seq(S), q # <<>>
    PROVE  Tail(q) \in Seq(S) /\ Head(q) \in S
  OBVIOUS

-------------------------------------------------------------------------------
\* The token is where it should be before the first enqueue.
LEMMA InitIInv == Init => IInv
  <1>1. ASSUME Init PROVE TypeOK
    BY <1>1 DEF Init, TypeOK, Threads
  <1>2. ASSUME Init PROVE Token
    BY <1>2 DEF Init, Token
  <1>. QED BY <1>1, <1>2 DEF IInv

\* enqueue makes a token exactly when the list was empty.
LEMMA EnqueueKeeps ==
    ASSUME IInv, NEW p \in Producers, NEW a \in Actions, Enqueue(p, a)
    PROVE  IInv'
  <1>. USE DEF IInv, TypeOK, Token
  <1>0. p \in Threads /\ queue \in Seq(Actions)
    BY DEF Threads
  <1>1. CASE queue = <<>>
    <2>1. queue' = Append(queue, a) /\ Len(queue') = 1 /\ Head(queue') = a /\ queue' # <<>>
      BY <1>0, <1>1, AppendKeepsHead DEF Enqueue
    <2>2. /\ pc' = [pc EXCEPT ![p] = "submit"]
          /\ held' = [held EXCEPT ![p] = a]
          /\ submitted' = {}
          /\ fresh' = fresh \ {a}
      BY <1>1, <2>1 DEF Enqueue, Goto
    <2>3. \A t \in Threads : pc[t] = "idle"
      BY <1>1
    <2>4. TypeOK'
      BY <1>0, <2>1, <2>2, AppendKeepsHead, ProducersAreNotWorkers
    <2>5. Token'
      BY <1>0, <2>1, <2>2, <2>3
    <2>. QED BY <2>4, <2>5
  <1>2. CASE queue # <<>>
    <2>1. /\ queue' = Append(queue, a)
          /\ queue' # <<>>
          /\ Head(queue') = Head(queue)
          /\ queue' \in Seq(Actions)
          /\ Len(queue') # 1
      BY <1>0, <1>2, AppendKeepsHead DEF Enqueue
    <2>2. UNCHANGED <<pc, held, submitted>> /\ fresh' = fresh \ {a}
      BY <2>1 DEF Enqueue
    <2>. QED BY <1>2, <2>1, <2>2
  <1>. QED BY <1>1, <1>2

\* A hand-over moves the token from the thread to the pool.
LEMMA SubmitKeeps ==
    ASSUME IInv, NEW t \in Threads, Submit(t)
    PROVE  IInv'
  <1>. USE DEF IInv, TypeOK, Token
  <1>1. /\ pc[t] = "submit"
        /\ held[t] = Head(queue) /\ queue # <<>> /\ held[t] \in Actions
        /\ \A u \in Threads : u # t => pc[u] = "idle"
    BY DEF Submit
  <1>2. /\ submitted' = {held[t]}
        /\ pc' = [pc EXCEPT ![t] = "idle"]
        /\ held' = [held EXCEPT ![t] = NoAction]
        /\ UNCHANGED <<fresh, queue>>
    BY <1>1 DEF Submit, Goto
  <1>3. TypeOK'
    BY <1>1, <1>2
  <1>4. Token'
    BY <1>1, <1>2
  <1>. QED BY <1>3, <1>4

\* A pool thread takes the token from the pool.
LEMMA StartKeeps ==
    ASSUME IInv, NEW w \in Workers, NEW a \in Actions, Start(w, a)
    PROVE  IInv'
  <1>. USE DEF IInv, TypeOK, Token
  <1>1. /\ a = Head(queue) /\ queue # <<>>
        /\ \A u \in Threads : pc[u] = "idle"
        /\ w \in Threads
    BY DEF Start, Threads
  <1>2. /\ submitted' = {}
        /\ pc' = [pc EXCEPT ![w] = "run"]
        /\ held' = [held EXCEPT ![w] = a]
        /\ UNCHANGED <<fresh, queue>>
    BY <1>1 DEF Start, Goto
  <1>3. TypeOK'
    BY <1>1, <1>2, ProducersAreNotWorkers
  <1>4. Token'
    BY <1>1, <1>2
  <1>. QED BY <1>3, <1>4

\* Running keeps the token, whether execute() returns or throws.
LEMMA ExecuteKeeps ==
    ASSUME IInv, NEW w \in Workers, ExecuteReturns(w) \/ ExecuteThrows(w)
    PROVE  IInv'
  <1>. USE DEF IInv, TypeOK, Token
  <1>1. /\ w \in Threads /\ pc[w] = "run" /\ held[w] \in Actions
        /\ pc' = [pc EXCEPT ![w] = "finally"]
        /\ held' = [held EXCEPT ![w] = held[w]]
        /\ UNCHANGED <<fresh, queue, submitted>>
    BY DEF ExecuteReturns, ExecuteThrows, Goto, Threads
  <1>2. held' = held
    BY <1>1
  <1>3. TypeOK'
    BY <1>1, <1>2, ProducersAreNotWorkers
  <1>4. Token'
    BY <1>1, <1>2
  <1>. QED BY <1>3, <1>4

\* dequeue removes its own action and passes the token to the next one.
LEMMA DequeueKeeps ==
    ASSUME IInv, NEW w \in Workers, Dequeue(w)
    PROVE  IInv'
  <1>. USE DEF IInv, TypeOK, Token
  <1>1. /\ w \in Threads /\ submitted = {}
        /\ \A u \in Threads : u # w => pc[u] = "idle"
        /\ queue' = Tail(queue) /\ queue' \in Seq(Actions)
        /\ UNCHANGED <<fresh, submitted>>
    BY TailOfQueue DEF Dequeue, Threads
  <1>2. CASE queue' = <<>>
    <2>1. /\ pc' = [pc EXCEPT ![w] = "idle"]
          /\ held' = [held EXCEPT ![w] = NoAction]
      BY <1>2 DEF Dequeue, Goto
    <2>2. TypeOK'
      BY <1>1, <2>1
    <2>3. Token'
      BY <1>1, <1>2, <2>1
    <2>. QED BY <2>2, <2>3
  <1>3. CASE queue' # <<>>
    <2>1. /\ pc' = [pc EXCEPT ![w] = "submit"]
          /\ held' = [held EXCEPT ![w] = Head(queue')]
      BY <1>3 DEF Dequeue, Goto
    <2>2. Head(queue') \in Actions
      BY <1>1, <1>3, TailOfQueue
    <2>3. TypeOK'
      <3>1. w \notin Producers
        BY ProducersAreNotWorkers
      <3>2. \A u \in Threads \ {w} : pc'[u] = pc[u] /\ held'[u] = held[u]
        BY <1>1, <2>1
      <3>3. pc' \in [Threads -> {"idle", "submit", "run", "finally"}]
        BY <2>1
      <3>4. held' \in [Threads -> Actions \cup {NoAction}]
        BY <2>1, <2>2
      <3>5. \A t \in Threads : pc'[t] # "idle" => held'[t] \in Actions
        BY <1>1, <2>1, <2>2, <3>2
      <3>6. \A p \in Producers : pc'[p] \in {"idle", "submit"}
        BY <3>1, <3>2 DEF Threads
      <3>. QED BY <1>1, <3>3, <3>4, <3>5, <3>6
    <2>4. Token'
      BY <1>1, <1>3, <2>1
    <2>. QED BY <2>3, <2>4
  <1>. QED BY <1>2, <1>3

\* Every step keeps the invariant; dequeue on an empty list never happens.
LEMMA NextKeeps == IInv /\ [Next]_vars => IInv'
  <1>. SUFFICES ASSUME IInv, [Next]_vars PROVE IInv'
    OBVIOUS
  <1>1. ASSUME NEW p \in Producers, Producer(p) PROVE IInv'
    <2>1. p \in Threads
      BY DEF Threads
    <2>. QED BY <1>1, <2>1, EnqueueKeeps, SubmitKeeps DEF Producer
  <1>2. ASSUME NEW w \in Workers, Worker(w) PROVE IInv'
    <2>1. w \in Threads
      BY DEF Threads
    <2>2. ~DequeueEmpty(w)
      BY <2>1 DEF DequeueEmpty, IInv, Token
    <2>. QED BY <1>2, <2>1, <2>2, SubmitKeeps, StartKeeps, ExecuteKeeps, DequeueKeeps DEF Worker
  <1>3. CASE UNCHANGED vars
    BY <1>3 DEF vars, IInv, TypeOK, Token
  <1>. QED BY <1>1, <1>2, <1>3 DEF Next

\* The token, and what it carries, through every hand-over (lines 27 to 61).
THEOREM InvariantHolds == SafeSpec => []IInv
  BY InitIInv, NextKeeps, PTL DEF SafeSpec

-------------------------------------------------------------------------------
\* Variables keep their types.
THEOREM TypeCorrect == SafeSpec => []TypeOK
  <1>1. IInv => TypeOK
    BY DEF IInv
  <1>. QED BY <1>1, InvariantHolds, PTL

\* However many pool threads there are, the token is neither doubled, so that
\* two downloads never overlap, nor lost by a hand-over outside the lock.
THEOREM OneTokenHolds == SafeSpec => []OneToken
  <1>1. IInv => OneToken
    BY DEF IInv, Token, OneToken, InFlight, Busy
  <1>. QED BY <1>1, InvariantHolds, PTL

\* dequeue always removes the action it was called for.
THEOREM DequeueFindsItsActionHolds == SafeSpec => []DequeueFindsItsAction
  <1>1. IInv => DequeueFindsItsAction
    BY DEF IInv, Token, DequeueFindsItsAction, Threads
  <1>. QED BY <1>1, InvariantHolds, PTL

-------------------------------------------------------------------------------
\* The refinement mapping where the token decides it: nobody runs, or one
\* worker runs or has run the head of the list.
LEMMA MappingWhenNoneStarted ==
    ASSUME \A w \in Workers : pc[w] \in {"idle", "submit"}
    PROVE  Running = {} /\ Pending = queue
  BY DEF Running, HeadStarted, Pending

LEMMA MappingWhenStarted ==
    ASSUME IInv, NEW w \in Workers, pc[w] \in {"run", "finally"}
    PROVE  /\ Pending = Tail(queue)
           /\ pc[w] = "run" => Running = {Head(queue)}
           /\ pc[w] = "finally" => Running = {}
  <1>1. /\ queue # <<>> /\ held[w] = Head(queue)
        /\ \A v \in Workers : v # w => pc[v] = "idle"
    BY DEF IInv, Token, Threads
  <1>2. HeadStarted
    BY <1>1 DEF HeadStarted
  <1>. QED BY <1>1, <1>2 DEF Running, Pending

LEMMA EnqueueSubmits ==
    ASSUME IInv, NEW p \in Producers, NEW a \in Actions, Enqueue(p, a)
    PROVE  Serial!Submit(a)
  <1>1. /\ queue \in Seq(Actions) /\ queue' = Append(queue, a)
        /\ a \in fresh /\ fresh' = fresh \ {a}
    BY DEF Enqueue, IInv, TypeOK
  <1>2. \A w \in Workers : pc'[w] = pc[w] /\ held'[w] = held[w]
    <2>1. \A w \in Workers : w # p
      BY ProducersAreNotWorkers
    <2>. QED BY <2>1 DEF Enqueue, Goto, IInv, TypeOK, Threads
  <1>3. Running' = Running
    BY <1>2 DEF Running
  <1>4. CASE queue = <<>>
    <2>1. \A w \in Workers : pc[w] = "idle"
      BY <1>4 DEF IInv, Token, Threads
    <2>2. ~HeadStarted /\ ~HeadStarted'
      BY <1>2, <2>1 DEF HeadStarted
    <2>3. Pending = queue /\ Pending' = queue'
      BY <2>2 DEF Pending
    <2>. QED BY <1>1, <1>3, <2>3 DEF Serial!Submit
  <1>5. CASE queue # <<>>
    <2>1. /\ Head(queue') = Head(queue) /\ queue' # <<>>
          /\ Tail(queue') = Append(Tail(queue), a)
      BY <1>1, <1>5, AppendKeepsHead, HeadTailAppend
    <2>2. HeadStarted' = HeadStarted
      BY <1>2, <1>5, <2>1 DEF HeadStarted
    <2>3. Pending' = Append(Pending, a)
      BY <1>1, <2>1, <2>2 DEF Pending
    <2>. QED BY <1>1, <1>3, <2>3 DEF Serial!Submit
  <1>. QED BY <1>4, <1>5

\* Handing the head to the pool changes nothing a user of the queue can see.
LEMMA SubmitStutters ==
    ASSUME IInv, NEW t \in Threads, Submit(t)
    PROVE  UNCHANGED Serial!vars
  <1>1. \A u \in Threads : pc[u] \in {"idle", "submit"}
    BY DEF Submit, IInv, Token
  <1>2. \A u \in Threads : pc'[u] \in {"idle", "submit"}
    BY <1>1 DEF Submit, Goto, IInv, TypeOK
  <1>3. Running = {} /\ ~HeadStarted
    BY <1>1 DEF Running, HeadStarted, Threads
  <1>4. Running' = {} /\ ~HeadStarted'
    BY <1>2 DEF Running, HeadStarted, Threads
  <1>. QED BY <1>3, <1>4 DEF Serial!vars, Pending, Submit

LEMMA StartStarts ==
    ASSUME IInv, NEW w \in Workers, NEW a \in Actions, Start(w, a)
    PROVE  Serial!Start
  <1>1. /\ a = Head(queue) /\ queue # <<>>
        /\ \A u \in Workers : pc[u] = "idle"
    BY DEF Start, IInv, Token, Threads
  <1>2. Running = {} /\ Pending = queue
    BY <1>1, MappingWhenNoneStarted
  <1>3. UNCHANGED <<queue, fresh>> /\ pc'[w] = "run" /\ IInv'
    BY StartKeeps DEF Start, Goto, IInv, TypeOK, Threads
  <1>4. Running' = {Head(queue)} /\ Pending' = Tail(queue)
    <2>1. /\ queue' # <<>> /\ held'[w] = Head(queue')
          /\ \A v \in Workers : v # w => pc'[v] = "idle"
      BY <1>3 DEF IInv, Token, Threads
    <2>2. HeadStarted'
      BY <1>3, <2>1 DEF HeadStarted
    <2>. QED BY <1>3, <2>1, <2>2 DEF Running, Pending
  <1>. QED BY <1>1, <1>2, <1>3, <1>4 DEF Serial!Start

LEMMA ExecuteFinishes ==
    ASSUME IInv, NEW w \in Workers, ExecuteReturns(w) \/ ExecuteThrows(w)
    PROVE  Serial!Finish
  <1>1. /\ pc[w] = "run" /\ pc'[w] = "finally" /\ IInv'
        /\ UNCHANGED <<queue, fresh>>
    BY ExecuteKeeps DEF ExecuteReturns, ExecuteThrows, Goto, IInv, TypeOK, Threads
  <1>2. Running = {Head(queue)} /\ Pending = Tail(queue)
    BY <1>1, MappingWhenStarted
  <1>3. Running' = {} /\ Pending' = Tail(queue)
    <2>1. /\ queue' # <<>> /\ held'[w] = Head(queue')
          /\ \A v \in Workers : v # w => pc'[v] = "idle"
      BY <1>1 DEF IInv, Token, Threads
    <2>2. HeadStarted'
      BY <1>1, <2>1 DEF HeadStarted
    <2>. QED BY <1>1, <2>1, <2>2 DEF Running, Pending
  <1>. QED BY <1>1, <1>2, <1>3 DEF Serial!Finish

\* Removing a finished action shows nothing either: it was not pending.
LEMMA DequeueStutters ==
    ASSUME IInv, NEW w \in Workers, Dequeue(w)
    PROVE  UNCHANGED Serial!vars
  <1>1. /\ pc[w] = "finally" /\ queue' = Tail(queue) /\ fresh' = fresh
        /\ \A u \in Workers : u # w => pc[u] = "idle"
    BY DEF Dequeue, IInv, Token, Threads
  <1>2. \A u \in Workers : pc'[u] \in {"idle", "submit"}
    BY <1>1 DEF Dequeue, Goto, IInv, TypeOK, Threads
  <1>3. Running = {} /\ Pending = Tail(queue)
    BY <1>1, MappingWhenStarted
  <1>4. Running' = {} /\ ~HeadStarted'
    BY <1>2 DEF Running, HeadStarted
  <1>. QED BY <1>1, <1>3, <1>4 DEF Serial!vars, Pending

\* The queue is a serial executor: one action at a time, in the order of
\* enqueue, each once, for any number of threads and actions.
THEOREM ImplementsSerialExecutorHolds == SafeSpec => ImplementsSerialExecutor
  <1>1. Init => Serial!Init
    BY DEF Init, Serial!Init, Running, Pending, HeadStarted, Threads
  <1>2. IInv /\ [Next]_vars => [Serial!Next]_Serial!vars
    <2>. SUFFICES ASSUME IInv, [Next]_vars PROVE [Serial!Next]_Serial!vars
      OBVIOUS
    <2>1. ASSUME NEW p \in Producers, Producer(p) PROVE [Serial!Next]_Serial!vars
      <3>1. p \in Threads
        BY DEF Threads
      <3>. QED BY <2>1, <3>1, SubmitStutters, EnqueueSubmits DEF Producer, Serial!Next
    <2>2. ASSUME NEW w \in Workers, Worker(w) PROVE [Serial!Next]_Serial!vars
      <3>1. w \in Threads
        BY DEF Threads
      <3>2. ~DequeueEmpty(w)
        BY <3>1 DEF DequeueEmpty, IInv, Token
      <3>3. CASE Submit(w) \/ Dequeue(w)
        BY <3>1, <3>3, SubmitStutters, DequeueStutters
      <3>4. CASE ExecuteReturns(w) \/ ExecuteThrows(w)
        BY <3>4, ExecuteFinishes DEF Serial!Next
      <3>5. CASE \E a \in Actions : Start(w, a)
        BY <3>5, StartStarts DEF Serial!Next
      <3>. QED BY <2>2, <3>2, <3>3, <3>4, <3>5 DEF Worker
    <2>3. CASE UNCHANGED vars
      BY <2>3 DEF vars, Serial!vars, Running, Pending, HeadStarted
    <2>. QED BY <2>1, <2>2, <2>3 DEF Next
  <1>. QED BY <1>1, <1>2, InvariantHolds, PTL DEF SafeSpec, ImplementsSerialExecutor, Serial!SafeSpec
===============================================================================
