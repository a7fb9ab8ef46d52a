----------------------------- MODULE BoundedQueue -----------------------------
(***************************************************************************)
(* The hand-written blocking queue of my-test (class BlockingQueue<T>): a  *)
(* ring buffer under one ReentrantLock with the conditions mNotFull and    *)
(* mNotEmpty.  A thread owns the lock from lock() or the end of await() to *)
(* unlock() or the next await(); what it does in between is one step.      *)
(***************************************************************************)
EXTENDS Integers, Sequences

CONSTANTS Threads,    \* callers of put and take
          Items,      \* what is put
          Capacity,   \* mItems.length
          Null        \* an empty slot

ASSUME CapacityAssumption == Capacity \in Nat \ {0}
ASSUME NullAssumption == Null \notin Items

Slots == 0..(Capacity - 1)

VARIABLES mItems, mCount, mHeadIdx, mTailIdx,
          pc,       \* "idle"; "put" and "take": wants the lock;
                    \* "mNotFull" and "mNotEmpty": in await() there
          arg,      \* the argument of a put in progress
          result    \* what the last take returned

vars == <<mItems, mCount, mHeadIdx, mTailIdx, pc, arg, result>>
ring == <<mItems, mCount, mHeadIdx, mTailIdx>>

-------------------------------------------------------------------------------
Init == /\ mItems = [i \in Slots |-> Null]
        /\ mCount = 0 /\ mHeadIdx = 0 /\ mTailIdx = 0
        /\ pc = [t \in Threads |-> "idle"]
        /\ arg = [t \in Threads |-> Null]
        /\ result = [t \in Threads |-> Null]

Goto(t, label) == pc' = [pc EXCEPT ![t] = label]

\* Mutant of Advance: without the wrap.
AdvanceWithoutWrap(i) == i + 1

\* An index after ++idx and the wrap to 0.
Advance(i) == IF i + 1 = Capacity THEN 0 ELSE i + 1

CallPut(t, x) == /\ pc[t] = "idle"
                 /\ arg' = [arg EXCEPT ![t] = x]
                 /\ Goto(t, "put")
                 /\ UNCHANGED <<ring, result>>

CallTake(t) == /\ pc[t] = "idle"
               /\ Goto(t, "take")
               /\ UNCHANGED <<ring, arg, result>>

\* t leaves with the lock released; mNotEmpty.signalAll() sends every thread
\* that waits there back to the lock, inside its while loop.
ReturnSignalNotEmpty(t) ==
    pc' = [u \in Threads |-> IF u = t THEN "idle"
                             ELSE IF pc[u] = "mNotEmpty" THEN "take" ELSE pc[u]]

PutWaits(t) == /\ pc[t] = "put"
               /\ mCount = Capacity
               /\ Goto(t, "mNotFull")
               /\ UNCHANGED <<ring, arg, result>>

\* Mutant of Put: signals mNotFull for mNotEmpty.
PutSignalsNotFull(t) ==
    /\ pc[t] = "put"
    /\ mCount # Capacity
    /\ mItems' = [mItems EXCEPT ![mTailIdx] = arg[t]]
    /\ mTailIdx' = Advance(mTailIdx)
    /\ mCount' = mCount + 1
    /\ arg' = [arg EXCEPT ![t] = Null]
    /\ pc' = [u \in Threads |-> IF u = t THEN "idle"
                                ELSE IF pc[u] = "mNotFull" THEN "put" ELSE pc[u]]
    /\ UNCHANGED <<mHeadIdx, result>>

\* Mutant of Put: without the loop of line 44.
PutUnguarded(t) ==
    /\ pc[t] = "put"
    /\ mItems' = [mItems EXCEPT ![mTailIdx] = arg[t]]
    /\ mTailIdx' = Advance(mTailIdx)
    /\ mCount' = mCount + 1
    /\ arg' = [arg EXCEPT ![t] = Null]
    /\ ReturnSignalNotEmpty(t)
    /\ UNCHANGED <<mHeadIdx, result>>

Put(t) == /\ pc[t] = "put"
          /\ mCount # Capacity
          /\ mItems' = [mItems EXCEPT ![mTailIdx] = arg[t]]
          /\ mTailIdx' = Advance(mTailIdx)
          /\ mCount' = mCount + 1
          /\ arg' = [arg EXCEPT ![t] = Null]
          /\ ReturnSignalNotEmpty(t)
          /\ UNCHANGED <<mHeadIdx, result>>

TakeWaits(t) == /\ pc[t] = "take"
                /\ mCount = 0
                /\ Goto(t, "mNotEmpty")
                /\ UNCHANGED <<ring, arg, result>>

\* Mutant of Take: the slot is not cleared.
TakeKeepsSlot(t) ==
    /\ pc[t] = "take"
    /\ mCount # 0
    /\ result' = [result EXCEPT ![t] = mItems[mHeadIdx]]
    /\ mHeadIdx' = Advance(mHeadIdx)
    /\ mCount' = mCount - 1
    /\ ReturnSignalNotEmpty(t)
    /\ UNCHANGED <<mItems, mTailIdx, arg>>

\* take() ends with mNotEmpty.signalAll() as well; nothing signals mNotFull.
Take(t) == /\ pc[t] = "take"
           /\ mCount # 0
           /\ result' = [result EXCEPT ![t] = mItems[mHeadIdx]]
           /\ mItems' = [mItems EXCEPT ![mHeadIdx] = Null]
           /\ mHeadIdx' = Advance(mHeadIdx)
           /\ mCount' = mCount - 1
           /\ ReturnSignalNotEmpty(t)
           /\ UNCHANGED <<mTailIdx, arg>>

\* await() may wake for no reason; the while loop looks again.
SpuriousWakeup(t) ==
    /\ \/ pc[t] = "mNotFull" /\ Goto(t, "put")
       \/ pc[t] = "mNotEmpty" /\ Goto(t, "take")
    /\ UNCHANGED <<ring, arg, result>>

\* await() throws InterruptedException: the call ends without effect.
Interrupted(t) ==
    /\ pc[t] \in {"mNotFull", "mNotEmpty"}
    /\ Goto(t, "idle")
    /\ arg' = [arg EXCEPT ![t] = Null]
    /\ UNCHANGED <<ring, result>>

-------------------------------------------------------------------------------
Step(t) == PutWaits(t) \/ Put(t) \/ TakeWaits(t) \/ Take(t)

Environment(t) == \/ \E x \in Items : CallPut(t, x)
                  \/ CallTake(t)
                  \/ SpuriousWakeup(t)
                  \/ Interrupted(t)

Next == \E t \in Threads : Step(t) \/ Environment(t)

Spec == Init /\ [][Next]_vars

-------------------------------------------------------------------------------
TypeOK == /\ mItems \in [Slots -> Items \cup {Null}]
          /\ mCount \in 0..Capacity
          /\ mHeadIdx \in Slots
          /\ mTailIdx \in Slots
          /\ pc \in [Threads -> {"idle", "put", "take", "mNotFull", "mNotEmpty"}]
          /\ arg \in [Threads -> Items \cup {Null}]
          /\ \A t \in Threads : pc[t] \in {"put", "mNotFull"} => arg[t] \in Items
          /\ result \in [Threads -> Items \cup {Null}]

\* The slot of the i-th oldest item.
SlotOf(i) == LET j == mHeadIdx + i - 1
             IN IF j < Capacity THEN j ELSE j - Capacity

Contents == [i \in 1..mCount |-> mItems[SlotOf(i)]]

\* The indexes and the count agree, and the slots in use are exactly those
\* between them: take() never returns the null of a cleared slot.
RingConsistent ==
    /\ mTailIdx = SlotOf(mCount + 1)
    /\ \A i \in 1..Capacity : (mItems[SlotOf(i)] # Null) <=> (i <= mCount)

\* No taker sleeps while there is something to take (put:55 wakes them all).
NoStrandedTaker ==
    mCount > 0 => \A t \in Threads : pc[t] # "mNotEmpty"

\* What line 43 says of a put that blocks: until an element is taken out.
NoStrandedPutter ==
    mCount < Capacity => \A t \in Threads : pc[t] # "mNotFull"

\* The ring buffer implements a bounded first-in first-out buffer.
Fifo == INSTANCE BoundedFifo WITH buffer <- Contents

ImplementsBoundedFifo == Fifo!Spec
===============================================================================
