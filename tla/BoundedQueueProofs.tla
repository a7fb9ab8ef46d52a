-------------------------- MODULE BoundedQueueProofs --------------------------
(***************************************************************************)
(* The ring buffer of BoundedQueue for every capacity, every number of     *)
(* threads and every set of items.                                         *)
(***************************************************************************)
EXTENDS BoundedQueue, SequenceTheorems, TLAPS

IInv == TypeOK /\ RingConsistent /\ NoStrandedTaker

-------------------------------------------------------------------------------
\* Arithmetic of the ring: the first Capacity positions are different slots,
\* and taking shifts every position by one.
LEMMA SlotOfType ==
    ASSUME mHeadIdx \in Slots, NEW i \in 1..(Capacity + 1)
    PROVE  SlotOf(i) \in Slots
  BY CapacityAssumption DEF SlotOf, Slots

LEMMA SlotOfInjective ==
    ASSUME mHeadIdx \in Slots, NEW i \in 1..Capacity, NEW j \in 1..Capacity,
           SlotOf(i) = SlotOf(j)
    PROVE  i = j
  BY CapacityAssumption DEF SlotOf, Slots

LEMMA SlotOfFirst ==
    ASSUME mHeadIdx \in Slots
    PROVE  SlotOf(1) = mHeadIdx
  BY CapacityAssumption DEF SlotOf, Slots

LEMMA SlotOfNext ==
    ASSUME mHeadIdx \in Slots, NEW i \in 1..Capacity
    PROVE  Advance(SlotOf(i)) = SlotOf(i + 1)
  BY CapacityAssumption DEF SlotOf, Slots, Advance

LEMMA SlotOfShift ==
    ASSUME mHeadIdx \in Slots, mHeadIdx' = Advance(mHeadIdx)
    PROVE  /\ \A i \in 1..Capacity : SlotOf(i)' = SlotOf(i + 1)
           /\ SlotOf(Capacity)' = SlotOf(1)
  BY CapacityAssumption DEF SlotOf, Slots, Advance

LEMMA AdvanceType ==
    ASSUME NEW i \in Slots
    PROVE  Advance(i) \in Slots
  BY CapacityAssumption DEF Slots, Advance

-------------------------------------------------------------------------------
LEMMA InitIInv == Init => IInv
  <1>. SUFFICES ASSUME Init PROVE IInv
    OBVIOUS
  <1>1. TypeOK
    BY CapacityAssumption DEF Init, TypeOK, Slots
  <1>2. RingConsistent
    <2>1. mTailIdx = SlotOf(mCount + 1)
      BY CapacityAssumption DEF Init, SlotOf
    <2>2. \A i \in 1..Capacity : SlotOf(i) \in Slots
      BY <1>1, SlotOfType, CapacityAssumption DEF TypeOK
    <2>. QED BY <2>1, <2>2 DEF Init, RingConsistent
  <1>3. NoStrandedTaker
    BY DEF Init, NoStrandedTaker
  <1>. QED BY <1>1, <1>2, <1>3 DEF IInv

\* put fills the slot after the last one in use.
LEMMA PutKeeps ==
    ASSUME IInv, NEW t \in Threads, Put(t)
    PROVE  IInv'
  <1>. USE DEF IInv
  <1>1. /\ mCount < Capacity /\ mCount \in 0..Capacity /\ Capacity \in Nat
        /\ mCount' = mCount + 1 /\ mHeadIdx' = mHeadIdx /\ mHeadIdx \in Slots
        /\ mTailIdx = SlotOf(mCount + 1) /\ mTailIdx \in Slots
        /\ arg[t] \in Items
        /\ mItems' = [mItems EXCEPT ![mTailIdx] = arg[t]]
    BY CapacityAssumption DEF Put, TypeOK, RingConsistent
  <1>2. TypeOK'
    <2>1. mTailIdx' \in Slots
      BY <1>1, AdvanceType DEF Put
    <2>. QED BY <1>1, <2>1 DEF Put, ReturnSignalNotEmpty, TypeOK
  <1>3. RingConsistent'
    <2>1. \A i \in 1..(Capacity + 1) : SlotOf(i)' = SlotOf(i)
      BY <1>1 DEF SlotOf
    <2>2. mTailIdx' = SlotOf(mCount' + 1)
      <3>1. mCount + 1 \in 1..Capacity
        BY <1>1
      <3>. QED BY <1>1, <3>1, SlotOfNext DEF Put
    <2>3. ASSUME NEW i \in 1..Capacity
          PROVE  (mItems'[SlotOf(i)] # Null) <=> (i <= mCount')
      <3>1. SlotOf(i) \in Slots
        BY <1>1, SlotOfType
      <3>2. CASE i = mCount + 1
        BY <1>1, <3>1, <3>2, NullAssumption DEF TypeOK
      <3>3. CASE i # mCount + 1
        <4>1. SlotOf(i) # mTailIdx
          <5>1. mCount + 1 \in 1..Capacity
            BY <1>1
          <5>. QED BY <1>1, <3>3, <5>1, SlotOfInjective
        <4>2. mItems'[SlotOf(i)] = mItems[SlotOf(i)]
          BY <1>1, <3>1, <4>1 DEF TypeOK
        <4>3. (mItems[SlotOf(i)] # Null) <=> (i <= mCount)
          BY DEF RingConsistent
        <4>. QED BY <1>1, <3>3, <4>2, <4>3
      <3>. QED BY <3>2, <3>3
    <2>4. mCount' + 1 \in 1..(Capacity + 1)
      BY <1>1
    <2>5. /\ mTailIdx' = SlotOf(mCount + 1)'
          /\ \A i \in 1..Capacity : (mItems'[SlotOf(i)'] # Null) <=> (i <= mCount')
      BY <1>1, <2>1, <2>2, <2>3, <2>4 DEF SlotOf
    <2>. QED BY <2>5 DEF RingConsistent, SlotOf
  <1>4. NoStrandedTaker'
    BY DEF Put, ReturnSignalNotEmpty, NoStrandedTaker
  <1>. QED BY <1>2, <1>3, <1>4

\* take clears the oldest slot, and every other item moves one place up.
LEMMA TakeKeeps ==
    ASSUME IInv, NEW t \in Threads, Take(t)
    PROVE  IInv'
  <1>. USE DEF IInv
  <1>1. /\ mCount > 0 /\ mCount \in 0..Capacity /\ Capacity \in Nat \ {0}
        /\ mCount' = mCount - 1 /\ mHeadIdx' = Advance(mHeadIdx) /\ mHeadIdx \in Slots
        /\ mTailIdx = SlotOf(mCount + 1) /\ mTailIdx' = mTailIdx
        /\ mItems' = [mItems EXCEPT ![mHeadIdx] = Null]
        /\ mHeadIdx = SlotOf(1)
    BY CapacityAssumption, SlotOfFirst DEF Take, TypeOK, RingConsistent
  <1>2. TypeOK'
    <2>1. mHeadIdx' \in Slots
      BY <1>1, AdvanceType
    <2>2. result' \in [Threads -> Items \cup {Null}]
      BY <1>1 DEF Take, TypeOK
    <2>. QED BY <1>1, <2>1, <2>2 DEF Take, ReturnSignalNotEmpty, TypeOK
  <1>3. RingConsistent'
    <2>1. /\ \A i \in 1..Capacity : SlotOf(i)' = SlotOf(i + 1)
          /\ SlotOf(Capacity)' = SlotOf(1)
      BY <1>1, SlotOfShift
    <2>2. mTailIdx' = SlotOf(mCount + 1)'
      BY <1>1, CapacityAssumption DEF SlotOf, Slots, Advance
    <2>3. ASSUME NEW i \in 1..Capacity
          PROVE  (mItems'[SlotOf(i)'] # Null) <=> (i <= mCount')
      <3>1. CASE i = Capacity
        BY <1>1, <2>1, <3>1 DEF TypeOK
      <3>2. CASE i # Capacity
        <4>1. i + 1 \in 1..Capacity /\ 1 \in 1..Capacity
          BY <1>1, <3>2
        <4>2. SlotOf(i + 1) # mHeadIdx /\ SlotOf(i + 1) \in Slots
          BY <1>1, <4>1, SlotOfInjective, SlotOfType
        <4>3. mItems'[SlotOf(i + 1)] = mItems[SlotOf(i + 1)]
          BY <1>1, <4>2 DEF TypeOK
        <4>4. (mItems[SlotOf(i + 1)] # Null) <=> (i + 1 <= mCount)
          BY <4>1 DEF RingConsistent
        <4>. QED BY <1>1, <2>1, <4>3, <4>4
      <3>. QED BY <3>1, <3>2
    <2>. QED BY <2>2, <2>3 DEF RingConsistent
  <1>4. NoStrandedTaker'
    BY DEF Take, ReturnSignalNotEmpty, NoStrandedTaker
  <1>. QED BY <1>2, <1>3, <1>4

\* Everything else leaves the ring alone; a taker goes to sleep only when the
\* ring is empty.
LEMMA OthersKeep ==
    ASSUME IInv, NEW t \in Threads,
           PutWaits(t) \/ TakeWaits(t) \/ Environment(t)
    PROVE  IInv'
  <1>. USE DEF IInv
  <1>1. UNCHANGED <<mItems, mCount, mHeadIdx, mTailIdx, result>>
    BY DEF PutWaits, TakeWaits, Environment, CallPut, CallTake, SpuriousWakeup,
       Interrupted, ring
  <1>2. TypeOK'
    <2>1. CASE PutWaits(t) \/ TakeWaits(t)
      BY <1>1, <2>1 DEF PutWaits, TakeWaits, Goto, TypeOK
    <2>2. CASE Environment(t)
      BY <1>1, <2>2 DEF Environment, CallPut, CallTake, SpuriousWakeup, Interrupted,
         Goto, TypeOK
    <2>. QED BY <2>1, <2>2
  <1>3. RingConsistent'
    BY <1>1 DEF RingConsistent, SlotOf
  <1>4. NoStrandedTaker'
    <2>1. \A u \in Threads : pc'[u] = "mNotEmpty" => pc[u] = "mNotEmpty" \/ mCount = 0
      BY DEF PutWaits, TakeWaits, Environment, CallPut, CallTake, SpuriousWakeup,
         Interrupted, Goto, TypeOK
    <2>. QED BY <1>1, <2>1 DEF NoStrandedTaker, TypeOK
  <1>. QED BY <1>2, <1>3, <1>4

\* The ring, its count and its indexes agree after every put and take.
THEOREM InvariantHolds == Spec => []IInv
  <1>1. IInv /\ [Next]_vars => IInv'
    <2>. SUFFICES ASSUME IInv, [Next]_vars PROVE IInv'
      OBVIOUS
    <2>1. ASSUME NEW t \in Threads, Step(t) \/ Environment(t) PROVE IInv'
      BY <2>1, PutKeeps, TakeKeeps, OthersKeep DEF Step
    <2>2. CASE UNCHANGED vars
      BY <2>2 DEF vars, IInv, TypeOK, RingConsistent, SlotOf, NoStrandedTaker
    <2>. QED BY <2>1, <2>2 DEF Next
  <1>. QED BY <1>1, InitIInv, PTL DEF Spec

\* Variables keep their types.
THEOREM TypeCorrect == Spec => []TypeOK
  <1>1. IInv => TypeOK
    BY DEF IInv
  <1>. QED BY <1>1, InvariantHolds, PTL

\* The slots in use are those from mHeadIdx, mCount of them, up to mTailIdx.
THEOREM RingConsistentHolds == Spec => []RingConsistent
  <1>1. IInv => RingConsistent
    BY DEF IInv
  <1>. QED BY <1>1, InvariantHolds, PTL

\* No taker sleeps while the queue holds an item.
THEOREM NoStrandedTakerHolds == Spec => []NoStrandedTaker
  <1>1. IInv => NoStrandedTaker
    BY DEF IInv
  <1>. QED BY <1>1, InvariantHolds, PTL

-------------------------------------------------------------------------------
\* What the refinement mapping shows is a sequence of items.
LEMMA ContentsType ==
    ASSUME IInv
    PROVE  Contents \in Seq(Items) /\ Len(Contents) = mCount
  <1>1. mCount \in Nat /\ mCount <= Capacity /\ Capacity \in Nat
    BY CapacityAssumption DEF IInv, TypeOK
  <1>2. ASSUME NEW i \in 1..mCount PROVE mItems[SlotOf(i)] \in Items
    <2>1. i \in 1..Capacity
      BY <1>1
    <2>2. SlotOf(i) \in Slots
      BY <2>1, SlotOfType, CapacityAssumption DEF IInv, TypeOK
    <2>. QED BY <1>1, <2>1, <2>2 DEF IInv, TypeOK, RingConsistent
  <1>3. Contents \in [1..mCount -> Items]
    BY <1>2 DEF Contents
  <1>. QED BY <1>1, <1>3

ContentsOK == Contents \in Seq(Items) /\ Len(Contents) = mCount

LEMMA NextContentsType == IInv' => ContentsOK'
  <1>1. IInv => ContentsOK
    BY ContentsType DEF ContentsOK
  <1>. QED BY <1>1, PTL

LEMMA PutAppends ==
    ASSUME IInv, NEW t \in Threads, Put(t)
    PROVE  \E x \in Items : Fifo!Put(x)
  <1>1. /\ mCount < Capacity /\ mCount \in Nat /\ Capacity \in Nat
        /\ mCount' = mCount + 1 /\ mHeadIdx' = mHeadIdx /\ mHeadIdx \in Slots
        /\ mTailIdx = SlotOf(mCount + 1) /\ mTailIdx \in Slots
        /\ arg[t] \in Items /\ result' = result
        /\ mItems' = [mItems EXCEPT ![mTailIdx] = arg[t]]
        /\ mItems \in [Slots -> Items \cup {Null}]
    BY CapacityAssumption DEF Put, IInv, TypeOK, RingConsistent
  <1>2. Contents \in Seq(Items) /\ Len(Contents) = mCount
    BY ContentsType
  <1>3. Contents' \in Seq(Items) /\ Len(Contents') = mCount + 1
    BY <1>1, PutKeeps, NextContentsType DEF ContentsOK
  <1>4. \A i \in 1..(mCount + 1) : Contents'[i] = mItems'[SlotOf(i)]
    BY <1>1 DEF Contents, SlotOf
  <1>5. Contents'[mCount + 1] = arg[t]
    BY <1>1, <1>4
  <1>6. ASSUME NEW i \in 1..mCount PROVE Contents'[i] = Contents[i]
    <2>1. i \in 1..Capacity /\ mCount + 1 \in 1..Capacity /\ i # mCount + 1
      BY <1>1
    <2>2. SlotOf(i) # mTailIdx /\ SlotOf(i) \in Slots
      BY <1>1, <2>1, SlotOfInjective, SlotOfType
    <2>. QED BY <1>1, <1>4, <2>2 DEF Contents
  <1>7. Contents' = Append(Contents, arg[t])
    <2>. DEFINE s == Contents
                r == Contents'
                q == Append(s, arg[t])
    <2>1. q \in Seq(Items) /\ Len(q) = mCount + 1
          /\ (\A i \in 1..mCount : q[i] = s[i]) /\ q[mCount + 1] = arg[t]
      BY <1>1, <1>2, AppendProperties
    <2>2. \A i \in 1..Len(r) : r[i] = q[i]
      BY <1>1, <1>3, <1>5, <1>6, <2>1
    <2>3. r \in Seq(Items) /\ Len(r) = Len(q)
      BY <1>3, <2>1
    <2>. HIDE DEF s, r, q
    <2>4. r = q
      BY <2>1, <2>2, <2>3, SeqEqual
    <2>. QED BY <2>4 DEF s, r, q
  <1>8. Fifo!Put(arg[t])
    BY <1>1, <1>2, <1>7 DEF Fifo!Put
  <1>. QED BY <1>1, <1>8

LEMMA TakeRemovesHead ==
    ASSUME IInv, NEW t \in Threads, Take(t)
    PROVE  Fifo!Take(t)
  <1>1. /\ mCount > 0 /\ mCount \in Nat /\ mCount <= Capacity /\ Capacity \in Nat \ {0}
        /\ mCount' = mCount - 1 /\ mHeadIdx' = Advance(mHeadIdx) /\ mHeadIdx \in Slots
        /\ mItems' = [mItems EXCEPT ![mHeadIdx] = Null]
        /\ mItems \in [Slots -> Items \cup {Null}]
        /\ result' = [result EXCEPT ![t] = mItems[mHeadIdx]]
        /\ mHeadIdx = SlotOf(1)
    BY CapacityAssumption, SlotOfFirst DEF Take, IInv, TypeOK
  <1>2. Contents \in Seq(Items) /\ Len(Contents) = mCount /\ Contents # <<>>
    BY <1>1, ContentsType
  <1>3. Contents' \in Seq(Items) /\ Len(Contents') = mCount - 1
    BY <1>1, TakeKeeps, NextContentsType DEF ContentsOK
  <1>4. ASSUME NEW i \in 1..(mCount - 1) PROVE Contents'[i] = Contents[i + 1]
    <2>1. i \in 1..Capacity /\ i + 1 \in 1..Capacity /\ 1 \in 1..Capacity
          /\ i + 1 # 1 /\ i + 1 \in 1..mCount
      BY <1>1
    <2>2. SlotOf(i + 1) # mHeadIdx /\ SlotOf(i + 1) \in Slots
      BY <1>1, <2>1, SlotOfInjective, SlotOfType
    <2>3. SlotOf(i)' = SlotOf(i + 1)
      BY <1>1, <2>1, SlotOfShift
    <2>4. Contents'[i] = mItems'[SlotOf(i)']
      BY <1>1 DEF Contents, SlotOf
    <2>. QED BY <1>1, <2>1, <2>2, <2>3, <2>4 DEF Contents
  <1>5. Contents' = Tail(Contents)
    <2>. DEFINE s == Contents
                r == Contents'
                q == Tail(s)
    <2>1. q \in Seq(Items) /\ Len(q) = mCount - 1 /\ (\A i \in 1..Len(q) : q[i] = s[i + 1])
      BY <1>2, HeadTailProperties
    <2>2. \A i \in 1..Len(r) : r[i] = q[i]
      BY <1>3, <1>4, <2>1
    <2>3. r \in Seq(Items) /\ Len(r) = Len(q)
      BY <1>3, <2>1
    <2>. HIDE DEF s, r, q
    <2>4. r = q
      BY <2>1, <2>2, <2>3, SeqEqual
    <2>. QED BY <2>4 DEF s, r, q
  <1>6. Head(Contents) = mItems[mHeadIdx]
    <2>1. Contents[1] = mItems[SlotOf(1)]
      BY <1>1 DEF Contents
    <2>. QED BY <1>1, <1>2, <2>1
  <1>. QED BY <1>1, <1>2, <1>5, <1>6 DEF Fifo!Take

\* The ring buffer is a bounded first-in first-out buffer: nothing is lost,
\* duplicated, reordered or handed to two takers.
THEOREM ImplementsBoundedFifoHolds == Spec => ImplementsBoundedFifo
  <1>1. Init => Fifo!Init
    BY DEF Init, Fifo!Init, Contents
  <1>2. IInv /\ [Next]_vars => [Fifo!Next]_Fifo!vars
    <2>. SUFFICES ASSUME IInv, [Next]_vars PROVE [Fifo!Next]_Fifo!vars
      OBVIOUS
    <2>1. ASSUME NEW t \in Threads, Put(t) PROVE Fifo!Next
      BY <2>1, PutAppends DEF Fifo!Next
    <2>2. ASSUME NEW t \in Threads, Take(t) PROVE Fifo!Next
      BY <2>2, TakeRemovesHead DEF Fifo!Next
    <2>3. ASSUME NEW t \in Threads, PutWaits(t) \/ TakeWaits(t) \/ Environment(t)
          PROVE  UNCHANGED Fifo!vars
      BY <2>3 DEF PutWaits, TakeWaits, Environment, CallPut, CallTake, SpuriousWakeup,
         Interrupted, ring, Fifo!vars, Contents, SlotOf
    <2>4. CASE UNCHANGED vars
      BY <2>4 DEF vars, Fifo!vars, Contents, SlotOf
    <2>. QED BY <2>1, <2>2, <2>3, <2>4 DEF Next, Step
  <1>. QED BY <1>1, <1>2, InvariantHolds, PTL DEF Spec, ImplementsBoundedFifo, Fifo!Spec
===============================================================================
