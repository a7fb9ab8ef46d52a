------------------------------ MODULE BoundedFifo ------------------------------
(***************************************************************************)
(* What a bounded blocking queue promises to its callers: a first-in       *)
(* first-out buffer that never holds more than Capacity items; nothing is  *)
(* lost, duplicated or handed to two takers.                               *)
(***************************************************************************)
EXTENDS Naturals, Sequences

CONSTANTS Threads, Items, Capacity,
          Null      \* what result holds before the first take()

VARIABLES buffer,    \* items put and not taken, oldest first
          result     \* what the last take() of each thread returned

vars == <<buffer, result>>

Init == /\ buffer = <<>>
        /\ result = [t \in Threads |-> Null]

Put(x) == /\ Len(buffer) < Capacity
          /\ buffer' = Append(buffer, x)
          /\ UNCHANGED result

Take(t) == /\ buffer # <<>>
           /\ result' = [result EXCEPT ![t] = Head(buffer)]
           /\ buffer' = Tail(buffer)

Next == (\E x \in Items : Put(x)) \/ (\E t \in Threads : Take(t))

Spec == Init /\ [][Next]_vars
===============================================================================
