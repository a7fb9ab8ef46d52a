---------------------------- MODULE SerialExecutor ----------------------------
(***************************************************************************)
(* What the action queue of the crawler promises to the pipelines that use *)
(* it: actions run one at a time, in the order in which they were handed   *)
(* over, each of them once, and each of them eventually.                   *)
(***************************************************************************)
EXTENDS Sequences

CONSTANT Actions            \* the actions that can be handed over

VARIABLES unsubmitted,      \* actions nobody has handed over yet
          pending,          \* handed over, not started, oldest first
          running           \* the actions whose execute() is in progress

vars == <<unsubmitted, pending, running>>

Init == /\ unsubmitted = Actions
        /\ pending = <<>>
        /\ running = {}

Submit(a) == /\ a \in unsubmitted
             /\ unsubmitted' = unsubmitted \ {a}
             /\ pending' = Append(pending, a)
             /\ UNCHANGED running

Start == /\ running = {}
         /\ pending # <<>>
         /\ running' = {Head(pending)}
         /\ pending' = Tail(pending)
         /\ UNCHANGED unsubmitted

Finish == /\ running # {}
          /\ running' = {}
          /\ UNCHANGED <<unsubmitted, pending>>

Next == Start \/ Finish \/ \E a \in Actions : Submit(a)

Fairness == WF_vars(Start) /\ WF_vars(Finish)

SafeSpec == Init /\ [][Next]_vars

Spec == SafeSpec /\ Fairness
===============================================================================
