-------------------------------- MODULE Seckill --------------------------------
(***************************************************************************)
(* The flash sale on Redis of my-test (rdis.MyRunnable, started by         *)
(* MyRedistest): every buyer is a task with a connection of its own that   *)
(* does WATCH, GET, MULTI, INCRBY -1, EXEC and records the outcome with    *)
(* SETNX.  One Redis command is a step; MULTI and INCRBY only queue, so    *)
(* they take place with EXEC.                                              *)
(***************************************************************************)
EXTENDS Integers, FiniteSets

CONSTANTS Buyers,     \* the tasks given to the pool
          Total,      \* the stock MyRedistest sets, and the 10 of MyRunnable
          None        \* nothing read or received yet

ASSUME TotalAssumption == Total \in Nat \ {0}
ASSUME NoneAssumption == None \notin Int
ASSUME BuyersAssumption == IsFiniteSet(Buyers)

VARIABLES stock,      \* Redis key "watchkeys"
          touched,    \* connections whose watched key was written since WATCH
          val,        \* valint of each buyer
          reply,      \* what INCRBY made of the key inside EXEC, by buyer
          record,     \* the key that SETNX wrote for the buyer
          pc

vars == <<stock, touched, val, reply, record, pc>>

Working == {"watch", "get", "exec", "won", "lost", "none left"}

-------------------------------------------------------------------------------
Init == /\ stock = Total
        /\ touched = {}
        /\ val = [b \in Buyers |-> None]
        /\ reply = [b \in Buyers |-> None]
        /\ record = [b \in Buyers |-> "-"]
        /\ pc = [b \in Buyers |-> "watch"]

Goto(b, label) == pc' = [pc EXCEPT ![b] = label]

Watch(b) == /\ pc[b] = "watch"
            /\ Goto(b, "get")
            /\ UNCHANGED <<stock, touched, val, reply, record>>

\* Mutant of Get: valint > 1 for valint >= 1.
GetLeavesOne(b) ==
    /\ pc[b] = "get"
    /\ val' = [val EXCEPT ![b] = stock]
    /\ Goto(b, IF stock <= Total /\ stock > 1 THEN "exec" ELSE "none left")
    /\ UNCHANGED <<stock, touched, reply, record>>

\* GET, and the choice between the sale and "none left".
Get(b) == /\ pc[b] = "get"
          /\ val' = [val EXCEPT ![b] = stock]
          /\ Goto(b, IF stock <= Total /\ stock >= 1 THEN "exec" ELSE "none left")
          /\ UNCHANGED <<stock, touched, reply, record>>

\* Connections that watch the key; EXEC and close end the watch.
Watching == {b \in Buyers : pc[b] \in {"get", "exec", "none left"}}

\* Mutant of ExecApplies: MULTI without WATCH.
ExecWithoutWatch(b) ==
    /\ pc[b] = "exec"
    /\ stock' = stock - 1
    /\ touched' = Watching \ {b}
    /\ reply' = [reply EXCEPT ![b] = stock']
    /\ Goto(b, "won")
    /\ UNCHANGED <<val, record>>

\* Mutant of ExecApplies: SET valint - 1 for the watched INCRBY.
ExecSets(b) ==
    /\ pc[b] = "exec"
    /\ stock' = val[b] - 1
    /\ reply' = [reply EXCEPT ![b] = stock']
    /\ Goto(b, "won")
    /\ UNCHANGED <<touched, val, record>>

\* Mutant of ExecApplies: the write does not break the other watches.
ExecTouchesNobody(b) ==
    /\ pc[b] = "exec"
    /\ b \notin touched
    /\ stock' = stock - 1
    /\ reply' = [reply EXCEPT ![b] = stock']
    /\ Goto(b, "won")
    /\ UNCHANGED <<touched, val, record>>

\* EXEC on an untouched key runs INCRBY -1.
ExecApplies(b) ==
    /\ pc[b] = "exec"
    /\ b \notin touched
    /\ stock' = stock - 1
    /\ touched' = Watching \ {b}
    /\ reply' = [reply EXCEPT ![b] = stock']
    /\ Goto(b, "won")
    /\ UNCHANGED <<val, record>>

\* Mutant of ExecAborts: the null of line 44 taken for a success.
ExecAbortsUnnoticed(b) ==
    /\ pc[b] = "exec"
    /\ b \in touched
    /\ touched' = touched \ {b}
    /\ Goto(b, "won")
    /\ UNCHANGED <<stock, val, reply, record>>

\* Mutant of ExecAborts: tries EXEC again without a new WATCH and GET.
ExecAbortsRetries(b) ==
    /\ pc[b] = "exec"
    /\ b \in touched
    /\ UNCHANGED vars

\* EXEC on a touched key returns null.
ExecAborts(b) ==
    /\ pc[b] = "exec"
    /\ b \in touched
    /\ touched' = touched \ {b}
    /\ Goto(b, "lost")
    /\ UNCHANGED <<stock, val, reply, record>>

\* Mutant of Record: the key without its prefix.
RecordPlain(b) ==
    /\ pc[b] \in {"won", "lost", "none left"}
    /\ record' = [record EXCEPT ![b] = ""]
    /\ touched' = touched \ {b}
    /\ Goto(b, "done")
    /\ UNCHANGED <<stock, val, reply>>

\* SETNX of the outcome, then close.
Record(b) ==
    /\ pc[b] \in {"won", "lost", "none left"}
    /\ record' = [record EXCEPT ![b] = CASE pc[b] = "won" -> "succ"
                                         [] pc[b] = "lost" -> "fail"
                                         [] pc[b] = "none left" -> "kcfail"]
    /\ touched' = touched \ {b}
    /\ Goto(b, "done")
    /\ UNCHANGED <<stock, val, reply>>

\* A Redis call throws: the stack trace is printed and the connection closed.
Fail(b) == /\ pc[b] \in Working
           /\ touched' = touched \ {b}
           /\ Goto(b, "failed")
           /\ UNCHANGED <<stock, val, reply, record>>

\* The same for EXEC when only its answer is lost: Redis has run it.
ExecReplyLost(b) ==
    /\ pc[b] = "exec"
    /\ b \notin touched
    /\ stock' = stock - 1
    /\ touched' = Watching \ {b}
    /\ reply' = [reply EXCEPT ![b] = stock']
    /\ Goto(b, "failed")
    /\ UNCHANGED <<val, record>>

-------------------------------------------------------------------------------
Step(b) == Watch(b) \/ Get(b) \/ ExecApplies(b) \/ ExecAborts(b) \/ Record(b)

Next == \E b \in Buyers : Step(b) \/ Fail(b) \/ ExecReplyLost(b)

\* A thread of the pool that runs a task goes on with it.
Fairness == \A b \in Buyers : WF_vars(Step(b))

SafeSpec == Init /\ [][Next]_vars

Spec == SafeSpec /\ Fairness

-------------------------------------------------------------------------------
TypeOK == /\ stock \in Int
          /\ touched \subseteq Buyers
          /\ val \in [Buyers -> Int \cup {None}]
          /\ reply \in [Buyers -> Int \cup {None}]
          /\ record \in [Buyers -> {"-", "succ", "fail", "kcfail"}]
          /\ pc \in [Buyers -> Working \cup {"done", "failed"}]

\* Buyers whose decrement Redis has run.
Served == {b \in Buyers : reply[b] # None}

\* The stock is what has not been sold: no oversale, no lost decrement.
StockIsUnsold == stock >= 0 /\ Cardinality(Served) = Total - stock

\* The optimistic lock at work: EXEC sees the stock that GET saw, so the head
\* count 1 - (valint - 10) that line 53 reports is the real one.
ReportedCountIsRight == \A b \in Served : reply[b] = val[b] - 1

\* No two buyers get the same item, hence no two records the same number.
OneItemOneBuyer == \A b, c \in Served : reply[b] = reply[c] => b = c

\* A success is recorded only for a served buyer, and every sale is on record
\* unless that buyer's task died of an exception.
RecordsMatchSales ==
    /\ \A b \in Buyers : record[b] = "succ" => b \in Served
    /\ \A b \in Served : pc[b] = "done" => record[b] = "succ"

\* "Sold out" is true for good: a buyer told so can find no item later.
SoldOutIsFinal == \A b \in Buyers : record[b] = "kcfail" => stock = 0

\* Nobody waits for anybody: each buyer gets to the end.
EveryBuyerEnds == \A b \in Buyers : <>(pc[b] \in {"done", "failed"})
===============================================================================
