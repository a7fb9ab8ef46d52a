------------------------------ MODULE CouponGrab ------------------------------
(***************************************************************************)
(* The coupon grab of the internal API: OuterCouponServiceImpl, called by  *)
(* CouponController.  Requests run concurrently; they share three kinds of *)
(* Redis keys (the counter, USER:<userid>, ORDER:<orderid>) and the table  *)
(* of codes.  Every Redis command and every SQL statement is a step.       *)
(*                                                                         *)
(* The service method is @Transactional, so the update of the table becomes *)
(* visible when the method has returned, after the Redis keys were written.*)
(* The mapper lives in another artifact: whether its SELECT locks the row  *)
(* it returns is the constant LockingSelect.                               *)
(***************************************************************************)
EXTENDS Integers, FiniteSets

CONSTANTS Requests,        \* calls of coupon/iphone8Coupon
          Users,
          Orders,
          UserOf,          \* the userid of each request
          OrderOf,         \* its orderid, which the client chooses: any request
                           \* may name any order, of another user's too
          IssueCount,      \* property ISSUE_IPONE_CODE_COUNT
          NumCodes,        \* rows of the table of codes
          LockingSelect,   \* selectMinCodes is a SELECT ... FOR UPDATE
          None             \* null

ASSUME UserOfAssumption == UserOf \in [Requests -> Users]
ASSUME OrderOfAssumption == OrderOf \in [Requests -> Orders]
ASSUME CountsAssumption == IssueCount \in Nat /\ NumCodes \in Nat
ASSUME NoneAssumption == None \notin Requests /\ None \notin Nat

Codes == 1..NumCodes

VARIABLES curUsed,     \* Redis counter CUR_USED_IPONE8_CODE_COUNT, null is 0
          userKey,     \* Redis USER:<userid>: the code written there
          orderKey,    \* Redis ORDER:<orderid>: the code written there
          owner,       \* committed table: the request that got the code
          rowLock,     \* the transaction that holds the row
          pc,          \* next statement of each request, or its answer
          ticket,      \* curCount of each request, 0 before the INCR
          code,        \* entity.buy_code of each request
          texted       \* the code sent to the user by SMS, by request

vars == <<curUsed, userKey, orderKey, owner, rowLock, pc, ticket, code, texted>>
redis == <<curUsed, userKey, orderKey>>
table == <<owner, rowLock>>

InTransaction == {"select", "update", "sms", "setUser", "setOrder", "commit"}
Working == {"checkUser", "checkCount", "incr"} \cup InTransaction
Answers == {"success", "received", "soldout", "error"}

-------------------------------------------------------------------------------
Init == /\ curUsed = 0
        /\ userKey = [u \in Users |-> None]
        /\ orderKey = [o \in Orders |-> None]
        /\ owner = [c \in Codes |-> None]
        /\ rowLock = [c \in Codes |-> None]
        /\ pc = [r \in Requests |-> "checkUser"]
        /\ ticket = [r \in Requests |-> 0]
        /\ code = [r \in Requests |-> None]
        /\ texted = [r \in Requests |-> None]

Goto(r, label) == pc' = [pc EXCEPT ![r] = label]

\* getLastAmout: what coupon/unusedAmount shows.
LastAmout == IF curUsed < IssueCount THEN IssueCount - curUsed ELSE 0

\* ishasOrderid
HasOrder(o) == orderKey[o] # None

\* hasReceiveCoupon: GET USER:<userid>.
CheckUser(r) ==
    /\ pc[r] = "checkUser"
    /\ Goto(r, IF userKey[UserOf[r]] # None THEN "received" ELSE "checkCount")
    /\ UNCHANGED <<redis, table, ticket, code, texted>>

\* isHaveCanUsedCoupon: GET of the counter.
CheckCount(r) ==
    /\ pc[r] = "checkCount"
    /\ Goto(r, IF curUsed >= IssueCount THEN "soldout" ELSE "incr")
    /\ UNCHANGED <<redis, table, ticket, code, texted>>

\* Mutant of Incr: DECR for INCR.
IncrDecrements(r) ==
    /\ pc[r] = "incr"
    /\ curUsed' = curUsed - 1
    /\ ticket' = [ticket EXCEPT ![r] = curUsed']
    /\ Goto(r, IF curUsed' <= IssueCount THEN "select" ELSE "soldout")
    /\ UNCHANGED <<userKey, orderKey, table, code, texted>>

\* Mutant of Incr: without the comparison of line 85.
IncrUnchecked(r) ==
    /\ pc[r] = "incr"
    /\ curUsed' = curUsed + 1
    /\ ticket' = [ticket EXCEPT ![r] = curUsed']
    /\ Goto(r, "select")
    /\ UNCHANGED <<userKey, orderKey, table, code, texted>>

\* INCR, then the comparison of its result.
Incr(r) ==
    /\ pc[r] = "incr"
    /\ curUsed' = curUsed + 1
    /\ ticket' = [ticket EXCEPT ![r] = curUsed']
    /\ Goto(r, IF curUsed' <= IssueCount THEN "select" ELSE "soldout")
    /\ UNCHANGED <<userKey, orderKey, table, code, texted>>

FreeCodes == {c \in Codes : owner[c] = None}

MinFree(c) == c \in FreeCodes /\ \A d \in FreeCodes : c <= d

\* Mutant of SelectMinCodes: a plain SELECT.
SelectMinCodesUnlocked(r) ==
    /\ pc[r] = "select"
    /\ \E c \in Codes : MinFree(c) /\ code' = [code EXCEPT ![r] = c]
    /\ Goto(r, "update")
    /\ UNCHANGED <<redis, owner, rowLock, ticket, texted>>

\* selectMinCodes sees committed rows; a locking one waits for the row.
SelectMinCodes(r) ==
    /\ pc[r] = "select"
    /\ \E c \in Codes :
         /\ MinFree(c)
         /\ code' = [code EXCEPT ![r] = c]
         /\ IF LockingSelect
            THEN rowLock[c] = None /\ rowLock' = [rowLock EXCEPT ![c] = r]
            ELSE UNCHANGED rowLock
    /\ Goto(r, "update")
    /\ UNCHANGED <<redis, owner, ticket, texted>>

\* No row left: entity is null and entity.getBuy_code() throws.
SelectNothing(r) ==
    /\ pc[r] = "select"
    /\ FreeCodes = {}
    /\ Goto(r, "error")
    /\ UNCHANGED <<redis, table, ticket, code, texted>>

\* updateToCodes waits for the row lock and keeps it until the transaction
\* ends; it writes whoever owns the row by then.
UpdateToCodes(r) ==
    /\ pc[r] = "update"
    /\ rowLock[code[r]] \in {None, r}
    /\ rowLock' = [rowLock EXCEPT ![code[r]] = r]
    /\ Goto(r, "sms")
    /\ UNCHANGED <<redis, owner, ticket, code, texted>>

\* sendMsgForIphoneCode: the code goes out before the transaction commits, or
\* nothing does when the wallet service knows no phone number.
SendMsg(r) ==
    /\ pc[r] = "sms"
    /\ \E c \in {code[r], None} : texted' = [texted EXCEPT ![r] = c]
    /\ Goto(r, "setUser")
    /\ UNCHANGED <<redis, table, ticket, code>>

\* Mutant of SetUser: the key of the user is not written.
SetUserForgets(r) ==
    /\ pc[r] = "setUser"
    /\ Goto(r, "setOrder")
    /\ UNCHANGED <<redis, table, ticket, code, texted>>

SetUser(r) ==
    /\ pc[r] = "setUser"
    /\ userKey' = [userKey EXCEPT ![UserOf[r]] = code[r]]
    /\ Goto(r, "setOrder")
    /\ UNCHANGED <<curUsed, orderKey, table, ticket, code, texted>>

\* The key of the order is written over what another request of it left.
SetOrder(r) ==
    /\ pc[r] = "setOrder"
    /\ orderKey' = [orderKey EXCEPT ![OrderOf[r]] = code[r]]
    /\ Goto(r, "commit")
    /\ UNCHANGED <<curUsed, userKey, table, ticket, code, texted>>

Release(r) == rowLock' = [c \in Codes |-> IF rowLock[c] = r THEN None ELSE rowLock[c]]

Commit(r) ==
    /\ pc[r] = "commit"
    /\ owner' = [owner EXCEPT ![code[r]] = r]
    /\ Release(r)
    /\ Goto(r, "success")
    /\ UNCHANGED <<redis, ticket, code, texted>>

\* Mutant of Fail: the transaction is left open.
FailKeepsLock(r) ==
    /\ pc[r] \in Working
    /\ Goto(r, "error")
    /\ UNCHANGED <<redis, table, ticket, code, texted>>

\* Mutant of Fail: a compensation that also undoes an INCR never done.
FailDecrements(r) ==
    /\ pc[r] \in Working
    /\ curUsed > 0
    /\ curUsed' = curUsed - 1
    /\ Release(r)
    /\ Goto(r, "error")
    /\ UNCHANGED <<userKey, orderKey, owner, ticket, code, texted>>

\* Any call to Redis, the database or the message service throws, or the
\* process dies: the transaction rolls back, the Redis keys stay.
Fail(r) ==
    /\ pc[r] \in Working
    /\ Release(r)
    /\ Goto(r, "error")
    /\ UNCHANGED <<redis, owner, ticket, code, texted>>

-------------------------------------------------------------------------------
Step(r) == \/ CheckUser(r) \/ CheckCount(r) \/ Incr(r)
           \/ SelectMinCodes(r) \/ SelectNothing(r) \/ UpdateToCodes(r)
           \/ SendMsg(r) \/ SetUser(r) \/ SetOrder(r) \/ Commit(r)

Next == \E r \in Requests : Step(r) \/ Fail(r)

\* A request that has begun goes on: each runs on a server thread of its own.
Fairness == \A r \in Requests : WF_vars(pc[r] # "checkUser" /\ Step(r))

SafeSpec == Init /\ [][Next]_vars

Spec == SafeSpec /\ Fairness

-------------------------------------------------------------------------------
TypeOK == /\ curUsed \in Nat
          /\ userKey \in [Users -> Codes \cup {None}]
          /\ orderKey \in [Orders -> Codes \cup {None}]
          /\ owner \in [Codes -> Requests \cup {None}]
          /\ rowLock \in [Codes -> Requests \cup {None}]
          /\ pc \in [Requests -> Working \cup Answers]
          /\ ticket \in [Requests -> Nat]
          /\ code \in [Requests -> Codes \cup {None}]
          /\ texted \in [Requests -> Codes \cup {None}]

Winners == {r \in Requests : pc[r] = "success"}

Sold == {c \in Codes : owner[c] # None}

\* Requests that passed the comparison at line 85 and are still at work.
Entitled == {r \in Requests : pc[r] \in InTransaction}

\* No more coupons than issued: the check at line 76 is not atomic with the
\* INCR at line 83, and still at most IssueCount requests get a code.
Quota == Cardinality(Winners) <= IssueCount

\* The Redis counter never runs behind the table: the amount unusedAmount
\* shows, the coupons being handed out and the codes already owned add up to
\* no more than was issued, whatever fails in between.
AmountIsAvailable ==
    LastAmout + Cardinality(Entitled) + Cardinality(Sold) <= IssueCount

\* So a request that got past the counter never finds the table empty, and
\* entity.getBuy_code() at line 88 does not throw.
EntitledFindsCode ==
    NumCodes >= IssueCount => \A r \in Requests : pc[r] = "select" => FreeCodes # {}

\* With a locking select a code goes to one request, which the table and the
\* answer to the client agree on.  The order of a winner is shown as served,
\* and an order that is shown names a code which one of its requests got, or
\* gets as soon as it commits, or gave back when it failed after line 98.  It
\* need not be the winner's: another request with the same orderid may have
\* written its own code over it.
OneOwnerPerCode ==
    LockingSelect =>
        /\ \A r \in Winners : owner[code[r]] = r /\ HasOrder(OrderOf[r])
        /\ \A o \in Orders : HasOrder(o) =>
              \E r \in Requests : /\ OrderOf[r] = o /\ code[r] = orderKey[o]
                                 /\ pc[r] \in {"commit", "success", "error"}

\* With a locking select the same code is texted twice only when one of the
\* two requests failed after its message had gone out (line 96) and so gave
\* the row back.
TextedTwiceOnlyAfterFailure ==
    LockingSelect =>
        \A r, s \in Requests :
            r # s /\ texted[r] = texted[s] /\ texted[r] # None
            => pc[r] = "error" \/ pc[s] = "error"

\* Orders that nobody but the user of request s submits.
OwnOrder(s) == \A q \in Requests : OrderOf[q] = OrderOf[s] => UserOf[q] = UserOf[s]

\* A user is refused who asks again after an answer with a code, or after
\* coupon/hasOrder began to show one of the user's own orders as served, even
\* if that request failed later and its row was given back.  (An order that
\* another user submits as well may be shown because of that user.)
ReceivedUserIsRefused ==
    [][\A r \in Requests : pc[r] = "checkUser" /\ pc'[r] = "checkCount" =>
          \A s \in Requests : s \in Winners \/ (HasOrder(OrderOf[s]) /\ OwnOrder(s))
                              => UserOf[s] # UserOf[r]]_vars

\* Every request that has begun is answered, row locks included.
EveryRequestAnswered ==
    \A r \in Requests : pc[r] = "checkCount" ~> pc[r] \in Answers

\* What line 68 announces: no second coupon for a user.
OneCouponPerUser == \A r, s \in Winners : UserOf[r] = UserOf[s] => r = s
===============================================================================
