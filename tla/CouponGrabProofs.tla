--------------------------- MODULE CouponGrabProofs ---------------------------
(***************************************************************************)
(* The quota of coupons and the agreement of table, keys and answers, for  *)
(* every number of requests, users and codes.                              *)
(***************************************************************************)
EXTENDS CouponGrab, FiniteSetTheorems, TLAPS

\* Every INCR returned another number, and only numbers up to IssueCount let
\* a request into the transaction.
Tickets == /\ \A r \in Requests : ticket[r] <= curUsed
           /\ \A r \in Requests : pc[r] \in {"checkUser", "checkCount", "incr"} => ticket[r] = 0
           /\ \A r \in Requests : pc[r] \in InTransaction \cup {"success"} =>
                 ticket[r] \in 1..IssueCount
           /\ \A r, s \in Requests : r # s /\ ticket[r] = ticket[s] => ticket[r] = 0

QuotaInv == TypeOK /\ Tickets

-------------------------------------------------------------------------------
LEMMA IntervalFromOne ==
    ASSUME NEW n \in Nat
    PROVE  IsFiniteSet(1..n) /\ Cardinality(1..n) = n
  BY FS_Interval

LEMMA InitQuotaInv == Init => QuotaInv
  <1>. SUFFICES ASSUME Init PROVE QuotaInv
    OBVIOUS
  <1>1. TypeOK
    BY DEF Init, TypeOK, Working
  <1>2. Tickets
    BY DEF Init, Tickets, InTransaction
  <1>. QED BY <1>1, <1>2 DEF QuotaInv

\* Releasing row locks leaves a well-formed lock table.
LEMMA ReleaseType ==
    ASSUME rowLock \in [Codes -> Requests \cup {None}], NEW r \in Requests, Release(r)
    PROVE  rowLock' \in [Codes -> Requests \cup {None}]
  BY DEF Release

\* Every step keeps the types, one statement of the service at a time.
LEMMA TypeKept ==
    ASSUME TypeOK, NEW r \in Requests, Step(r) \/ Fail(r)
    PROVE  TypeOK'
  <1>. USE DEF TypeOK, Goto, redis, table
  <1>0. \A l \in Working \cup Answers : [pc EXCEPT ![r] = l] \in [Requests -> Working \cup Answers]
    OBVIOUS
  <1>1. CASE CheckUser(r)
    BY <1>1, <1>0 DEF CheckUser, Working, Answers
  <1>2. CASE CheckCount(r)
    BY <1>2, <1>0 DEF CheckCount, Working, Answers
  <1>3. CASE Incr(r)
    BY <1>3, <1>0 DEF Incr, Working, Answers, InTransaction
  <1>4. CASE SelectMinCodes(r)
    BY <1>4, <1>0 DEF SelectMinCodes, Working, InTransaction
  <1>5. CASE SelectNothing(r)
    BY <1>5, <1>0 DEF SelectNothing, Answers
  <1>6. CASE UpdateToCodes(r)
    BY <1>6, <1>0 DEF UpdateToCodes, Working, InTransaction
  <1>7. CASE SendMsg(r)
    BY <1>7, <1>0 DEF SendMsg, Working, InTransaction
  <1>8. CASE SetUser(r)
    BY <1>8, <1>0, UserOfAssumption DEF SetUser, Working, InTransaction
  <1>9. CASE SetOrder(r)
    BY <1>9, <1>0, OrderOfAssumption DEF SetOrder, Working, InTransaction
  <1>10. CASE Commit(r)
    BY <1>10, <1>0, ReleaseType DEF Commit, Answers
  <1>11. CASE Fail(r)
    BY <1>11, <1>0, ReleaseType DEF Fail, Answers
  <1>. QED BY <1>1, <1>2, <1>3, <1>4, <1>5, <1>6, <1>7, <1>8, <1>9, <1>10, <1>11 DEF Step

\* INCR hands out a fresh ticket; no other statement touches the tickets, and
\* the transaction is entered only through INCR.
LEMMA TicketsKept ==
    ASSUME QuotaInv, NEW r \in Requests, Step(r) \/ Fail(r)
    PROVE  Tickets'
  <1>. USE DEF QuotaInv
  <1>1. CASE Incr(r)
    <2>1. /\ curUsed \in Nat /\ curUsed' = curUsed + 1
          /\ ticket' = [ticket EXCEPT ![r] = curUsed + 1]
          /\ \A s \in Requests : ticket[s] \in Nat /\ ticket[s] <= curUsed
          /\ \A s \in Requests \ {r} : pc'[s] = pc[s]
          /\ pc'[r] = IF curUsed + 1 <= IssueCount THEN "select" ELSE "soldout"
      BY <1>1 DEF Incr, Goto, TypeOK, Tickets
    <2>2. \A s \in Requests : ticket'[s] = IF s = r THEN curUsed + 1 ELSE ticket[s]
      BY <2>1 DEF TypeOK
    <2>3. \A s \in Requests : ticket'[s] <= curUsed'
      BY <2>1, <2>2
    <2>4. \A s, t \in Requests : s # t /\ ticket'[s] = ticket'[t] => ticket'[s] = 0
      BY <2>1, <2>2 DEF Tickets
    <2>5. \A s \in Requests : pc'[s] \in {"checkUser", "checkCount", "incr"} => ticket'[s] = 0
      BY <2>1, <2>2 DEF Tickets
    <2>6. \A s \in Requests : pc'[s] \in InTransaction \cup {"success"} => ticket'[s] \in 1..IssueCount
      BY <2>1, <2>2, CountsAssumption DEF Tickets, InTransaction
    <2>. QED BY <2>3, <2>4, <2>5, <2>6 DEF Tickets
  <1>2. CASE ~Incr(r)
    <2>1. UNCHANGED <<curUsed, ticket>>
      BY <1>2 DEF Step, CheckUser, CheckCount, SelectMinCodes, SelectNothing,
         UpdateToCodes, SendMsg, SetUser, SetOrder, Commit, Fail, redis, table
    <2>2. /\ \A s \in Requests \ {r} : pc'[s] = pc[s]
          /\ pc'[r] \in {"checkCount", "incr"} => pc[r] \in {"checkUser", "checkCount"}
          /\ pc'[r] \in InTransaction \cup {"success"} => pc[r] \in InTransaction
          /\ pc'[r] # "checkUser"
      BY <1>2 DEF Step, CheckUser, CheckCount, SelectMinCodes, SelectNothing,
         UpdateToCodes, SendMsg, SetUser, SetOrder, Commit, Fail, Goto, InTransaction, TypeOK
    <2>. QED BY <2>1, <2>2 DEF Tickets
  <1>. QED BY <1>1, <1>2

LEMMA QuotaInvHolds == SafeSpec => []QuotaInv
  <1>1. QuotaInv /\ [Next]_vars => QuotaInv'
    <2>. SUFFICES ASSUME QuotaInv, [Next]_vars PROVE QuotaInv'
      OBVIOUS
    <2>1. ASSUME NEW r \in Requests, Step(r) \/ Fail(r) PROVE QuotaInv'
      BY <2>1, TypeKept, TicketsKept DEF QuotaInv
    <2>2. CASE UNCHANGED vars
      BY <2>2 DEF vars, QuotaInv, TypeOK, Tickets
    <2>. QED BY <2>1, <2>2 DEF Next
  <1>. QED BY <1>1, InitQuotaInv, PTL DEF SafeSpec

-------------------------------------------------------------------------------
\* Variables keep their types.
THEOREM TypeCorrect == SafeSpec => []TypeOK
  <1>1. QuotaInv => TypeOK
    BY DEF QuotaInv
  <1>. QED BY <1>1, QuotaInvHolds, PTL

\* No more than IssueCount requests ever succeed: the winners' tickets map
\* them one to one into 1..IssueCount.
THEOREM QuotaHolds == SafeSpec => []Quota
  <1>1. QuotaInv => Quota
    <2>. SUFFICES ASSUME QuotaInv PROVE Cardinality(Winners) <= IssueCount
      BY DEF Quota
    <2>. DEFINE f == [r \in Winners |-> ticket[r]]
    <2>1. f \in Injection(Winners, 1..IssueCount)
      BY DEF QuotaInv, Tickets, Winners, Injection, IsInjective
    <2>2. IsFiniteSet(1..IssueCount) /\ Cardinality(1..IssueCount) = IssueCount
      BY IntervalFromOne, CountsAssumption
    <2>. HIDE DEF f
    <2>. QED BY <2>1, <2>2, FS_Injection
  <1>. QED BY <1>1, QuotaInvHolds, PTL


\* Owned rows name the winner that got them.
Owned == \A c \in Sold : owner[c] \in Winners /\ code[owner[c]] = c

LEMMA OwnedHolds == SafeSpec => []Owned
  <1>1. Init => Owned
    BY DEF Init, Owned, Sold
  <1>2. QuotaInv /\ Owned /\ [Next]_vars => Owned'
    <2>. SUFFICES ASSUME QuotaInv, Owned, [Next]_vars PROVE Owned'
      OBVIOUS
    <2>. USE DEF QuotaInv, TypeOK
    <2>1. ASSUME NEW r \in Requests, Commit(r) PROVE Owned'
      <3>1. /\ owner' = [owner EXCEPT ![code[r]] = r] /\ code' = code
            /\ pc[r] = "commit" /\ Winners' = Winners \cup {r}
        BY <2>1 DEF Commit, Goto, Winners
      <3>. QED BY <3>1 DEF Owned, Sold, Winners
    <2>2. ASSUME NEW r \in Requests, Step(r) \/ Fail(r), ~Commit(r) PROVE Owned'
      <3>1. /\ owner' = owner
            /\ \A s \in Requests : pc[s] = "success" => pc'[s] = "success" /\ code'[s] = code[s]
        BY <2>2 DEF Step, CheckUser, CheckCount, Incr, SelectMinCodes, SelectNothing,
           UpdateToCodes, SendMsg, SetUser, SetOrder, Fail, Goto, Working, InTransaction,
           redis, table
      <3>. QED BY <3>1 DEF Owned, Sold, Winners
    <2>3. CASE UNCHANGED vars
      BY <2>3 DEF vars, Owned, Sold, Winners
    <2>. QED BY <2>1, <2>2, <2>3 DEF Next
  <1>. QED BY <1>1, <1>2, QuotaInvHolds, PTL DEF SafeSpec

\* The amount shown is never more than what is left to hand out: tickets map
\* whoever owns or is getting a code one to one into 1..IssueCount, below
\* the counter.
THEOREM AmountIsAvailableHolds == SafeSpec => []AmountIsAvailable
  <1>1. QuotaInv /\ Owned => AmountIsAvailable
    <2>. SUFFICES ASSUME QuotaInv, Owned
                  PROVE  LastAmout + Cardinality(Entitled) + Cardinality(Sold) <= IssueCount
      BY DEF AmountIsAvailable
    <2>. DEFINE bound == IF curUsed < IssueCount THEN curUsed ELSE IssueCount
                both == Entitled \cup Winners
                f == [r \in both |-> ticket[r]]
                g == [c \in Sold |-> owner[c]]
    <2>1. bound \in Nat /\ LastAmout = IssueCount - bound /\ IssueCount \in Nat
      BY CountsAssumption DEF LastAmout, QuotaInv, TypeOK
    <2>2. f \in Injection(both, 1..bound)
      <3>1. \A r \in both : r \in Requests /\ ticket[r] \in 1..IssueCount /\ ticket[r] <= curUsed
        BY DEF QuotaInv, Tickets, Winners, Entitled
      <3>2. \A r \in both : ticket[r] \in 1..bound
        BY <3>1, CountsAssumption DEF QuotaInv, TypeOK
      <3>3. \A r, s \in both : ticket[r] = ticket[s] => r = s
        BY <3>1 DEF QuotaInv, Tickets
      <3>. QED BY <3>2, <3>3 DEF Injection, IsInjective
    <2>. HIDE DEF f, bound
    <2>3. IsFiniteSet(1..bound) /\ Cardinality(1..bound) = bound
      BY <2>1, IntervalFromOne
    <2>4. IsFiniteSet(both) /\ Cardinality(both) <= bound
      BY <2>2, <2>3, FS_Injection
    <2>5. IsFiniteSet(Entitled) /\ IsFiniteSet(Winners)
      BY <2>4, FS_Subset
    <2>6. Entitled \cap Winners = {}
      BY DEF Entitled, Winners, InTransaction
    <2>7. Cardinality(both) = Cardinality(Entitled) + Cardinality(Winners)
      <3>1. /\ Cardinality(both) = Cardinality(Entitled) + Cardinality(Winners)
                                   - Cardinality(Entitled \cap Winners)
        BY <2>5, FS_Union
      <3>2. Cardinality(Entitled \cap Winners) = 0
        BY <2>6, FS_EmptySet
      <3>3. Cardinality(Entitled) \in Nat /\ Cardinality(Winners) \in Nat
        BY <2>5, FS_CardinalityType
      <3>. QED BY <3>1, <3>2, <3>3
    <2>8. IsFiniteSet(Sold) /\ Cardinality(Sold) <= Cardinality(Winners)
      <3>1. g \in Injection(Sold, Winners)
        BY DEF Owned, Injection, IsInjective
      <3>. HIDE DEF g
      <3>. QED BY <3>1, <2>5, FS_Injection
    <2>9. /\ Cardinality(Entitled) \in Nat /\ Cardinality(Winners) \in Nat
          /\ Cardinality(Sold) \in Nat
      BY <2>5, <2>8, FS_CardinalityType
    <2>. QED BY <2>1, <2>4, <2>7, <2>8, <2>9
  <1>. QED BY <1>1, QuotaInvHolds, OwnedHolds, PTL


\* With enough codes in the table an entitled request always finds one.
THEOREM EntitledFindsCodeHolds == SafeSpec => []EntitledFindsCode
  <1>1. TypeOK /\ AmountIsAvailable /\ IsFiniteSet(Entitled) => EntitledFindsCode
    <2>. SUFFICES ASSUME TypeOK, AmountIsAvailable, IsFiniteSet(Entitled), NumCodes >= IssueCount,
                         NEW r \in Requests, pc[r] = "select", FreeCodes = {}
                  PROVE  FALSE
      BY DEF EntitledFindsCode
    <2>1. Sold = 1..NumCodes
      BY DEF Sold, FreeCodes, Codes
    <2>2. Cardinality(Sold) = NumCodes
      BY <2>1, IntervalFromOne, CountsAssumption
    <2>3. r \in Entitled
      BY DEF Entitled, InTransaction
    <2>4. Cardinality(Entitled) \in Nat /\ Cardinality(Entitled) # 0
      BY <2>3, FS_CardinalityType, FS_EmptySet
    <2>5. LastAmout \in Nat
      BY CountsAssumption DEF LastAmout, TypeOK
    <2>. QED BY <2>2, <2>4, <2>5, CountsAssumption DEF AmountIsAvailable
  <1>2. QuotaInv => IsFiniteSet(Entitled)
    <2>. SUFFICES ASSUME QuotaInv PROVE IsFiniteSet(Entitled)
      OBVIOUS
    <2>. DEFINE f == [r \in Entitled |-> ticket[r]]
    <2>1. f \in Injection(Entitled, 1..IssueCount)
      BY DEF QuotaInv, Tickets, Entitled, Injection, IsInjective
    <2>2. IsFiniteSet(1..IssueCount)
      BY IntervalFromOne, CountsAssumption
    <2>. HIDE DEF f
    <2>. QED BY <2>1, <2>2, FS_Injection
  <1>. QED BY <1>1, <1>2, QuotaInvHolds, TypeCorrect, AmountIsAvailableHolds, PTL

\* The key of a user is there before the user is answered, and an order that
\* is shown was submitted by a user whose key is there.
KeyWritten ==
    /\ \A r \in Requests :
          /\ pc[r] \in {"update", "sms", "setUser", "setOrder", "commit", "success"}
             => code[r] \in Codes
          /\ pc[r] \in {"setOrder", "commit", "success"} => userKey[UserOf[r]] # None
    /\ \A o \in Orders : HasOrder(o) =>
          \E r \in Requests : OrderOf[r] = o /\ userKey[UserOf[r]] # None

LEMMA KeyWrittenHolds == SafeSpec => []KeyWritten
  <1>1. Init => KeyWritten
    BY DEF Init, KeyWritten, HasOrder
  <1>2. QuotaInv /\ KeyWritten /\ [Next]_vars => KeyWritten'
    <2>. SUFFICES ASSUME QuotaInv, KeyWritten, [Next]_vars PROVE KeyWritten'
      OBVIOUS
    <2>. USE UserOfAssumption, OrderOfAssumption DEF QuotaInv, TypeOK
    <2>1. ASSUME NEW r \in Requests, SelectMinCodes(r) PROVE KeyWritten'
      BY <2>1 DEF SelectMinCodes, MinFree, FreeCodes, Goto, redis, KeyWritten, HasOrder
    <2>2. ASSUME NEW r \in Requests, SetUser(r) PROVE KeyWritten'
      <3>1. /\ code[r] \in Codes /\ UNCHANGED <<code, orderKey>>
            /\ userKey' = [userKey EXCEPT ![UserOf[r]] = code[r]]
            /\ pc[r] = "setUser" /\ \A s \in Requests \ {r} : pc'[s] = pc[s]
        BY <2>2 DEF SetUser, Goto, KeyWritten
      <3>2. code[r] # None
        BY <3>1, NoneAssumption, CountsAssumption DEF Codes
      <3>3. userKey'[UserOf[r]] # None
            /\ \A u \in Users : userKey[u] # None => userKey'[u] # None
        BY <3>1, <3>2
      <3>. QED BY <3>1, <3>3 DEF KeyWritten, HasOrder
    <2>3. ASSUME NEW r \in Requests, Step(r) \/ Fail(r), ~SelectMinCodes(r), ~SetUser(r), ~SetOrder(r)
          PROVE  KeyWritten'
      BY <2>3 DEF Step, CheckUser, CheckCount, Incr, SelectNothing,
         UpdateToCodes, SendMsg, Commit, Fail, Goto, redis, table, KeyWritten, HasOrder
    <2>4. ASSUME NEW r \in Requests, SetOrder(r) PROVE KeyWritten'
      <3>1. /\ orderKey' = [orderKey EXCEPT ![OrderOf[r]] = code[r]]
            /\ UNCHANGED <<code, userKey>>
            /\ pc[r] = "setOrder" /\ pc'[r] = "commit"
            /\ \A s \in Requests \ {r} : pc'[s] = pc[s]
        BY <2>4 DEF SetOrder, Goto
      <3>2. userKey[UserOf[r]] # None
        BY <3>1 DEF KeyWritten
      <3>3. \A o \in Orders \ {OrderOf[r]} : orderKey'[o] = orderKey[o]
        BY <3>1
      <3>. QED BY <3>1, <3>2, <3>3 DEF KeyWritten, HasOrder
    <2>5. CASE UNCHANGED vars
      BY <2>5 DEF vars, KeyWritten, HasOrder
    <2>. QED BY <2>1, <2>2, <2>3, <2>4, <2>5 DEF Next
  <1>. QED BY <1>1, <1>2, QuotaInvHolds, PTL DEF SafeSpec

\* Once a user was answered with a code, or an order of the user alone is known
\* to coupon/hasOrder, a new request of that user is refused: only requests
\* that overlap can both get through.
THEOREM ReceivedUserIsRefusedHolds == SafeSpec => ReceivedUserIsRefused
  <1>. DEFINE A == \A r \in Requests : pc[r] = "checkUser" /\ pc'[r] = "checkCount" =>
                       \A s \in Requests :
                          s \in Winners \/ (HasOrder(OrderOf[s]) /\ OwnOrder(s))
                          => UserOf[s] # UserOf[r]
  <1>1. QuotaInv /\ KeyWritten /\ [Next]_vars => [A]_vars
    <2>. SUFFICES ASSUME QuotaInv, KeyWritten, [Next]_vars,
                         NEW r \in Requests, pc[r] = "checkUser", pc'[r] = "checkCount",
                         NEW s \in Requests,
                         s \in Winners \/ (HasOrder(OrderOf[s]) /\ OwnOrder(s))
                  PROVE  UserOf[s] # UserOf[r]
      OBVIOUS
    <2>1. userKey[UserOf[s]] # None
      <3>1. CASE s \in Winners
        BY <3>1 DEF KeyWritten, Winners
      <3>2. CASE HasOrder(OrderOf[s]) /\ OwnOrder(s)
        BY <3>2, OrderOfAssumption DEF KeyWritten, OwnOrder
      <3>. QED BY <3>1, <3>2
    <2>2. PICK q \in Requests : Step(q) \/ Fail(q)
      BY DEF Next, vars
    <2>3. CASE CheckUser(r)
      BY <2>1, <2>3 DEF CheckUser, Goto, QuotaInv, TypeOK
    <2>4. CASE ~CheckUser(r)
      BY <2>2, <2>4 DEF Step, CheckUser, CheckCount, Incr, SelectMinCodes, SelectNothing,
         UpdateToCodes, SendMsg, SetUser, SetOrder, Commit, Fail, Goto, QuotaInv, TypeOK
    <2>. QED BY <2>3, <2>4
  <1>. QED BY <1>1, QuotaInvHolds, KeyWrittenHolds, PTL DEF SafeSpec, ReceivedUserIsRefused

-------------------------------------------------------------------------------
(***************************************************************************)
(* With a locking select: the row lock is what separates the requests.     *)
(***************************************************************************)
HoldsRow == {"update", "sms", "setUser", "setOrder", "commit"}

\* The key of order o holds the code of request r, which has passed line 98.
Wrote(o, r) == /\ OrderOf[r] = o /\ code[r] = orderKey[o]
               /\ pc[r] \in {"commit", "success", "error"}

Rows == /\ \A r \in Requests : pc[r] \in HoldsRow =>
              code[r] \in Codes /\ rowLock[code[r]] = r /\ owner[code[r]] = None
        /\ \A r \in Winners :
              code[r] \in Codes /\ owner[code[r]] = r /\ HasOrder(OrderOf[r])
        /\ \A r \in Requests : pc[r] = "commit" => HasOrder(OrderOf[r])
        /\ \A o \in Orders : HasOrder(o) => \E r \in Requests : Wrote(o, r)
        /\ \A r \in Requests : texted[r] # None =>
              texted[r] = code[r] /\ pc[r] \in HoldsRow \cup {"success", "error"}

RowInv == QuotaInv /\ Rows

LEMMA InitRows == Init => Rows
  BY DEF Init, Rows, HoldsRow, Winners, HasOrder

\* A statement that writes neither the table nor a local variable of a
\* request in the transaction keeps Rows.
LEMMA RowsKeptByReads ==
    ASSUME RowInv, NEW r \in Requests,
           CheckUser(r) \/ CheckCount(r) \/ Incr(r) \/ SelectNothing(r)
    PROVE  Rows'
  <1>1. /\ UNCHANGED <<orderKey, owner, rowLock, code, texted>>
        /\ pc[r] \notin HoldsRow \cup {"success"} /\ pc'[r] \notin HoldsRow \cup {"success"}
        /\ pc[r] \notin HoldsRow \cup {"success", "error"}
        /\ \A s \in Requests \ {r} : pc'[s] = pc[s]
    BY DEF CheckUser, CheckCount, Incr, SelectNothing, Goto, HoldsRow, redis, table,
       RowInv, QuotaInv, TypeOK
  <1>2. Winners' = Winners
    BY <1>1 DEF Winners
  <1>3. \A o \in Orders : HasOrder(o)' = HasOrder(o)
        /\ \A s \in Requests : Wrote(o, s) => Wrote(o, s)'
    BY <1>1 DEF HasOrder, Wrote, HoldsRow
  <1>4. \A s \in Requests : HasOrder(OrderOf[s]) => HasOrder(OrderOf[s])'
    BY <1>3, OrderOfAssumption
  <1>5. \A o \in Orders : HasOrder(o)' => \E s \in Requests : Wrote(o, s)'
    BY <1>3 DEF RowInv, Rows
  <1>6. \A s \in Requests : pc'[s] \in HoldsRow =>
           code'[s] \in Codes /\ rowLock'[code'[s]] = s /\ owner'[code'[s]] = None
    BY <1>1 DEF RowInv, Rows
  <1>7. \A s \in Winners' :
           code'[s] \in Codes /\ owner'[code'[s]] = s /\ HasOrder(OrderOf[s])'
    BY <1>1, <1>2, <1>4 DEF RowInv, Rows, Winners
  <1>8. \A s \in Requests : texted'[s] # None =>
           texted'[s] = code'[s] /\ pc'[s] \in HoldsRow \cup {"success", "error"}
    BY <1>1 DEF RowInv, Rows
  <1>9. \A s \in Requests : pc'[s] = "commit" => HasOrder(OrderOf[s])'
    BY <1>1, <1>4 DEF RowInv, Rows, HoldsRow
  <1>. QED BY <1>5, <1>6, <1>7, <1>8, <1>9 DEF Rows

LEMMA RowsKeptBySelect ==
    ASSUME RowInv, LockingSelect, NEW r \in Requests, SelectMinCodes(r)
    PROVE  Rows'
  <1>. USE DEF RowInv, QuotaInv, TypeOK
  <1>1. PICK c \in Codes : /\ MinFree(c)
                           /\ code' = [code EXCEPT ![r] = c]
                           /\ rowLock[c] = None
                           /\ rowLock' = [rowLock EXCEPT ![c] = r]
    BY DEF SelectMinCodes
  <1>2. /\ UNCHANGED <<orderKey, owner, texted>>
        /\ pc[r] = "select" /\ pc'[r] = "update"
        /\ \A s \in Requests \ {r} : pc'[s] = pc[s]
    BY DEF SelectMinCodes, Goto, redis
  <1>3. /\ owner[c] = None /\ code'[r] = c /\ rowLock'[c] = r
        /\ \A s \in Requests \ {r} : code'[s] = code[s]
        /\ \A d \in Codes \ {c} : rowLock'[d] = rowLock[d]
    BY <1>1 DEF MinFree, FreeCodes
  <1>4. texted[r] = None
    BY <1>2 DEF Rows, HoldsRow
  <1>5. \A s \in Requests : pc[s] \in HoldsRow => code[s] # c
    BY <1>1, NoneAssumption DEF Rows
  <1>6. Winners' = Winners
    BY <1>2 DEF Winners
  <1>7. \A s \in Winners : s # r
    BY <1>2 DEF Winners
  <1>8. \A o \in Orders : HasOrder(o)' = HasOrder(o)
        /\ \A s \in Requests : Wrote(o, s) => Wrote(o, s)'
    BY <1>2, <1>3 DEF HasOrder, Wrote
  <1>9. \A s \in Requests : HasOrder(OrderOf[s]) => HasOrder(OrderOf[s])'
    BY <1>8, OrderOfAssumption
  <1>10. \A o \in Orders : HasOrder(o)' => \E s \in Requests : Wrote(o, s)'
    BY <1>8 DEF Rows
  <1>. QED BY <1>1, <1>2, <1>3, <1>4, <1>5, <1>6, <1>7, <1>9, <1>10 DEF Rows, HoldsRow, Winners

\* Statements between the select and the commit move on with the same row.
LEMMA RowsKeptInside ==
    ASSUME RowInv, NEW r \in Requests,
           UpdateToCodes(r) \/ SendMsg(r) \/ SetUser(r) \/ SetOrder(r)
    PROVE  Rows'
  <1>. USE DEF RowInv, QuotaInv, TypeOK
  <1>1. /\ pc[r] \in HoldsRow /\ pc'[r] \in HoldsRow
        /\ \A s \in Requests \ {r} : pc'[s] = pc[s]
        /\ UNCHANGED <<owner, code>>
    BY DEF UpdateToCodes, SendMsg, SetUser, SetOrder, Goto, HoldsRow, redis, table
  <1>2. rowLock' = rowLock
    BY <1>1 DEF UpdateToCodes, SendMsg, SetUser, SetOrder, table, Rows
  <1>. DEFINE OrderKeysKept ==
                 /\ \A o \in Orders : HasOrder(o) => HasOrder(o)'
                 /\ pc'[r] = "commit" => HasOrder(OrderOf[r])'
                 /\ \A o \in Orders : HasOrder(o)' => \E s \in Requests : Wrote(o, s)'
  <1>3. ASSUME SetOrder(r) PROVE OrderKeysKept
    <2>1. /\ orderKey' = [orderKey EXCEPT ![OrderOf[r]] = code[r]]
          /\ pc[r] = "setOrder" /\ pc'[r] = "commit" /\ OrderOf[r] \in Orders
      BY <1>3, OrderOfAssumption DEF SetOrder, Goto
    <2>2. code[r] # None
      BY <1>1, NoneAssumption, CountsAssumption DEF Rows, Codes
    <2>3. \A o \in Orders : HasOrder(o)' <=> o = OrderOf[r] \/ HasOrder(o)
      BY <2>1, <2>2 DEF HasOrder
    <2>4. Wrote(OrderOf[r], r)'
      BY <1>1, <2>1 DEF Wrote
    <2>5. \A o \in Orders \ {OrderOf[r]}, s \in Requests : Wrote(o, s) => Wrote(o, s)'
      BY <1>1, <2>1 DEF Wrote
    <2>6. \A o \in Orders : HasOrder(o)' => \E s \in Requests : Wrote(o, s)'
      BY <2>3, <2>4, <2>5 DEF Rows
    <2>. QED BY <2>1, <2>3, <2>6
  <1>4. ASSUME ~SetOrder(r) PROVE OrderKeysKept
    <2>1. orderKey' = orderKey /\ pc[r] # "commit" /\ pc'[r] # "commit"
      BY <1>4 DEF UpdateToCodes, SendMsg, SetUser, Goto, redis
    <2>2. \A o \in Orders : HasOrder(o)' = HasOrder(o)
          /\ \A s \in Requests : Wrote(o, s) => Wrote(o, s)'
      BY <1>1, <2>1 DEF HasOrder, Wrote, HoldsRow
    <2>. QED BY <2>1, <2>2, OrderOfAssumption DEF Rows
  <1>5. /\ \A s \in Requests \ {r} : texted'[s] = texted[s]
        /\ texted'[r] \in {texted[r], code[r], None}
    BY DEF UpdateToCodes, SendMsg, SetUser, SetOrder
  <1>6. Winners' = Winners /\ r \notin Winners
    BY <1>1 DEF Winners, HoldsRow
  <1>7. \A s \in Winners : s \in Requests \ {r}
    BY <1>6 DEF Winners
  <1>. QED BY <1>1, <1>2, <1>3, <1>4, <1>5, <1>6, <1>7, OrderOfAssumption DEF Rows

\* The end of a transaction gives back its own row and no other.
LEMMA RowsKeptByEnd ==
    ASSUME RowInv, NEW r \in Requests, Commit(r) \/ Fail(r)
    PROVE  Rows'
  <1>. USE DEF RowInv, QuotaInv, TypeOK
  <1>1. /\ \A s \in Requests \ {r} : pc'[s] = pc[s]
        /\ rowLock' = [c \in Codes |-> IF rowLock[c] = r THEN None ELSE rowLock[c]]
        /\ UNCHANGED <<orderKey, code, texted>>
        /\ pc'[r] \in {"success", "error"}
    BY DEF Commit, Fail, Goto, Release, redis
  <1>2. \A s \in Requests \ {r} : pc[s] \in HoldsRow => rowLock'[code[s]] = s
    BY <1>1 DEF Rows
  <1>3. \A o \in Orders : HasOrder(o)' = HasOrder(o)
        /\ \A s \in Requests : Wrote(o, s) => Wrote(o, s)'
    BY <1>1 DEF HasOrder, Wrote
  <1>4. \A s \in Requests : HasOrder(OrderOf[s]) => HasOrder(OrderOf[s])'
    BY <1>3, OrderOfAssumption
  <1>5. \A o \in Orders : HasOrder(o)' => \E s \in Requests : Wrote(o, s)'
    BY <1>3 DEF Rows
  <1>6. CASE Commit(r)
    <2>1. /\ code[r] \in Codes /\ rowLock[code[r]] = r /\ owner[code[r]] = None
          /\ HasOrder(OrderOf[r])
      BY <1>6 DEF Commit, Rows, HoldsRow
    <2>2. /\ owner'[code[r]] = r
          /\ \A c \in Codes \ {code[r]} : owner'[c] = owner[c]
          /\ pc'[r] = "success"
      BY <1>6, <2>1 DEF Commit, Goto
    <2>3. \A s \in Requests \ {r} : pc[s] \in HoldsRow => code[s] # code[r]
      BY <2>1 DEF Rows
    <2>4. \A s \in Winners : code[s] # code[r]
      BY <2>1, NoneAssumption DEF Rows, Winners
    <2>5. Winners' = Winners \cup {r}
      BY <1>1, <2>2 DEF Winners
    <2>6. \A s \in Winners' \ {r} : s \in Winners
      BY <2>5
    <2>7. \A s \in Requests : pc'[s] \in HoldsRow =>
             code'[s] \in Codes /\ rowLock'[code'[s]] = s /\ owner'[code'[s]] = None
      BY <1>1, <1>2, <2>2, <2>3 DEF Rows, HoldsRow
    <2>8. \A s \in Winners' :
             code'[s] \in Codes /\ owner'[code'[s]] = s /\ HasOrder(OrderOf[s])'
      <3>1. ASSUME NEW s \in Winners
            PROVE  /\ code'[s] \in Codes /\ owner'[code'[s]] = s
                   /\ HasOrder(OrderOf[s])'
        <4>1. s \in Requests /\ code[s] \in Codes /\ owner[code[s]] = s /\ HasOrder(OrderOf[s])
          BY DEF Rows, Winners
        <4>. QED BY <4>1, <1>1, <1>4, <2>2, <2>4
      <3>2. code'[r] \in Codes /\ owner'[code'[r]] = r /\ HasOrder(OrderOf[r])'
        BY <1>1, <1>4, <2>1, <2>2
      <3>. QED BY <3>1, <3>2, <2>5
    <2>9. \A s \in Requests : texted'[s] # None =>
             texted'[s] = code'[s] /\ pc'[s] \in HoldsRow \cup {"success", "error"}
      BY <1>1 DEF Rows, HoldsRow
    <2>10. \A s \in Requests : pc'[s] = "commit" => HasOrder(OrderOf[s])'
      BY <1>1, <1>4 DEF Rows
    <2>. QED BY <1>5, <2>7, <2>8, <2>9, <2>10 DEF Rows
  <1>7. CASE Fail(r)
    <2>1. owner' = owner /\ pc'[r] = "error" /\ pc[r] \in Working
      BY <1>7 DEF Fail, Goto
    <2>2. Winners' = Winners
      BY <1>1, <2>1 DEF Winners, Working, InTransaction
    <2>3. \A s \in Requests : texted[s] # None => texted[s] = code[s]
      BY DEF Rows
    <2>. QED BY <1>1, <1>2, <1>4, <1>5, <2>1, <2>2, <2>3 DEF Rows, HoldsRow, Winners
  <1>. QED BY <1>6, <1>7

LEMMA RowInvHolds ==
    ASSUME LockingSelect
    PROVE  SafeSpec => []RowInv
  <1>1. RowInv /\ QuotaInv' /\ [Next]_vars => RowInv'
    <2>. SUFFICES ASSUME RowInv, QuotaInv', [Next]_vars PROVE Rows'
      BY DEF RowInv
    <2>1. ASSUME NEW r \in Requests, Step(r) \/ Fail(r) PROVE Rows'
      BY <2>1, RowsKeptByReads, RowsKeptBySelect, RowsKeptInside, RowsKeptByEnd DEF Step
    <2>2. CASE UNCHANGED vars
      BY <2>2 DEF vars, RowInv, Rows, Winners, HasOrder, Wrote
    <2>. QED BY <2>1, <2>2 DEF Next
  <1>2. Init => Rows
    BY InitRows
  <1>3. QuotaInv /\ Rows => RowInv
    BY DEF RowInv
  <1>. QED BY <1>1, <1>2, <1>3, QuotaInvHolds, PTL DEF SafeSpec

\* With a locking select every winner owns its row of the table, and the key of
\* an order names a code that one of its requests got, gets or gave back.
THEOREM OneOwnerPerCodeHolds == SafeSpec => []OneOwnerPerCode
  <1>1. RowInv => OneOwnerPerCode
    BY DEF RowInv, Rows, OneOwnerPerCode, Wrote
  <1>2. CASE LockingSelect
    BY <1>1, <1>2, RowInvHolds, PTL
  <1>3. CASE ~LockingSelect
    <2>1. OneOwnerPerCode
      BY <1>3 DEF OneOwnerPerCode
    <2>. QED BY <2>1, PTL
  <1>. QED BY <1>2, <1>3

\* With a locking select a code is texted twice only after a failure.
THEOREM TextedTwiceHolds == SafeSpec => []TextedTwiceOnlyAfterFailure
  <1>1. RowInv => TextedTwiceOnlyAfterFailure
    <2>. SUFFICES ASSUME RowInv, NEW r \in Requests, NEW s \in Requests, r # s,
                         texted[r] = texted[s], texted[r] # None,
                         pc[r] # "error", pc[s] # "error"
                  PROVE  FALSE
      BY DEF TextedTwiceOnlyAfterFailure
    <2>1. code[r] = code[s] /\ r # None /\ s # None
      BY NoneAssumption DEF RowInv, Rows
    <2>2. /\ pc[r] \in HoldsRow => rowLock[code[r]] = r /\ owner[code[r]] = None
          /\ pc[r] = "success" => owner[code[r]] = r
          /\ pc[s] \in HoldsRow => rowLock[code[s]] = s /\ owner[code[s]] = None
          /\ pc[s] = "success" => owner[code[s]] = s
      BY DEF RowInv, Rows, Winners
    <2>3. pc[r] \in HoldsRow \cup {"success"} /\ pc[s] \in HoldsRow \cup {"success"}
      BY DEF RowInv, Rows
    <2>. QED BY <2>1, <2>2, <2>3
  <1>2. CASE LockingSelect
    BY <1>1, <1>2, RowInvHolds, PTL
  <1>3. CASE ~LockingSelect
    <2>1. TextedTwiceOnlyAfterFailure
      BY <1>3 DEF TextedTwiceOnlyAfterFailure
    <2>. QED BY <2>1, PTL
  <1>. QED BY <1>2, <1>3
===============================================================================
