\* Two coupons of three codes, a select that locks the row it returns.
SPECIFICATION Spec
CONSTANTS
    r1 = r1  r2 = r2  r3 = r3  r4 = r4  u1 = u1  u2 = u2  o1 = o1  o2 = o2
    Requests <- MCRequests
    Users <- MCUsers
    Orders <- MCOrders
    UserOf <- MCUserOf
    OrderOf <- MCOrderOf
    IssueCount = 2
    NumCodes = 3
    LockingSelect = TRUE
    None = None
INVARIANTS TypeOK Quota AmountIsAvailable EntitledFindsCode OneOwnerPerCode TextedTwiceOnlyAfterFailure
PROPERTIES ReceivedUserIsRefused EveryRequestAnswered
\* Every request has been answered: the system may stop.
CHECK_DEADLOCK FALSE
