\* Two coupons announced, one row, a select that takes no lock.
SPECIFICATION Spec
CONSTANTS
    r1 = r1  r2 = r2  r3 = r3  r4 = r4  u1 = u1  u2 = u2  o1 = o1  o2 = o2
    Requests <- MCRequests
    Users <- MCUsers
    Orders <- MCOrders
    UserOf <- MCUserOf
    OrderOf <- MCOrderOf
    IssueCount = 2
    NumCodes = 1
    LockingSelect = FALSE
    None = None
PROPERTY EveryRequestAnswered
\* Every request has been answered: the system may stop.
CHECK_DEADLOCK FALSE
