\* One client of the first user, two of the second, and callers with a null and
\* with an empty userid.
SPECIFICATION Spec
CONSTANTS
    a1 = a1  d1 = d1  i1 = i1  o1 = o1  i2 = i2  a2 = a2  b2 = b2
    a3 = a3  e3 = e3  d4 = d4
    u1 = u1  u2 = u2  null = null  empty = empty
    None = None  MaxSent = 4
    NullId <- null
    EmptyId <- empty
    Requests <- MCRequests
    OldTests <- MCOldTests
    Users <- MCUsers
    UserOf <- MCUserOf
    Op <- MCOp
    ClientOf <- MCClientOf
    Registered <- MCRegistered
INVARIANTS TypeOK RecordsAreStored GapOnlyWhileReplacing OneClientIsConsistent
\* Every request has been answered: the system may stop.
CHECK_DEADLOCK FALSE
