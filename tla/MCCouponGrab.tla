----------------------------- MODULE MCCouponGrab -----------------------------
\* Bounds: four requests of two users, so that a user asks twice (as in
\* ThreadsDBReadLockTest, where one user asks three times) and there are more
\* requests than coupons, and than codes in the table.  The first user submits
\* one order twice; the second submits it too, besides an order of its own.
EXTENDS CouponGrab

CONSTANTS r1, r2, r3, r4, u1, u2, o1, o2

MCRequests == {r1, r2, r3, r4}
MCUsers == {u1, u2}
MCOrders == {o1, o2}
MCUserOf == [r \in MCRequests |-> IF r \in {r1, r2} THEN u1 ELSE u2]
MCOrderOf == [r \in MCRequests |-> IF r = r3 THEN o2 ELSE o1]
===============================================================================
