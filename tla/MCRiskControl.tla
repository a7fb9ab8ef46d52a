----------------------------- MODULE MCRiskControl -----------------------------
\* Bounds: a registered user with an old row and one client, which registers
\* again, takes a test that replaces the row and compares; a new user with two
\* clients, one that registers, and tests of both that overlap; and two callers
\* without a userid: one sends none, asks for itself and takes a test; one sends
\* an empty one and compares.  Any four of the nine requests are sent.
\* (lastTestInfo is rankDif without its last statement.)
EXTENDS RiskControl

CONSTANTS a1, d1, i1, o1, i2, a2, b2, a3, e3, d4, u1, u2, null, empty

MCRequests == {a1, d1, i1, i2, a2, b2, a3, e3, d4}
MCOldTests == {o1}
MCUsers == {u1, u2, null, empty}
MCRegistered == {u1}
MCUserOf == [t \in Tests |->
                CASE t \in {i2, a2, b2} -> u2
                  [] t \in {a3, e3} -> null
                  [] t = d4 -> empty
                  [] OTHER -> u1]
MCOp == [r \in Requests |->
                CASE r \in {i1, i2} -> "addInvestorInfo"
                  [] r = e3 -> "isExistInvestor"
                  [] r \in {d1, d4} -> "rankDif"
                  [] OTHER -> "addRiskTest"]
MCClientOf == [r \in Requests |->
                CASE r \in {a1, d1, i1} -> a1
                  [] r \in {i2, a2} -> a2
                  [] r \in {a3, e3} -> a3
                  [] OTHER -> r]
===============================================================================
