------------------------------ MODULE RiskControl ------------------------------
(***************************************************************************)
(* The risk control service of the internal API (RiskConServiceImpl): an   *)
(* investor registers, takes a risk test, and is compared with a product.  *)
(* The latest test of a user is kept twice, as the row of RC_UserTestRecord*)
(* with flag 1 and under a Redis key.  The service has no transaction:     *)
(* every SQL statement and every Redis command is a step that others see.  *)
(*                                                                         *)
(* A test is named by the request that takes it: its answers, score and    *)
(* rank are computed from the request and never change.                    *)
(***************************************************************************)
EXTENDS Naturals, FiniteSets

CONSTANTS Requests,
          OldTests,       \* rows with flag 1 from before, at most one of a user
          Users,
          NullId,         \* the userid of a caller that sends none, and the
          EmptyId,        \* empty one: the service tests neither
          UserOf,         \* the userid of each request and of each old row
          Op,             \* the operation each request calls
          ClientOf,       \* a client sends a request when the last is answered
          Registered,     \* users with a row of RC_InvestorInfo to begin with
          MaxSent,        \* bound: requests sent in a behaviour
          None            \* null

Tests == Requests \cup OldTests

\* What the service holds as a test's record: the row of selectByCondition,
\* which has no rank; all that saveTest knows; or what getUserRecord makes of a
\* row, a rank and its name and nothing else (no userid, score, answers, date).
Records == [test : Tests, has : {"row", "all", "rank"}]

Record(t, has) == [test |-> t, has |-> has]

Unnamed == {NullId, EmptyId}

Operations == {"addInvestorInfo", "isExistInvestor", "addRiskTest", "lastTestInfo", "rankDif"}

ASSUME UserOfAssumption == UserOf \in [Tests -> Users]
ASSUME OpAssumption == Op \in [Requests -> Operations]
ASSUME RegisteredAssumption == Registered \subseteq Users
ASSUME OldTestsAssumption ==
    /\ OldTests \cap Requests = {}
    /\ \A s, t \in OldTests : UserOf[s] = UserOf[t] => s = t
ASSUME MaxSentAssumption == MaxSent \in Nat
ASSUME NoneAssumption == None \notin Records

VARIABLES rankColumn,  \* type of risk_rank_value; no script here declares it
          investors,   \* requests that inserted a row of RC_InvestorInfo
          stored,      \* rows of RC_UserTestRecord
          valid,       \* those with flag 1
          cache,       \* Redis RC:USER_LASTTEST_INFO:<userid>
          found,       \* records.get(0), then `record`, of each request
          pc           \* next statement of each request, or its answer

vars == <<rankColumn, investors, stored, valid, cache, found, pc>>
tables == <<rankColumn, investors, stored, valid>>

\* An exception is the same to the client wherever it was thrown; the answer
\* tells apart the two places where it leaves a test half saved.
Answers == {"success", "refused", "no test", "cast error",
            "error", "insert failed", "setCache failed"}

\* The statements of each operation, the first one first.
First == [addInvestorInfo |-> "selectInvestor", isExistInvestor |-> "isExist",
          addRiskTest |-> "isRegist", lastTestInfo |-> "getCache", rankDif |-> "getCache"]

Working == {"selectInvestor", "insertInvestor", "isExist", "isRegist", "score",
            "invalidate", "insert", "setCache", "getDate",
            "getCache", "selectRecord", "rebuild", "productRank"}

-------------------------------------------------------------------------------
Init == /\ rankColumn \in {"INT", "VARCHAR"}
        /\ investors = {}
        /\ stored = OldTests
        /\ valid = OldTests
        /\ cache = [u \in Users |-> None]
        /\ found = [r \in Requests |-> None]
        /\ pc = [r \in Requests |-> "unsent"]

Goto(r, label) == pc' = [pc EXCEPT ![r] = label]

Send(r) ==
    /\ pc[r] = "unsent"
    /\ Cardinality({q \in Requests : pc[q] # "unsent"}) < MaxSent
    /\ \A q \in Requests : ClientOf[q] = ClientOf[r] => pc[q] \notin Working
    /\ Goto(r, First[Op[r]])
    /\ UNCHANGED <<tables, cache, found>>

\* The userids in the table; a null userid is no condition.
InvestorIds == Registered \cup {UserOf[q] : q \in investors}

HasInvestor(u) == u \in InvestorIds \/ (u = NullId /\ InvestorIds # {})

\* addInvestorInfo, the test for a row of the user.
SelectInvestor(r) ==
    /\ pc[r] = "selectInvestor"
    /\ Goto(r, IF HasInvestor(UserOf[r]) THEN "refused" ELSE "insertInvestor")
    /\ UNCHANGED <<tables, cache, found>>

\* saveInvestor
InsertInvestor(r) ==
    /\ pc[r] = "insertInvestor"
    /\ investors' = investors \cup {r}
    /\ Goto(r, "success")
    /\ UNCHANGED <<rankColumn, stored, valid, cache, found>>

IsExistInvestor(r) ==
    /\ pc[r] = "isExist"
    /\ Goto(r, IF HasInvestor(UserOf[r]) THEN "success" ELSE "refused")
    /\ UNCHANGED <<tables, cache, found>>

IsRegist(r) ==
    /\ pc[r] = "isRegist"
    /\ Goto(r, IF HasInvestor(UserOf[r]) THEN "score" ELSE "refused")
    /\ UNCHANGED <<tables, cache, found>>

\* addRiskTest up to the row of saveTest.  An unknown version, option or score
\* throws (Fail), and so does the cast of the rank unless it is an Integer.
ComputeScore(r) ==
    /\ pc[r] = "score"
    /\ Goto(r, IF rankColumn = "INT" THEN "invalidate" ELSE "cast error")
    /\ UNCHANGED <<tables, cache, found>>

\* Rows with the userid u.
TestsOf(u) == {t \in Tests : UserOf[t] = u}

\* Rows that selectByCondition does not exclude: a null or an empty userid is no
\* condition, and rows of everybody are found.
Matching(u) == IF u \in Unnamed THEN Tests ELSE TestsOf(u)

\* Mutant of Invalidate: the update of flag is left out.
InvalidateNothing(r) ==
    /\ pc[r] = "invalidate"
    /\ Goto(r, "insert")
    /\ UNCHANGED <<tables, cache, found>>

\* Mutant of Invalidate: without the userid when there is none, like the select.
InvalidateMatching(r) ==
    /\ pc[r] = "invalidate"
    /\ valid' = valid \ Matching(UserOf[r])
    /\ Goto(r, "insert")
    /\ UNCHANGED <<rankColumn, investors, stored, cache, found>>

\* updateLastTestInvalidate; no userid equals null.
Invalidate(r) ==
    /\ pc[r] = "invalidate"
    /\ valid' = IF UserOf[r] = NullId THEN valid ELSE valid \ TestsOf(UserOf[r])
    /\ Goto(r, "insert")
    /\ UNCHANGED <<rankColumn, investors, stored, cache, found>>

\* Mutant of Insert: flag 0.
InsertInvalid(r) ==
    /\ pc[r] = "insert"
    /\ stored' = stored \cup {r}
    /\ Goto(r, "setCache")
    /\ UNCHANGED <<rankColumn, investors, valid, cache, found>>

\* Mutant of Insert: an insert that had no effect goes unnoticed.
InsertUnchecked(r) ==
    /\ pc[r] = "insert"
    /\ \E rows \in {{r}, {}} : /\ stored' = stored \cup rows
                              /\ valid' = valid \cup rows
    /\ Goto(r, "setCache")
    /\ UNCHANGED <<rankColumn, investors, cache, found>>

\* insert, with flag 1
Insert(r) ==
    /\ pc[r] = "insert"
    /\ stored' = stored \cup {r}
    /\ valid' = valid \cup {r}
    /\ Goto(r, "setCache")
    /\ UNCHANGED <<rankColumn, investors, cache, found>>

\* Mutant of SetCache: the userid for the record.
SetCacheToUser(r) ==
    /\ pc[r] = "setCache"
    /\ cache' = [cache EXCEPT ![UserOf[r]] = UserOf[r]]
    /\ Goto(r, "getDate")
    /\ UNCHANGED <<tables, found>>

SetCache(r) ==
    /\ pc[r] = "setCache"
    /\ cache' = [cache EXCEPT ![UserOf[r]] = Record(r, "all")]
    /\ Goto(r, "getDate")
    /\ UNCHANGED <<tables, found>>

\* getLastTestDateFromRedis: the record the date is taken from, null if the
\* key has gone.  (A record with the rank only has no date either.)
GetDate(r) ==
    /\ pc[r] = "getDate"
    /\ found' = [found EXCEPT ![r] = cache[UserOf[r]]]
    /\ Goto(r, "success")
    /\ UNCHANGED <<tables, cache>>

\* What lastTestInfo and rankDif do with the record they got.
Got(r, rec) == /\ found' = [found EXCEPT ![r] = rec]
               /\ Goto(r, IF Op[r] = "rankDif" THEN "productRank" ELSE "success")

\* getUserRecord: GET
GetCache(r) ==
    /\ pc[r] = "getCache"
    /\ IF cache[UserOf[r]] # None
       THEN Got(r, cache[UserOf[r]])
       ELSE Goto(r, "selectRecord") /\ UNCHANGED found
    /\ UNCHANGED <<tables, cache>>

\* getUserRecord: selectByCondition, in no particular order.
SelectRecord(r) ==
    /\ pc[r] = "selectRecord"
    /\ \E t \in valid \cap Matching(UserOf[r]) : found' = [found EXCEPT ![r] = Record(t, "row")]
    /\ Goto(r, "rebuild")
    /\ UNCHANGED <<tables, cache>>

SelectNoRecord(r) ==
    /\ pc[r] = "selectRecord"
    /\ valid \cap Matching(UserOf[r]) = {}
    /\ Goto(r, "no test")
    /\ UNCHANGED <<tables, cache, found>>

\* Mutant of Rebuild: the row itself goes to Redis, without its rank.
RebuildRow(r) ==
    /\ pc[r] = "rebuild"
    /\ rankColumn = "VARCHAR"
    /\ cache' = [cache EXCEPT ![UserOf[r]] = found[r]]
    /\ Got(r, found[r])
    /\ UNCHANGED tables

\* getUserRecord: the score of the row is ranked again, and a new record that
\* has the rank only goes to Redis; the cast throws unless it is a String.
Rebuild(r) ==
    /\ pc[r] = "rebuild"
    /\ rankColumn = "VARCHAR"
    /\ cache' = [cache EXCEPT ![UserOf[r]] = Record(found[r].test, "rank")]
    /\ Got(r, Record(found[r].test, "rank"))
    /\ UNCHANGED tables

RebuildThrows(r) ==
    /\ pc[r] = "rebuild"
    /\ rankColumn = "INT"
    /\ Goto(r, "cast error")
    /\ UNCHANGED <<tables, cache, found>>

\* rankDif: the product type may have no rank.
ProductRank(r) ==
    /\ pc[r] = "productRank"
    /\ \E answer \in {"success", "refused"} : Goto(r, answer)
    /\ UNCHANGED <<tables, cache, found>>

\* A statement or a computation throws; nothing is undone.
Fail(r) ==
    /\ pc[r] \in Working
    /\ Goto(r, CASE pc[r] = "insert" -> "insert failed"
                 [] pc[r] = "setCache" -> "setCache failed"
                 [] OTHER -> "error")
    /\ UNCHANGED <<tables, cache, found>>

\* Redis evicts the key or restarts without it.
LoseKey(u) ==
    /\ cache[u] # None
    /\ cache' = [cache EXCEPT ![u] = None]
    /\ UNCHANGED <<tables, found, pc>>

-------------------------------------------------------------------------------
Step(r) == \/ SelectInvestor(r) \/ InsertInvestor(r) \/ IsExistInvestor(r)
           \/ IsRegist(r) \/ ComputeScore(r) \/ Invalidate(r) \/ Insert(r)
           \/ SetCache(r) \/ GetDate(r)
           \/ GetCache(r) \/ SelectRecord(r) \/ SelectNoRecord(r)
           \/ Rebuild(r) \/ RebuildThrows(r) \/ ProductRank(r)

Next == \/ \E r \in Requests : Send(r) \/ Step(r) \/ Fail(r)
        \/ \E u \in Users : LoseKey(u)

Spec == Init /\ [][Next]_vars

-------------------------------------------------------------------------------
TypeOK == /\ rankColumn \in {"INT", "VARCHAR"}
          /\ investors \subseteq Requests
          /\ stored \subseteq Tests
          /\ valid \subseteq stored
          /\ cache \in [Users -> Records \cup {None}]
          /\ found \in [Requests -> Records \cup {None}]
          /\ pc \in [Requests -> Working \cup Answers \cup {"unsent"}]

StoredOf(u) == stored \cap TestsOf(u)

ValidOf(u) == valid \cap TestsOf(u)

TestsAt(u, labels) ==
    {r \in Requests : UserOf[r] = u /\ Op[r] = "addRiskTest" /\ pc[r] \in labels}

\* A record shown to user u is about a row that was inserted, and of that user
\* unless u is null or empty; what saveTest knows is shown to its user only.
Shown(u, rec) == /\ rec.test \in stored \cap Matching(u)
                 /\ rec.has = "all" => rec.test \in TestsOf(u)

\* What Redis holds for a user, and what a request was given as the user's
\* record, is about a test that was really inserted, whatever fails and
\* whatever overlaps: the whole of it, or the rank alone when it was made from
\* the row.  Never the row without a rank, which rankDif could not compare.
\* The test is the user's own, except for a null or an empty userid, which is
\* shown the rank of anybody.
RecordsAreStored ==
    /\ \A u \in Users : cache[u] # None => Shown(u, cache[u]) /\ cache[u].has # "row"
    /\ \A r \in Requests : found[r] # None => Shown(UserOf[r], found[r])
    /\ \A r \in Requests : pc[r] = "productRank" => found[r] # None /\ found[r].has # "row"

\* A user who ever had a test is without a valid one only while a new test of
\* the user is about to be inserted, or because one failed just there (the
\* update and the insert of saveTest are not one transaction).
GapOnlyWhileReplacing ==
    \A u \in Users : StoredOf(u) # {} /\ ValidOf(u) = {} =>
        TestsAt(u, {"insert", "insert failed"}) # {}

\* No two requests of the user can overlap.
OneClient(u) ==
    \A q, r \in Requests : UserOf[q] = u /\ UserOf[r] = u => ClientOf[q] = ClientOf[r]

\* Where the table has been changed and the key has not, or never will be.
HalfSaved == {"insert", "setCache", "insert failed", "setCache failed"}

\* The key of the latest test is about the latest test, unless one is being
\* saved or failed half way.
CacheIsLatest(u) ==
    cache[u] # None /\ TestsAt(u, HalfSaved) = {} => ValidOf(u) = {cache[u].test}

\* At most one row of the investor, those from before included.
OneInvestor(u) ==
    /\ \A q, r \in investors : UserOf[q] = u /\ UserOf[r] = u => q = r
    /\ u \in Registered => \A q \in investors : UserOf[q] # u

\* Requests of one user that do not overlap leave one investor, at most one
\* valid test, and under the key that test or its rank, whatever other users
\* do, those without a userid included.  (Requests of the user that do overlap
\* may leave two rows of each kind, and any of the tests under the key.)
OneClientIsConsistent ==
    \A u \in Users \ Unnamed : OneClient(u) =>
        /\ OneInvestor(u)
        /\ \A s, t \in ValidOf(u) : s = t
        /\ CacheIsLatest(u)

\* What line 316 says: a record that Redis does not have is taken from the
\* table.
TableIsReadInstead ==
    \A r \in Requests : Op[r] \in {"lastTestInfo", "rankDif"} => pc[r] # "cast error"
===============================================================================
