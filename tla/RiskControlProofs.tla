--------------------------- MODULE RiskControlProofs ---------------------------
(***************************************************************************)
(* Table and key of the risk tests, for every number of users, clients and *)
(* requests and both types of the rank column.                             *)
(***************************************************************************)
EXTENDS RiskControl, TLAPS

\* Once a test is past its insert, its row is there.
Inserted == \A r \in Requests : pc[r] \in {"setCache", "getDate"} => r \in stored

\* Inserting requests are tests, and so are those past the insert.
Saving == \A r \in Requests :
    pc[r] \in {"isRegist", "score", "invalidate", "insert", "setCache", "getDate"} =>
        Op[r] = "addRiskTest"

\* A record on its way back to Redis is in hand.
Rebuilding == \A r \in Requests : pc[r] = "rebuild" => found[r] # None

IInv == TypeOK /\ Inserted /\ Saving /\ Rebuilding /\ RecordsAreStored /\ GapOnlyWhileReplacing

-------------------------------------------------------------------------------
\* What the service holds is a record, and null is none.
LEMMA RecordIs ==
    ASSUME NEW t \in Tests, NEW has \in {"row", "all", "rank"}
    PROVE  /\ Record(t, has) \in Records /\ Record(t, has) # None
           /\ Record(t, has).test = t /\ Record(t, has).has = has
  <1>1. Record(t, has) \in Records
    BY DEF Record, Records
  <1>. QED BY <1>1, NoneAssumption DEF Record

LEMMA InitIInv == Init => IInv
  <1>. SUFFICES ASSUME Init PROVE IInv
    OBVIOUS
  <1>1. TypeOK
    BY DEF Init, TypeOK, Tests
  <1>2. Inserted /\ Saving /\ Rebuilding
    BY DEF Init, Inserted, Saving, Rebuilding
  <1>3. RecordsAreStored /\ GapOnlyWhileReplacing
    BY DEF Init, RecordsAreStored, GapOnlyWhileReplacing, StoredOf, ValidOf
  <1>. QED BY <1>1, <1>2, <1>3 DEF IInv

\* Where an operation begins.
LEMMA FirstStatements ==
    ASSUME NEW r \in Requests
    PROVE  /\ First[Op[r]] \in {"selectInvestor", "isExist", "isRegist", "getCache"}
           /\ First[Op[r]] = "isRegist" => Op[r] = "addRiskTest"
  <1>1. Op[r] \in Operations
    BY OpAssumption
  <1>. QED BY <1>1 DEF First, Operations

\* Every statement keeps the types.
LEMMA TypeKept ==
    ASSUME TypeOK, Rebuilding, NEW r \in Requests, Send(r) \/ Step(r) \/ Fail(r)
    PROVE  TypeOK'
  <1>. USE DEF TypeOK, Goto, tables
  <1>1. \A l \in Working \cup Answers \cup {"unsent"} :
           [pc EXCEPT ![r] = l] \in [Requests -> Working \cup Answers \cup {"unsent"}]
    OBVIOUS
  <1>2. UserOf[r] \in Users /\ r \in Tests
    BY UserOfAssumption DEF Tests
  <1>3. CASE Send(r)
    <2>1. First[Op[r]] \in Working
      BY FirstStatements DEF Working
    <2>. QED BY <1>1, <1>3, <2>1 DEF Send
  <1>4. CASE SelectInvestor(r)
    BY <1>1, <1>4 DEF SelectInvestor, Working, Answers
  <1>5. CASE InsertInvestor(r)
    BY <1>1, <1>5 DEF InsertInvestor, Answers
  <1>6. CASE IsExistInvestor(r)
    BY <1>1, <1>6 DEF IsExistInvestor, Answers
  <1>7. CASE IsRegist(r)
    BY <1>1, <1>7 DEF IsRegist, Working, Answers
  <1>8. CASE ComputeScore(r)
    BY <1>1, <1>8 DEF ComputeScore, Working, Answers
  <1>9. CASE Invalidate(r)
    BY <1>1, <1>9 DEF Invalidate, Working
  <1>10. CASE Insert(r)
    BY <1>1, <1>2, <1>10 DEF Insert, Working
  <1>11. CASE SetCache(r)
    BY <1>1, <1>2, <1>11, RecordIs DEF SetCache, Working
  <1>12. CASE GetDate(r)
    BY <1>1, <1>2, <1>12 DEF GetDate, Answers
  <1>13. CASE GetCache(r)
    BY <1>1, <1>2, <1>13 DEF GetCache, Got, Working, Answers
  <1>14. CASE SelectRecord(r)
    <2>1. PICK t \in Tests : found' = [found EXCEPT ![r] = Record(t, "row")]
      BY <1>14 DEF SelectRecord, Matching, TestsOf
    <2>2. Record(t, "row") \in Records
      BY RecordIs
    <2>. QED BY <1>1, <1>14, <2>1, <2>2 DEF SelectRecord, Working
  <1>15. CASE SelectNoRecord(r)
    BY <1>1, <1>15 DEF SelectNoRecord, Answers
  <1>16. CASE Rebuild(r)
    <2>1. found[r] \in Records
      BY <1>16 DEF Rebuild, Rebuilding
    <2>2. Record(found[r].test, "rank") \in Records
      BY <2>1, RecordIs DEF Records
    <2>. QED BY <1>1, <1>2, <1>16, <2>2 DEF Rebuild, Got, Working, Answers
  <1>17. CASE RebuildThrows(r)
    BY <1>1, <1>17 DEF RebuildThrows, Answers
  <1>18. CASE ProductRank(r)
    BY <1>1, <1>18 DEF ProductRank, Answers
  <1>19. CASE Fail(r)
    BY <1>1, <1>19 DEF Fail, Answers
  <1>. QED BY <1>3, <1>4, <1>5, <1>6, <1>7, <1>8, <1>9, <1>10, <1>11, <1>12, <1>13, <1>14,
           <1>15, <1>16, <1>17, <1>18, <1>19 DEF Step

\* Where a request stands tells whether it is a test and has its row.
LEMMA ControlKept ==
    ASSUME IInv, NEW r \in Requests, Send(r) \/ Step(r) \/ Fail(r)
    PROVE  Inserted' /\ Saving' /\ Rebuilding'
  <1>. USE DEF IInv, TypeOK, Goto, tables
  <1>1. CASE Send(r)
    <2>1. pc' = [pc EXCEPT ![r] = First[Op[r]]] /\ UNCHANGED <<stored, found>>
      BY <1>1 DEF Send
    <2>2. /\ First[Op[r]] \notin {"score", "invalidate", "insert", "setCache", "getDate", "rebuild"}
          /\ First[Op[r]] = "isRegist" => Op[r] = "addRiskTest"
      BY FirstStatements
    <2>. QED BY <2>1, <2>2 DEF Inserted, Saving, Rebuilding
  <1>2. CASE SelectRecord(r)
    <2>1. PICK t \in Tests : found' = [found EXCEPT ![r] = Record(t, "row")]
      BY <1>2 DEF SelectRecord, Matching, TestsOf
    <2>2. Record(t, "row") # None
      BY RecordIs
    <2>. QED BY <1>2, <2>1, <2>2 DEF SelectRecord, Inserted, Saving, Rebuilding
  <1>3. CASE SelectInvestor(r) \/ InsertInvestor(r) \/ IsExistInvestor(r) \/ IsRegist(r)
             \/ ComputeScore(r) \/ Invalidate(r) \/ Insert(r) \/ SetCache(r)
    BY <1>3 DEF SelectInvestor, InsertInvestor, IsExistInvestor, IsRegist, ComputeScore,
       Invalidate, Insert, SetCache, Inserted, Saving, Rebuilding
  <1>4. CASE GetDate(r) \/ GetCache(r) \/ Rebuild(r)
    BY <1>4 DEF GetDate, GetCache, Rebuild, Got, Inserted, Saving, Rebuilding
  <1>5. CASE SelectNoRecord(r) \/ RebuildThrows(r) \/ ProductRank(r) \/ Fail(r)
    BY <1>5 DEF SelectNoRecord, RebuildThrows, ProductRank, Fail, Inserted, Saving, Rebuilding
  <1>. QED BY <1>1, <1>2, <1>3, <1>4, <1>5 DEF Step

\* A record is read from the key or from a row with flag 1, and the key is
\* written from a row just inserted or just read.
LEMMA RecordsKept ==
    ASSUME IInv, NEW r \in Requests, Send(r) \/ Step(r) \/ Fail(r)
    PROVE  RecordsAreStored'
  <1>. USE DEF IInv, TypeOK, Goto, tables
  <1>1. UserOf[r] \in Users /\ r \in Tests /\ r \in TestsOf(UserOf[r]) /\ r \in Matching(UserOf[r])
    BY UserOfAssumption DEF Tests, TestsOf, Matching
  <1>2. CASE Insert(r)
    <2>1. /\ stored \subseteq stored' /\ UNCHANGED <<cache, found>>
          /\ \A q \in Requests : pc'[q] = "productRank" => pc[q] = "productRank"
      BY <1>2 DEF Insert
    <2>. QED BY <2>1 DEF RecordsAreStored, Shown
  <1>3. CASE SetCache(r)
    <2>1. /\ UNCHANGED <<stored, found>> /\ r \in stored
          /\ cache' = [cache EXCEPT ![UserOf[r]] = Record(r, "all")]
          /\ \A q \in Requests : pc'[q] = "productRank" => pc[q] = "productRank"
      BY <1>3 DEF SetCache, Inserted
    <2>2. Record(r, "all").test = r /\ Record(r, "all").has = "all"
      BY <1>1, RecordIs
    <2>3. Shown(UserOf[r], Record(r, "all"))
      BY <1>1, <2>1, <2>2 DEF Shown
    <2>. QED BY <2>1, <2>2, <2>3 DEF RecordsAreStored, Shown
  <1>4. CASE GetDate(r) \/ GetCache(r)
    <2>1. /\ UNCHANGED <<stored, cache>>
          /\ found' \in {found, [found EXCEPT ![r] = cache[UserOf[r]]]}
          /\ \A q \in Requests \ {r} : pc'[q] = pc[q]
          /\ pc'[r] = "productRank" => cache[UserOf[r]] # None /\ found'[r] = cache[UserOf[r]]
      BY <1>4 DEF GetDate, GetCache, Got
    <2>. QED BY <1>1, <2>1 DEF RecordsAreStored, Shown
  <1>5. CASE SelectRecord(r)
    <2>1. PICK t \in valid \cap Matching(UserOf[r]) : found' = [found EXCEPT ![r] = Record(t, "row")]
      BY <1>5 DEF SelectRecord
    <2>2. /\ UNCHANGED <<stored, cache>>
          /\ \A q \in Requests \ {r} : pc'[q] = pc[q] /\ found'[q] = found[q]
          /\ pc'[r] = "rebuild" /\ found'[r] = Record(t, "row")
      BY <1>5, <2>1 DEF SelectRecord
    <2>3. Record(t, "row").test = t /\ Record(t, "row").has = "row"
      BY RecordIs
    <2>4. Shown(UserOf[r], Record(t, "row"))
      BY <2>3 DEF Shown
    <2>. QED BY <2>2, <2>4 DEF RecordsAreStored, Shown
  <1>6. CASE Rebuild(r)
    <2>. DEFINE rec == Record(found[r].test, "rank")
    <2>1. found[r] \in Records /\ Shown(UserOf[r], found[r])
      BY <1>6 DEF Rebuild, Rebuilding, RecordsAreStored
    <2>2. rec # None /\ rec.test = found[r].test /\ rec.has = "rank"
      BY <2>1, RecordIs DEF Records
    <2>3. Shown(UserOf[r], rec)
      BY <2>1, <2>2 DEF Shown
    <2>4. /\ UNCHANGED stored /\ cache' = [cache EXCEPT ![UserOf[r]] = rec]
          /\ found' = [found EXCEPT ![r] = rec] /\ \A q \in Requests \ {r} : pc'[q] = pc[q]
      BY <1>6 DEF Rebuild, Got
    <2>. HIDE DEF rec
    <2>. QED BY <1>1, <2>2, <2>3, <2>4 DEF RecordsAreStored, Shown
  <1>7. CASE Send(r) \/ SelectInvestor(r) \/ InsertInvestor(r) \/ IsExistInvestor(r)
             \/ IsRegist(r) \/ ComputeScore(r) \/ Invalidate(r) \/ SelectNoRecord(r)
             \/ RebuildThrows(r) \/ ProductRank(r) \/ Fail(r)
    <2>1. UNCHANGED <<stored, cache, found>>
      BY <1>7 DEF Send, SelectInvestor, InsertInvestor, IsExistInvestor, IsRegist, ComputeScore,
         Invalidate, SelectNoRecord, RebuildThrows, ProductRank, Fail
    <2>2. \A q \in Requests : pc'[q] = "productRank" => pc[q] = "productRank"
      BY <1>7, FirstStatements DEF Send, SelectInvestor, InsertInvestor, IsExistInvestor, IsRegist,
         ComputeScore, Invalidate, SelectNoRecord, RebuildThrows, ProductRank, Fail
    <2>. QED BY <2>1, <2>2 DEF RecordsAreStored, Shown
  <1>. QED BY <1>2, <1>3, <1>4, <1>5, <1>6, <1>7 DEF Step

\* The gap a test opens at its update stays its own until it has inserted.
LEMMA GapKept ==
    ASSUME IInv, NEW r \in Requests, Send(r) \/ Step(r) \/ Fail(r)
    PROVE  GapOnlyWhileReplacing'
  <1>. USE DEF IInv, TypeOK, Goto, tables
  <1>1. SUFFICES ASSUME NEW u \in Users, StoredOf(u)' # {}, ValidOf(u)' = {}
                 PROVE  \E q \in Requests : UserOf[q] = u /\ Op[q] = "addRiskTest"
                                              /\ pc'[q] \in {"insert", "insert failed"}
    BY DEF GapOnlyWhileReplacing, TestsAt
  <1>2. CASE Invalidate(r)
    <2>1. CASE UserOf[r] = u
      BY <1>2, <2>1 DEF Invalidate, Saving
    <2>2. CASE UserOf[r] # u
      <3>1. StoredOf(u)' = StoredOf(u) /\ ValidOf(u)' = ValidOf(u)
        BY <1>2, <2>2 DEF Invalidate, StoredOf, ValidOf, TestsOf
      <3>2. PICK q \in Requests : UserOf[q] = u /\ Op[q] = "addRiskTest" /\ pc[q] \in {"insert", "insert failed"}
        BY <1>1, <3>1 DEF GapOnlyWhileReplacing, TestsAt
      <3>. QED BY <1>2, <2>2, <3>2 DEF Invalidate
    <2>. QED BY <2>1, <2>2
  <1>3. CASE Insert(r)
    <2>1. UserOf[r] # u
      BY <1>1, <1>3 DEF Insert, ValidOf, TestsOf, Tests
    <2>2. StoredOf(u)' = StoredOf(u) /\ ValidOf(u)' = ValidOf(u)
      BY <1>3, <2>1 DEF Insert, StoredOf, ValidOf, TestsOf
    <2>3. PICK q \in Requests : UserOf[q] = u /\ Op[q] = "addRiskTest" /\ pc[q] \in {"insert", "insert failed"}
      BY <1>1, <2>2 DEF GapOnlyWhileReplacing, TestsAt
    <2>. QED BY <1>3, <2>1, <2>3 DEF Insert
  <1>4. CASE ~Invalidate(r) /\ ~Insert(r)
    <2>1. /\ UNCHANGED <<stored, valid>>
          /\ \A q \in Requests : pc[q] \in {"insert", "insert failed"} => pc'[q] \in {"insert", "insert failed"}
      BY <1>4, OpAssumption DEF Step, Send, SelectInvestor, InsertInvestor, IsExistInvestor, IsRegist,
         ComputeScore, SetCache, GetDate, GetCache, Got, SelectRecord, SelectNoRecord,
         Rebuild, RebuildThrows, ProductRank, Fail, Working
    <2>2. PICK q \in Requests : UserOf[q] = u /\ Op[q] = "addRiskTest" /\ pc[q] \in {"insert", "insert failed"}
      BY <1>1, <2>1 DEF GapOnlyWhileReplacing, TestsAt, StoredOf, ValidOf
    <2>. QED BY <2>1, <2>2
  <1>. QED BY <1>2, <1>3, <1>4

\* Redis losing a key takes nothing but the key.
LEMMA LoseKeyKept ==
    ASSUME IInv, NEW u \in Users, LoseKey(u)
    PROVE  IInv'
  <1>. USE DEF IInv, LoseKey, tables
  <1>1. TypeOK'
    BY DEF TypeOK
  <1>2. Inserted' /\ Saving' /\ Rebuilding'
    BY DEF Inserted, Saving, Rebuilding
  <1>3. RecordsAreStored'
    BY DEF RecordsAreStored, Shown, TypeOK
  <1>4. GapOnlyWhileReplacing'
    BY DEF GapOnlyWhileReplacing, StoredOf, ValidOf, TestsAt
  <1>. QED BY <1>1, <1>2, <1>3, <1>4

\* The inductive invariant.
THEOREM InvariantHolds == Spec => []IInv
  <1>1. IInv /\ [Next]_vars => IInv'
    <2>. SUFFICES ASSUME IInv, [Next]_vars PROVE IInv'
      OBVIOUS
    <2>1. ASSUME NEW r \in Requests, Send(r) \/ Step(r) \/ Fail(r) PROVE IInv'
      BY <2>1, TypeKept, ControlKept, RecordsKept, GapKept DEF IInv
    <2>2. CASE UNCHANGED vars
      BY <2>2 DEF vars, IInv, TypeOK, Inserted, Saving, Rebuilding, RecordsAreStored,
         Shown, GapOnlyWhileReplacing, StoredOf, ValidOf, TestsAt
    <2>. QED BY <2>1, <2>2, LoseKeyKept DEF Next
  <1>. QED BY <1>1, InitIInv, PTL DEF Spec

\* The variables keep their types.
THEOREM TypeCorrect == Spec => []TypeOK
  <1>1. IInv => TypeOK
    BY DEF IInv
  <1>. QED BY <1>1, InvariantHolds, PTL

\* Redis and the answers only ever show tests that were inserted, the user's own
\* unless there is no userid, and never a record without a rank to be compared.
THEOREM RecordsAreStoredHolds == Spec => []RecordsAreStored
  <1>1. IInv => RecordsAreStored
    BY DEF IInv
  <1>. QED BY <1>1, InvariantHolds, PTL

\* A tested user is without a valid test only while another is about to be
\* inserted, or after its insert failed.
THEOREM GapOnlyWhileReplacingHolds == Spec => []GapOnlyWhileReplacing
  <1>1. IInv => GapOnlyWhileReplacing
    BY DEF IInv
  <1>. QED BY <1>1, InvariantHolds, PTL
-------------------------------------------------------------------------------
(***************************************************************************)
(* A user with one client: the requests of the user run one after another. *)
(***************************************************************************)
Alone == \A q, r \in Requests :
    ClientOf[q] = ClientOf[r] /\ pc[q] \in Working /\ pc[r] \in Working => q = r

\* What a statement of the user may rely on, and what the user is left with.
InTurn(u) ==
    /\ \A r \in Requests : UserOf[r] = u =>
         /\ pc[r] = "insertInvestor" => u \notin InvestorIds
         /\ pc[r] = "insert" => ValidOf(u) = {}
         /\ pc[r] = "setCache" => ValidOf(u) = {r}
         /\ pc[r] = "rebuild" => found[r].test \in ValidOf(u)
    /\ OneInvestor(u)
    /\ \A s, t \in ValidOf(u) : s = t
    /\ CacheIsLatest(u)

TurnInv == IInv /\ Alone /\ \A u \in Users \ Unnamed : OneClient(u) => InTurn(u)

LEMMA InitTurnInv == Init => TurnInv
  <1>. SUFFICES ASSUME Init PROVE TurnInv
    OBVIOUS
  <1>1. Alone
    BY DEF Init, Alone, Working
  <1>2. \A u \in Users : InTurn(u)
    <2>. SUFFICES ASSUME NEW u \in Users PROVE InTurn(u)
      OBVIOUS
    <2>1. OneInvestor(u) /\ CacheIsLatest(u)
      BY DEF Init, OneInvestor, CacheIsLatest
    <2>2. \A s, t \in ValidOf(u) : s = t
      BY OldTestsAssumption DEF Init, ValidOf, TestsOf
    <2>. QED BY <2>1, <2>2 DEF Init, InTurn
  <1>. QED BY <1>1, <1>2, InitIInv DEF TurnInv

\* Only a request at work moves, except when its client sends it.
LEMMA AloneKept ==
    ASSUME TypeOK, Alone, NEW r \in Requests, Send(r) \/ Step(r) \/ Fail(r)
    PROVE  Alone'
  <1>. USE DEF TypeOK, Goto
  <1>1. CASE Send(r)
    BY <1>1 DEF Send, Alone
  <1>2. CASE Step(r) \/ Fail(r)
    <2>1. pc[r] \in Working /\ \A q \in Requests \ {r} : pc'[q] = pc[q]
      BY <1>2 DEF Step, SelectInvestor, InsertInvestor, IsExistInvestor, IsRegist,
         ComputeScore, Invalidate, Insert, SetCache, GetDate, GetCache, Got, SelectRecord,
         SelectNoRecord, Rebuild, RebuildThrows, ProductRank, Fail, Working
    <2>. QED BY <2>1 DEF Alone
  <1>. QED BY <1>1, <1>2

\* Nothing a request of another user does is seen.
LEMMA OtherUserKept ==
    ASSUME TypeOK, NEW r \in Requests, Send(r) \/ Step(r) \/ Fail(r),
           NEW u \in Users, UserOf[r] # u, InTurn(u)
    PROVE  InTurn(u)'
  <1>. USE DEF TypeOK, Goto, tables
  <1>1. /\ \A q \in Requests \ {r} : pc'[q] = pc[q] /\ found'[q] = found[q]
        /\ cache'[u] = cache[u]
        /\ investors' \in {investors, investors \cup {r}}
        /\ valid' \in {valid, valid \cup {r}, valid \ TestsOf(UserOf[r])}
    BY UserOfAssumption DEF Send, Step, SelectInvestor, InsertInvestor, IsExistInvestor, IsRegist,
       ComputeScore, Invalidate, Insert, SetCache, GetDate, GetCache, Got, SelectRecord,
       SelectNoRecord, Rebuild, RebuildThrows, ProductRank, Fail, Tests
  <1>2. ValidOf(u)' = ValidOf(u)
    BY <1>1 DEF ValidOf, TestsOf
  <1>3. \A labels : TestsAt(u, labels)' = TestsAt(u, labels)
    BY <1>1 DEF TestsAt
  <1>4. OneInvestor(u)' /\ CacheIsLatest(u)'
    BY <1>1, <1>2, <1>3 DEF InTurn, OneInvestor, CacheIsLatest
  <1>5. u \notin InvestorIds => u \notin InvestorIds'
    BY <1>1 DEF InvestorIds
  <1>. QED BY <1>1, <1>2, <1>4, <1>5 DEF InTurn

\* A request of the user itself finds the others of the user at rest.
LEMMA OwnRequestKept ==
    ASSUME IInv, Alone, NEW r \in Requests, Send(r) \/ Step(r) \/ Fail(r),
           NEW u \in Users \ Unnamed, UserOf[r] = u, OneClient(u), InTurn(u)
    PROVE  InTurn(u)'
  <1>. USE DEF IInv, TypeOK, Goto, tables
  <1>1. \A q \in Requests \ {r} : UserOf[q] = u => pc'[q] = pc[q] /\ pc'[q] \notin Working
    <2>1. CASE Send(r)
      BY <2>1 DEF Send, OneClient
    <2>2. CASE Step(r) \/ Fail(r)
      <3>1. pc[r] \in Working /\ \A q \in Requests \ {r} : pc'[q] = pc[q]
        BY <2>2 DEF Step, SelectInvestor, InsertInvestor, IsExistInvestor, IsRegist,
           ComputeScore, Invalidate, Insert, SetCache, GetDate, GetCache, Got, SelectRecord,
           SelectNoRecord, Rebuild, RebuildThrows, ProductRank, Fail, Working
      <3>. QED BY <3>1 DEF Alone, OneClient
    <2>. QED BY <2>1, <2>2
  <1>2. \A q \in Requests : UserOf[q] = u /\ pc'[q] \in Working => q = r
    BY <1>1
  <1>3. {"insertInvestor", "insert", "setCache", "rebuild"} \subseteq Working
    BY DEF Working
  <1>4. CASE SelectInvestor(r)
    <2>1. UNCHANGED <<investors, valid, cache, found>> /\ pc[r] = "selectInvestor"
      BY <1>4 DEF SelectInvestor
    <2>2. pc'[r] = "insertInvestor" => u \notin InvestorIds
      BY <1>4 DEF SelectInvestor, HasInvestor
    <2>3. pc'[r] \in {"insertInvestor", "refused"}
      BY <1>4 DEF SelectInvestor
    <2>4. TestsAt(u, HalfSaved)' = TestsAt(u, HalfSaved)
      BY <1>1, <2>1, <2>3 DEF TestsAt, HalfSaved
    <2>. QED BY <1>2, <1>3, <2>1, <2>2, <2>3, <2>4
             DEF InTurn, OneInvestor, InvestorIds, CacheIsLatest, ValidOf
  <1>5. CASE InsertInvestor(r)
    <2>1. /\ UNCHANGED <<valid, cache, found>> /\ pc[r] = "insertInvestor" /\ pc'[r] = "success"
          /\ investors' = investors \cup {r}
      BY <1>5 DEF InsertInvestor
    <2>2. TestsAt(u, HalfSaved)' = TestsAt(u, HalfSaved)
      BY <1>1, <2>1 DEF TestsAt, HalfSaved
    <2>3. OneInvestor(u)'
      BY <2>1 DEF InTurn, OneInvestor, InvestorIds
    <2>. QED BY <1>2, <1>3, <2>1, <2>2, <2>3 DEF InTurn, CacheIsLatest, ValidOf
  <1>6. CASE Invalidate(r)
    <2>1. /\ UNCHANGED <<investors, cache, found>> /\ pc'[r] = "insert" /\ ValidOf(u)' = {}
      BY <1>6 DEF Invalidate, ValidOf, Unnamed
    <2>2. r \in TestsAt(u, HalfSaved)'
      BY <1>6, <2>1 DEF Invalidate, Saving, TestsAt, HalfSaved
    <2>. QED BY <1>2, <1>3, <2>1, <2>2 DEF InTurn, OneInvestor, CacheIsLatest
  <1>7. CASE Insert(r)
    <2>1. /\ UNCHANGED <<investors, cache, found>> /\ pc[r] = "insert" /\ pc'[r] = "setCache"
          /\ ValidOf(u)' = ValidOf(u) \cup {r}
      BY <1>7 DEF Insert, ValidOf, TestsOf, Tests
    <2>2. ValidOf(u)' = {r}
      BY <2>1 DEF InTurn
    <2>3. r \in TestsAt(u, HalfSaved)'
      BY <2>1 DEF Saving, TestsAt, HalfSaved
    <2>. QED BY <1>2, <1>3, <2>1, <2>2, <2>3 DEF InTurn, OneInvestor, CacheIsLatest
  <1>8. CASE SetCache(r)
    <2>1. /\ UNCHANGED <<investors, valid, found>> /\ pc[r] = "setCache" /\ pc'[r] = "getDate"
          /\ cache'[u] = Record(r, "all") /\ Record(r, "all").test = r
      BY <1>8, RecordIs DEF SetCache, Tests
    <2>2. ValidOf(u)' = {r}
      BY <2>1 DEF InTurn, ValidOf
    <2>. QED BY <1>2, <1>3, <2>1, <2>2 DEF InTurn, OneInvestor, CacheIsLatest
  <1>9. CASE SelectRecord(r)
    <2>1. /\ UNCHANGED <<investors, valid, cache>> /\ pc[r] = "selectRecord" /\ pc'[r] = "rebuild"
          /\ ValidOf(u)' = ValidOf(u) /\ found'[r].test \in ValidOf(u)
      <3>1. PICK t \in ValidOf(u) : found' = [found EXCEPT ![r] = Record(t, "row")]
        BY <1>9 DEF SelectRecord, ValidOf, Matching
      <3>2. Record(t, "row").test = t
        BY RecordIs DEF ValidOf, TestsOf
      <3>. QED BY <1>9, <3>1, <3>2 DEF SelectRecord, ValidOf
    <2>2. TestsAt(u, HalfSaved)' = TestsAt(u, HalfSaved)
      BY <1>1, <2>1 DEF TestsAt, HalfSaved
    <2>. QED BY <1>2, <1>3, <2>1, <2>2 DEF InTurn, OneInvestor, CacheIsLatest
  <1>10. CASE Rebuild(r)
    <2>1. /\ UNCHANGED <<investors, valid>> /\ pc[r] = "rebuild" /\ pc'[r] \in {"success", "productRank"}
          /\ ValidOf(u)' = ValidOf(u) /\ cache'[u] = Record(found[r].test, "rank")
      BY <1>10 DEF Rebuild, Got, ValidOf
    <2>2. cache'[u].test = found[r].test
      <3>1. found[r].test \in Tests
        BY <1>10 DEF Rebuild, Rebuilding, Records
      <3>. QED BY <2>1, <3>1, RecordIs
    <2>3. ValidOf(u)' = {cache'[u].test}
      BY <2>1, <2>2 DEF InTurn
    <2>. QED BY <1>2, <1>3, <2>1, <2>3 DEF InTurn, OneInvestor, CacheIsLatest
  <1>11. CASE Send(r) \/ IsExistInvestor(r) \/ IsRegist(r) \/ ComputeScore(r) \/ GetDate(r)
              \/ GetCache(r) \/ SelectNoRecord(r) \/ RebuildThrows(r) \/ ProductRank(r) \/ Fail(r)
    <2>1. UNCHANGED <<investors, valid, cache>> /\ ValidOf(u)' = ValidOf(u)
      BY <1>11 DEF Send, IsExistInvestor, IsRegist, ComputeScore, GetDate, GetCache, SelectNoRecord,
         RebuildThrows, ProductRank, Fail, ValidOf
    <2>2. pc'[r] \notin {"insertInvestor", "insert", "setCache", "rebuild"}
      <3>1. CASE Send(r)
        BY <3>1, FirstStatements DEF Send
      <3>2. CASE ~Send(r)
        BY <1>11, <3>2 DEF IsExistInvestor, IsRegist, ComputeScore, GetDate, GetCache, Got,
           SelectNoRecord, RebuildThrows, ProductRank, Fail
      <3>. QED BY <3>1, <3>2
    <2>3. pc[r] \in HalfSaved => pc'[r] \in HalfSaved
      BY <1>11 DEF HalfSaved, Send, IsExistInvestor, IsRegist, ComputeScore, GetDate, GetCache, Got,
         SelectNoRecord, RebuildThrows, ProductRank, Fail, Working
    <2>4. TestsAt(u, HalfSaved)' = {} => TestsAt(u, HalfSaved) = {}
      BY <1>1, <2>3 DEF TestsAt
    <2>. QED BY <1>2, <1>3, <2>1, <2>2, <2>4 DEF InTurn, OneInvestor, CacheIsLatest
  <1>. QED BY <1>4, <1>5, <1>6, <1>7, <1>8, <1>9, <1>10, <1>11 DEF Step

LEMMA TurnInvHolds == Spec => []TurnInv
  <1>1. TurnInv /\ IInv' /\ [Next]_vars => TurnInv'
    <2>. SUFFICES ASSUME TurnInv, IInv', [Next]_vars PROVE TurnInv'
      OBVIOUS
    <2>1. ASSUME NEW r \in Requests, Send(r) \/ Step(r) \/ Fail(r) PROVE TurnInv'
      <3>1. Alone'
        BY <2>1, AloneKept DEF TurnInv, IInv
      <3>2. ASSUME NEW u \in Users \ Unnamed, OneClient(u) PROVE InTurn(u)'
        BY <2>1, <3>2, OtherUserKept, OwnRequestKept DEF TurnInv, IInv
      <3>. QED BY <3>1, <3>2 DEF TurnInv, OneClient
    <2>2. ASSUME NEW v \in Users, LoseKey(v) PROVE TurnInv'
      <3>1. UNCHANGED <<tables, found, pc>> /\ \A u \in Users : cache'[u] \in {cache[u], None}
        BY <2>2 DEF LoseKey, TurnInv, IInv, TypeOK
      <3>2. Alone'
        BY <3>1 DEF TurnInv, Alone
      <3>3. \A u \in Users : InTurn(u) => InTurn(u)'
        BY <3>1 DEF InTurn, OneInvestor, InvestorIds, CacheIsLatest, ValidOf, TestsAt, tables
      <3>. QED BY <3>2, <3>3 DEF TurnInv, OneClient
    <2>3. CASE UNCHANGED vars
      BY <2>3 DEF vars, TurnInv, Alone, OneClient, InTurn, OneInvestor, InvestorIds, CacheIsLatest,
         ValidOf, TestsAt
    <2>. QED BY <2>1, <2>2, <2>3 DEF Next
  <1>. QED BY <1>1, InitTurnInv, InvariantHolds, PTL DEF Spec

\* Requests of a user that come one after another leave one investor, at most
\* one valid test, and Redis in step with the table.
THEOREM OneClientIsConsistentHolds == Spec => []OneClientIsConsistent
  <1>1. TurnInv => OneClientIsConsistent
    BY DEF TurnInv, InTurn, OneClientIsConsistent
  <1>. QED BY <1>1, TurnInvHolds, PTL
===============================================================================
