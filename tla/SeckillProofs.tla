----------------------------- MODULE SeckillProofs -----------------------------
(***************************************************************************)
(* No oversale and no lost decrement, for every stock and every set of     *)
(* buyers.                                                                 *)
(***************************************************************************)
EXTENDS Seckill, FiniteSetTheorems, TLAPS

\* What WATCH guarantees to a buyer before its EXEC.
Optimistic ==
    \A b \in Buyers : pc[b] = "exec" =>
        val[b] \in 1..Total /\ (b \notin touched => val[b] = stock)

\* Items are handed out from Total - 1 downwards, one per served buyer.
Sales == /\ stock \in 0..Total
         /\ \A b \in Served : reply[b] \in Int /\ reply[b] >= stock /\ reply[b] = val[b] - 1
         /\ \A b, c \in Served : reply[b] = reply[c] => b = c
         /\ \A b \in Served : pc[b] \in {"won", "done", "failed"}
         /\ Cardinality(Served) = Total - stock

Records == /\ \A b \in Buyers : pc[b] = "won" => b \in Served
           /\ \A b \in Buyers : pc[b] = "none left" => stock = 0
           /\ \A b \in Buyers : record[b] = "kcfail" => stock = 0
           /\ \A b \in Buyers : record[b] = "succ" => b \in Served
           /\ \A b \in Served : pc[b] = "done" => record[b] = "succ"

IInv == TypeOK /\ Optimistic /\ Sales /\ Records

-------------------------------------------------------------------------------
LEMMA InitIInv == Init => IInv
  <1>. SUFFICES ASSUME Init PROVE IInv
    OBVIOUS
  <1>1. TypeOK
    BY TotalAssumption DEF Init, TypeOK, Working
  <1>2. Served = {}
    BY DEF Init, Served
  <1>3. Optimistic
    BY DEF Init, Optimistic
  <1>4. Sales
    BY <1>2, FS_EmptySet, TotalAssumption DEF Init, Sales
  <1>5. Records
    BY <1>2 DEF Init, Records
  <1>. QED BY <1>1, <1>3, <1>4, <1>5 DEF IInv

\* EXEC that applies: one more buyer served, one item fewer, and every other
\* connection that watches the key is touched.
LEMMA DecrementKeeps ==
    ASSUME IInv, NEW b \in Buyers, ExecApplies(b) \/ ExecReplyLost(b)
    PROVE  IInv'
  <1>. USE DEF IInv
  <1>1. /\ pc[b] = "exec" /\ b \notin touched
        /\ stock' = stock - 1
        /\ touched' = Watching \ {b}
        /\ reply' = [reply EXCEPT ![b] = stock - 1]
        /\ pc'[b] \in {"won", "failed"}
        /\ \A c \in Buyers \ {b} : pc'[c] = pc[c]
        /\ UNCHANGED <<val, record>>
    BY DEF ExecApplies, ExecReplyLost, Goto, TypeOK
  <1>2. stock \in 1..Total /\ val[b] = stock /\ stock - 1 \in 0..Total
    BY <1>1, TotalAssumption DEF Optimistic
  <1>3. /\ \A c \in Buyers : reply'[c] = IF c = b THEN stock - 1 ELSE reply[c]
        /\ b \notin Served
    BY <1>1 DEF TypeOK, Sales
  <1>4. Served' = Served \cup {b}
    BY <1>2, <1>3, NoneAssumption DEF Served
  <1>5. TypeOK'
    <2>1. touched' \subseteq Buyers
      BY <1>1 DEF Watching
    <2>2. pc' \in [Buyers -> Working \cup {"done", "failed"}]
      BY DEF ExecApplies, ExecReplyLost, Goto, TypeOK, Working
    <2>3. stock' \in Int /\ reply' \in [Buyers -> Int \cup {None}]
      BY <1>1, <1>2 DEF TypeOK
    <2>. QED BY <1>1, <2>1, <2>2, <2>3 DEF TypeOK
  <1>6. Optimistic'
    BY <1>1 DEF Optimistic, Watching
  <1>7. Sales'
    <2>1. \A c \in Served' : reply'[c] \in Int /\ reply'[c] >= stock' /\ reply'[c] = val'[c] - 1
      BY <1>1, <1>2, <1>3, <1>4 DEF Sales
    <2>2. \A c, d \in Served' : reply'[c] = reply'[d] => c = d
      <3>1. \A c \in Served : reply[c] # stock - 1
        BY <1>2 DEF Sales
      <3>2. \A c \in Served : c \in Buyers
        BY DEF Served
      <3>. QED BY <1>3, <1>4, <3>1, <3>2 DEF Sales
    <2>3. \A c \in Served' : pc'[c] \in {"won", "done", "failed"}
      BY <1>1, <1>3, <1>4 DEF Sales, Served
    <2>4. Cardinality(Served') = Total - stock'
      <3>1. IsFiniteSet(Served)
        BY BuyersAssumption, FS_Subset DEF Served
      <3>2. Cardinality(Served') = Cardinality(Served) + 1
        BY <3>1, <1>3, <1>4, FS_AddElement
      <3>. QED BY <1>1, <1>2, <3>2, TotalAssumption DEF Sales
    <2>. QED BY <1>1, <1>2, <2>1, <2>2, <2>3, <2>4 DEF Sales
  <1>8. Records'
    <2>1. stock # 0
      BY <1>2
    <2>2. \A c \in Buyers : pc[c] # "none left" /\ record[c] # "kcfail"
      BY <2>1 DEF Records
    <2>3. pc'[b] # "none left" /\ pc'[b] # "done"
      BY <1>1
    <2>4. \A c \in Buyers : pc'[c] # "none left" /\ record'[c] # "kcfail"
      BY <1>1, <2>2, <2>3
    <2>5. \A c \in Buyers : pc'[c] = "won" \/ record'[c] = "succ" => c \in Served'
      BY <1>1, <1>4 DEF Records
    <2>6. \A c \in Served' : pc'[c] = "done" => record'[c] = "succ"
      <3>1. \A c \in Served : c \in Buyers
        BY DEF Served
      <3>. QED BY <1>1, <1>4, <2>3, <3>1 DEF Records
    <2>. QED BY <2>4, <2>5, <2>6 DEF Records
  <1>. QED BY <1>5, <1>6, <1>7, <1>8

\* No other command changes the stock or serves a buyer.
LEMMA OthersKeep ==
    ASSUME IInv, NEW b \in Buyers,
           Watch(b) \/ Get(b) \/ ExecAborts(b) \/ Record(b) \/ Fail(b)
    PROVE  IInv'
  <1>. USE DEF IInv
  <1>1. /\ UNCHANGED <<stock, reply>>
        /\ \A c \in Buyers \ {b} :
              pc'[c] = pc[c] /\ val'[c] = val[c] /\ record'[c] = record[c]
        /\ \A c \in Buyers \ {b} : c \in touched' <=> c \in touched
    BY DEF Watch, Get, ExecAborts, Record, Fail, Goto, TypeOK
  <1>2. Served' = Served
    BY <1>1 DEF Served
  <1>3. TypeOK'
    BY DEF Watch, Get, ExecAborts, Record, Fail, Goto, TypeOK, Working
  <1>4. Optimistic'
    <2>1. pc'[b] = "exec" => val'[b] \in 1..Total /\ val'[b] = stock
      <3>1. CASE Get(b)
        <4>1. val'[b] = stock /\ pc'[b] = IF stock <= Total /\ stock >= 1 THEN "exec" ELSE "none left"
          BY <3>1 DEF Get, Goto, TypeOK
        <4>2. ~(stock <= Total /\ stock >= 1) => pc'[b] # "exec"
          BY <4>1
        <4>3. stock <= Total /\ stock >= 1 => stock \in 1..Total
          BY TotalAssumption DEF TypeOK
        <4>. QED BY <4>1, <4>2, <4>3
      <3>2. CASE ~Get(b)
        BY <3>2 DEF Watch, ExecAborts, Record, Fail, Goto, TypeOK
      <3>. QED BY <3>1, <3>2
    <2>. QED BY <1>1, <2>1 DEF Optimistic
  <1>5. Sales'
    <2>1. b \in Served => val'[b] = val[b] /\ pc'[b] \in {"won", "done", "failed"}
      BY DEF Sales, Watch, Get, ExecAborts, Record, Fail, Goto, TypeOK
    <2>. QED BY <1>1, <1>2, <2>1 DEF Sales, Served
  <1>6. Records'
    <2>1. pc'[b] # "won"
      BY DEF Watch, Get, ExecAborts, Record, Fail, Goto, TypeOK
    <2>2. pc'[b] = "none left" => stock = 0
      <3>1. CASE Get(b)
        <4>1. ~(stock <= Total /\ stock >= 1) => stock = 0
          BY TotalAssumption DEF Sales
        <4>2. pc'[b] = IF stock <= Total /\ stock >= 1 THEN "exec" ELSE "none left"
          BY <3>1 DEF Get, Goto, TypeOK
        <4>. QED BY <4>1, <4>2
      <3>2. CASE ~Get(b)
        BY <3>2 DEF Watch, ExecAborts, Record, Fail, Goto, TypeOK
      <3>. QED BY <3>1, <3>2
    <2>3. record'[b] = "kcfail" => stock = 0
      BY DEF Watch, Get, ExecAborts, Record, Fail, Goto, TypeOK, Records
    <2>4. record'[b] = "succ" => b \in Served
      BY DEF Watch, Get, ExecAborts, Record, Fail, Goto, TypeOK, Records
    <2>5. b \in Served /\ pc'[b] = "done" => record'[b] = "succ"
      BY DEF Watch, Get, ExecAborts, Record, Fail, Goto, TypeOK, Records, Sales
    <2>6. Served \subseteq Buyers
      BY DEF Served
    <2>. QED BY <1>1, <1>2, <2>1, <2>2, <2>3, <2>4, <2>5, <2>6 DEF Records
  <1>. QED BY <1>3, <1>4, <1>5, <1>6

\* What a watch that is not broken says of the stock, through every command.
THEOREM InvariantHolds == SafeSpec => []IInv
  <1>1. IInv /\ [Next]_vars => IInv'
    <2>. SUFFICES ASSUME IInv, [Next]_vars PROVE IInv'
      OBVIOUS
    <2>1. ASSUME NEW b \in Buyers, Step(b) \/ Fail(b) \/ ExecReplyLost(b) PROVE IInv'
      BY <2>1, DecrementKeeps, OthersKeep DEF Step
    <2>2. CASE UNCHANGED vars
      BY <2>2 DEF vars, IInv, TypeOK, Optimistic, Sales, Records, Served
    <2>. QED BY <2>1, <2>2 DEF Next
  <1>. QED BY <1>1, InitIInv, PTL DEF SafeSpec

-------------------------------------------------------------------------------
\* Variables keep their types.
THEOREM TypeCorrect == SafeSpec => []TypeOK
  <1>1. IInv => TypeOK
    BY DEF IInv
  <1>. QED BY <1>1, InvariantHolds, PTL

\* The stock never goes below zero and counts exactly the unsold items.
THEOREM StockIsUnsoldHolds == SafeSpec => []StockIsUnsold
  <1>1. IInv => StockIsUnsold
    BY DEF IInv, Sales, StockIsUnsold
  <1>. QED BY <1>1, InvariantHolds, PTL

\* EXEC saw the stock that GET had read, whoever else was at work.
THEOREM ReportedCountIsRightHolds == SafeSpec => []ReportedCountIsRight
  <1>1. IInv => ReportedCountIsRight
    BY DEF IInv, Sales, ReportedCountIsRight
  <1>. QED BY <1>1, InvariantHolds, PTL

\* One item goes to one buyer.
THEOREM OneItemOneBuyerHolds == SafeSpec => []OneItemOneBuyer
  <1>1. IInv => OneItemOneBuyer
    BY DEF IInv, Sales, OneItemOneBuyer
  <1>. QED BY <1>1, InvariantHolds, PTL

\* The records of the buyers that got to the end agree with the sales.
THEOREM RecordsMatchSalesHolds == SafeSpec => []RecordsMatchSales
  <1>1. IInv => RecordsMatchSales
    BY DEF IInv, Records, RecordsMatchSales
  <1>. QED BY <1>1, InvariantHolds, PTL

\* Who is told that nothing is left is told so rightly and for good.
THEOREM SoldOutIsFinalHolds == SafeSpec => []SoldOutIsFinal
  <1>1. IInv => SoldOutIsFinal
    BY DEF IInv, Records, SoldOutIsFinal
  <1>. QED BY <1>1, InvariantHolds, PTL
===============================================================================
