-------------------------- MODULE DateTimePickerProofs --------------------------
(***************************************************************************)
(* For every calendar, page, limit and text: the arithmetic of months and  *)
(* texts agrees with the calendar, the panel is never stale, and what is   *)
(* chosen is what the text says and lies in the limits.                    *)
(***************************************************************************)
EXTENDS DateTimePicker, FiniteSetTheorems, WellFoundedInduction, TLAPS

-------------------------------------------------------------------------------
\* The leap years before the next year: one more when the year is one.
LEMMA OneYear ==
    ASSUME NEW n \in Int
    PROVE  LeapsBefore(n + 1) - LeapsBefore(n) = IF isLeapYear(n) THEN 1 ELSE 0
  <1>1. n \div 4 - (n - 1) \div 4 = IF n % 4 = 0 THEN 1 ELSE 0
    OBVIOUS
  <1>2. n \div 100 - (n - 1) \div 100 = IF n % 100 = 0 THEN 1 ELSE 0
    OBVIOUS
  <1>3. n \div 400 - (n - 1) \div 400 = IF n % 400 = 0 THEN 1 ELSE 0
    OBVIOUS
  <1>4. (n % 400 = 0 => n % 100 = 0) /\ (n % 100 = 0 => n % 4 = 0)
    OBVIOUS
  <1> QED BY <1>1, <1>2, <1>3, <1>4 DEF LeapsBefore, isLeapYear

\* A number, its quotient and its rest.
LEMMA Quotient ==
    ASSUME NEW n \in Int
    PROVE  /\ n \div 100 \in Int /\ n % 100 \in 0..99 /\ n - 100 * (n \div 100) = n % 100
           /\ n \div 400 \in Int /\ n % 400 \in 0..399 /\ n - 400 * (n \div 400) = n % 400
           /\ n \div 4 \in Int /\ n % 4 \in 0..3 /\ n - 4 * (n \div 4) = n % 4
  <1>1. n - 100 * (n \div 100) = n % 100 /\ n % 100 \in 0..99 /\ n \div 100 \in Int
    OBVIOUS
  <1>2. n - 400 * (n \div 400) = n % 400 /\ n % 400 \in 0..399 /\ n \div 400 \in Int
    OBVIOUS
  <1>3. n - 4 * (n \div 4) = n % 4 /\ n % 4 \in 0..3 /\ n \div 4 \in Int
    OBVIOUS
  <1> QED BY <1>1, <1>2, <1>3

\* Between two years there are at most as many leap years as years.
LEMMA LeapsMonotone ==
    ASSUME NEW n \in Int, NEW m \in Int, n <= m
    PROVE  LeapsBefore(n) <= LeapsBefore(m) /\ LeapsBefore(m) - LeapsBefore(n) <= m - n
  <1> DEFINE L(x) == x \div 4 - x \div 100 + x \div 400
  <1>1. ASSUME NEW i \in Int, NEW j \in Int, i <= j
        PROVE  L(i) <= L(j) /\ L(j) - L(i) <= j - i
    <2> DEFINE a == i \div 100
               b == j \div 100
               c == i \div 4
               d == j \div 4
               p == i % 100
               q == j % 100
               u == i % 4
               v == j % 4
               g == i \div 400
               h == j \div 400
               s == i % 400
               t == j % 400
    <2>1. /\ a \in Int /\ p \in 0..99 /\ i - 100 * a = p
          /\ g \in Int /\ s \in 0..399 /\ i - 400 * g = s
          /\ c \in Int /\ u \in 0..3 /\ i - 4 * c = u
      BY Quotient
    <2>2. /\ b \in Int /\ q \in 0..99 /\ j - 100 * b = q
          /\ h \in Int /\ t \in 0..399 /\ j - 400 * h = t
          /\ d \in Int /\ v \in 0..3 /\ j - 4 * d = v
      BY Quotient
    <2> HIDE DEF a, b, c, d, p, q, u, v, g, h, s, t
    <2>3. a <= b /\ c <= d /\ g <= h
      BY <1>1, <2>1, <2>2
    <2>4. c - 25 * a \in 0..24 /\ d - 25 * b \in 0..24
      BY <2>1, <2>2
    <2>5. c - a <= d - b
      BY <2>1, <2>2, <2>3, <2>4
    <2>6. d - c <= j - i
      BY <1>1, <2>1, <2>2, <2>3
    <2>7. a - 4 * g \in 0..3 /\ b - 4 * h \in 0..3
      BY <2>1, <2>2
    <2>8. h - g <= b - a
      BY <2>1, <2>2, <2>3, <2>7
    <2> QED BY <2>1, <2>2, <2>3, <2>5, <2>6, <2>8 DEF a, b, c, d, g, h
  <1>2. /\ n - 1 \in Int /\ m - 1 \in Int /\ n - 1 <= m - 1
        /\ (m - 1) - (n - 1) = m - n
    OBVIOUS
  <1>3. LeapsBefore(n) = L(n - 1) /\ LeapsBefore(m) = L(m - 1)
    BY DEF LeapsBefore
  <1> HIDE DEF L
  <1>4. L(n - 1) <= L(m - 1) /\ L(m - 1) - L(n - 1) <= (m - 1) - (n - 1)
    BY <1>1, <1>2
  <1> QED BY <1>2, <1>3, <1>4

\* A year has 365 days or 366, and the calendar starts with the first.
LEMMA YearStarts ==
    ASSUME NEW y \in Int, NEW z \in Int, y <= z
    PROVE  /\ YearStart(y) \in Int /\ YearStart(0) = 0
           /\ 365 * (z - y) <= YearStart(z) - YearStart(y)
           /\ YearStart(z) - YearStart(y) <= 366 * (z - y)
  <1>1. \A n \in Int : LeapsBefore(n) \in Int
    BY DEF LeapsBefore
  <1>2. FirstYear + y \in Int /\ FirstYear + z \in Int /\ FirstYear + y <= FirstYear + z
    BY CalendarAssumption
  <1>3. /\ LeapsBefore(FirstYear + y) <= LeapsBefore(FirstYear + z)
        /\ LeapsBefore(FirstYear + z) - LeapsBefore(FirstYear + y) <= (FirstYear + z) - (FirstYear + y)
    BY <1>2, LeapsMonotone
  <1>4. FirstYear + 0 = FirstYear
    BY CalendarAssumption
  <1> DEFINE a == LeapsBefore(FirstYear + y)
             b == LeapsBefore(FirstYear + z)
             c == LeapsBefore(FirstYear)
  <1>5. a \in Int /\ b \in Int /\ c \in Int /\ a <= b /\ b - a <= z - y
    <2>1. (FirstYear + z) - (FirstYear + y) = z - y
      BY CalendarAssumption
    <2> QED BY <1>1, <1>2, <1>3, <2>1, CalendarAssumption
  <1>6. YearStart(y) = 365 * y + a - c /\ YearStart(z) = 365 * z + b - c
    BY DEF YearStart
  <1>7. YearStart(0) = 365 * 0 + c - c
    BY <1>4 DEF YearStart
  <1> HIDE DEF a, b, c
  <1> QED BY <1>5, <1>6, <1>7

\* A month has 28 to 31 days, and the next one starts right after them.
LEMMA DaysIs ==
    ASSUME NEW k \in Int
    PROVE  /\ getDaysInMonth(k) \in 28..31
           /\ MonthDay(k) \in Int
           /\ MonthDay(k + 1) = MonthDay(k) + getDaysInMonth(k)
  <1> DEFINE y == k \div 12
             m == k % 12
             leap == IF isLeapYear(FirstYear + y) THEN 1 ELSE 0
  <1>1. y \in Int /\ m \in 0..11 /\ k = 12 * y + m
    OBVIOUS
  <1>2. YearStart(y) \in Int /\ YearStart(y + 1) = YearStart(y) + 365 + leap
    <2>1. LeapsBefore(FirstYear + y + 1) - LeapsBefore(FirstYear + y) = leap
      BY <1>1, OneYear, CalendarAssumption
    <2>2. \A n \in Int : LeapsBefore(n) \in Int
      BY DEF LeapsBefore
    <2> HIDE DEF leap
    <2> QED BY <1>1, <2>1, <2>2, CalendarAssumption DEF YearStart
  <1>3. (k + 1) \div 12 = (IF m = 11 THEN y + 1 ELSE y) /\ (k + 1) % 12 = (IF m = 11 THEN 0 ELSE m + 1)
    OBVIOUS
  <1>4. getDaysInMonth(k) = IF m = 1 THEN 28 + leap ELSE IF m \in {3, 5, 8, 10} THEN 30 ELSE 31
    BY DEF getDaysInMonth
  <1>5. MonthDay(k) = YearStart(y) + <<0, 31, 59, 90, 120, 151, 181, 212, 243, 273, 304, 334>>[m + 1]
                         + IF m > 1 THEN leap ELSE 0
    BY DEF MonthDay
  <1>6. CASE m = 11
    <2>1. MonthDay(k + 1) = YearStart(y + 1)
      <3>1. (k + 1) \div 12 = y + 1 /\ (k + 1) % 12 = 0
        BY <1>3, <1>6
      <3>2. YearStart(y + 1) + <<0, 31, 59, 90, 120, 151, 181, 212, 243, 273, 304, 334>>[0 + 1] + 0
              = YearStart(y + 1)
        BY <1>2
      <3> HIDE DEF y, m
      <3> QED BY <3>1, <3>2 DEF MonthDay
    <2>2. MonthDay(k) = YearStart(y) + 334 + leap
      BY <1>5, <1>6
    <2>3. leap \in 0..1
      OBVIOUS
    <2> HIDE DEF leap, m, y
    <2> QED BY <1>2, <1>4, <1>6, <2>1, <2>2, <2>3
  <1>7. CASE m # 11
    <2>1. MonthDay(k + 1) = YearStart(y) + <<0, 31, 59, 90, 120, 151, 181, 212, 243, 273, 304, 334>>[m + 2]
                         + IF m > 0 THEN leap ELSE 0
      BY <1>3, <1>7 DEF MonthDay
    <2>3. leap \in 0..1
      OBVIOUS
    <2> HIDE DEF leap, m, y
    <2> QED BY <1>1, <1>2, <1>4, <1>5, <1>7, <2>1, <2>3
  <1> QED BY <1>6, <1>7

\* The months are a month apart, and twelve of them between 365 and 366 days.
LEMMA MonthDaysApart ==
    ASSUME NEW i \in Int, NEW j \in Int, i < j
    PROVE  MonthDay(i) + 28 <= MonthDay(j)
  <1> DEFINE y == i \div 12
             z == j \div 12
             m == i % 12
             n == j % 12
             past == <<0, 31, 59, 90, 120, 151, 181, 212, 243, 273, 304, 334>>
             leap(w) == IF isLeapYear(FirstYear + w) THEN 1 ELSE 0
  <1>1. /\ y \in Int /\ m \in 0..11 /\ i = 12 * y + m
        /\ z \in Int /\ n \in 0..11 /\ j = 12 * z + n
    OBVIOUS
  <1>2. /\ MonthDay(i) = YearStart(y) + past[m + 1] + IF m > 1 THEN leap(y) ELSE 0
        /\ MonthDay(j) = YearStart(z) + past[n + 1] + IF n > 1 THEN leap(z) ELSE 0
    BY DEF MonthDay
  <1>3. leap(y) \in 0..1 /\ leap(z) \in 0..1
    OBVIOUS
  <1> HIDE DEF y, z, m, n, leap
  <1>4. y <= z /\ (y = z => m < n)
    BY <1>1
  <1>5. YearStart(y) \in Int /\ YearStart(z) \in Int /\ 365 * (z - y) <= YearStart(z) - YearStart(y)
    BY <1>1, <1>4, YearStarts
  <1>6. CASE y = z
    BY <1>1, <1>2, <1>3, <1>4, <1>5, <1>6
  <1>7. CASE y < z
    <2>1. YearStart(y) + 365 <= YearStart(z)
      BY <1>1, <1>5, <1>7
    <2>2. CASE m # 11
      <3>1. past[m + 1] \in 0..304 /\ past[n + 1] \in Nat
        BY <1>1, <2>2
      <3> QED BY <1>1, <1>2, <1>3, <1>5, <2>1, <3>1
    <2>3. CASE m = 11
      <3>1. past[m + 1] = 334 /\ past[n + 1] \in Nat
        BY <1>1, <2>3
      <3> QED BY <1>1, <1>2, <1>3, <1>5, <2>1, <3>1
    <2> QED BY <2>2, <2>3
  <1> QED BY <1>1, <1>4, <1>6, <1>7

\* The months are at least 28 days each, and on average a twelfth of a year.
LEMMA MonthDayBounds ==
    ASSUME NEW k \in Nat
    PROVE  /\ MonthDay(k) \in Int /\ 28 * k <= MonthDay(k) /\ MonthDay(0) = 0
           /\ 365 * (k - 1) <= 12 * MonthDay(k)
           /\ 12 * (MonthDay(k + 1) - 1) < 366 * (k + 1)
  <1> DEFINE y == k \div 12
             m == k % 12
             past == <<0, 31, 59, 90, 120, 151, 181, 212, 243, 273, 304, 334>>
             leap == IF isLeapYear(FirstYear + y) THEN 1 ELSE 0
  <1>1. y \in Nat /\ m \in 0..11 /\ k = 12 * y + m
    OBVIOUS
  <1>2. MonthDay(k) = YearStart(y) + past[m + 1] + IF m > 1 THEN leap ELSE 0
    BY DEF MonthDay
  <1>3. getDaysInMonth(k) = IF m = 1 THEN 28 + leap ELSE IF m \in {3, 5, 8, 10} THEN 30 ELSE 31
    BY DEF getDaysInMonth
  <1>4. leap \in 0..1
    OBVIOUS
  <1> HIDE DEF leap
  <1>5. MonthDay(k + 1) = MonthDay(k) + getDaysInMonth(k)
    BY DaysIs
  <1>6. MonthDay(0) = 0
    <2>1. 0 \div 12 = 0 /\ 0 % 12 = 0
      OBVIOUS
    <2>2. YearStart(0) = 0
      BY YearStarts
    <2> QED BY <2>1, <2>2 DEF MonthDay
  <1> HIDE DEF y, m
  <1>7. /\ YearStart(y) \in Int /\ YearStart(0) = 0
        /\ 365 * (y - 0) <= YearStart(y) - YearStart(0)
        /\ YearStart(y) - YearStart(0) <= 366 * (y - 0)
    <2>1. y \in Int /\ 0 \in Int /\ 0 <= y
      BY <1>1
    <2> QED BY <2>1, YearStarts
  <1>8. YearStart(y) \in Int /\ 365 * y <= YearStart(y) /\ YearStart(y) <= 366 * y
    BY <1>1, <1>7
  <1> QED BY <1>1, <1>2, <1>3, <1>4, <1>5, <1>6, <1>8

\* What is computed for the months of the calendar is read from its table.
LEMMA StartIs ==
    ASSUME NEW k \in Months
    PROVE  /\ k \in Int /\ k \in Nat /\ k + 1 \in 0..(12 * Years)
           /\ MonthStart(k) = MonthDay(k) /\ MonthStart(k + 1) = MonthDay(k + 1)
           /\ MonthStart(k) \in Nat /\ getDaysInMonth(k) \in 28..31
           /\ MonthStart(k + 1) = MonthStart(k) + getDaysInMonth(k)
           /\ 365 * (k - 1) <= 12 * MonthStart(k)
           /\ 12 * (MonthStart(k + 1) - 1) < 366 * (k + 1)
  <1>1. k \in Nat /\ k \in Int /\ k \in 0..(12 * Years) /\ k + 1 \in 0..(12 * Years)
    BY CalendarAssumption DEF Months
  <1>2. MonthStart(k) = MonthDay(k) /\ MonthStart(k + 1) = MonthDay(k + 1)
    BY <1>1 DEF MonthStart, MonthTable
  <1>3. /\ MonthDay(k) \in Int /\ getDaysInMonth(k) \in 28..31
        /\ MonthDay(k + 1) = MonthDay(k) + getDaysInMonth(k)
    BY <1>1, DaysIs
  <1>4. /\ 28 * k <= MonthDay(k) /\ 365 * (k - 1) <= 12 * MonthDay(k)
        /\ 12 * (MonthDay(k + 1) - 1) < 366 * (k + 1)
    BY <1>1, MonthDayBounds
  <1>5. MonthDay(k) \in Nat
    BY <1>1, <1>3, <1>4
  <1> QED BY <1>1, <1>2, <1>3, <1>4, <1>5

\* The months of the table follow each other, 28 days apart or more.
LEMMA StartsApart ==
    ASSUME NEW i \in 0..(12 * Years), NEW j \in 0..(12 * Years), i < j
    PROVE  /\ MonthStart(i) \in Nat /\ MonthStart(j) \in Nat
           /\ MonthStart(i) + 28 <= MonthStart(j)
  <1>1. i \in Nat /\ j \in Nat /\ i \in Int /\ j \in Int
    BY CalendarAssumption
  <1>2. MonthStart(i) = MonthDay(i) /\ MonthStart(j) = MonthDay(j)
    BY DEF MonthStart, MonthTable
  <1>3. MonthDay(i) + 28 <= MonthDay(j)
    BY <1>1, MonthDaysApart
  <1>4. MonthDay(i) \in Int /\ MonthDay(j) \in Int /\ 28 * i <= MonthDay(i) /\ 28 * j <= MonthDay(j)
    BY <1>1, MonthDayBounds
  <1> QED BY <1>1, <1>2, <1>3, <1>4

\* The calendar starts on its first day and has an end.
LEMMA FirstStart == MonthStart(0) = 0 /\ MonthStart(12 * Years) \in Nat /\ 0 < MonthStart(12 * Years)
  <1>1. 0 \in 0..(12 * Years) /\ 12 * Years \in 0..(12 * Years) /\ 0 < 12 * Years
    BY CalendarAssumption
  <1>2. MonthStart(0) = MonthDay(0)
    BY <1>1 DEF MonthStart, MonthTable
  <1>3. MonthDay(0) = 0
    BY MonthDayBounds
  <1>4. /\ MonthStart(0) \in Nat /\ MonthStart(12 * Years) \in Nat
        /\ MonthStart(0) + 28 <= MonthStart(12 * Years)
    BY <1>1, StartsApart
  <1> QED BY <1>2, <1>3, <1>4

\* The month of an instant is the one whose days hold it.
LEMMA MonthOfDay ==
    ASSUME NEW t \in Int, NEW k \in Months,
           MonthStart(k) <= t \div Day, t \div Day < MonthStart(k + 1)
    PROVE  Month(t) = k
  <1> DEFINE day == t \div Day
             R == (12 * day) \div 366 .. (12 * day) \div 365 + 1
             P(i) == i < 12 * Years /\ MonthStart(i) <= day /\ day < MonthStart(i + 1)
  <1>1. /\ k \in Nat /\ MonthStart(k) \in Nat
        /\ 365 * (k - 1) <= 12 * MonthStart(k)
        /\ 12 * (MonthStart(k + 1) - 1) < 366 * (k + 1)
        /\ MonthStart(k + 1) \in Nat /\ k < 12 * Years
    <2>1. k < 12 * Years
      BY CalendarAssumption DEF Months
    <2> QED BY <2>1, StartIs
  <1>2. day \in Nat
    BY <1>1 DEF Day
  <1> HIDE DEF day
  <1>3. 365 * (k - 1) <= 12 * day /\ 12 * day < 366 * (k + 1)
    BY <1>1, <1>2 DEF day
  <1>4. k \in R /\ R \subseteq Nat
    BY <1>1, <1>2, <1>3
  <1>5. P(k)
    BY <1>1 DEF day
  <1>6. ASSUME NEW i \in R, P(i) PROVE i = k
    <2>1. i \in Nat /\ i \in 0..(12 * Years) /\ i + 1 \in 0..(12 * Years)
      BY <1>4, <1>6, CalendarAssumption
    <2>2. k \in 0..(12 * Years) /\ k + 1 \in 0..(12 * Years)
      BY <1>1, CalendarAssumption
    <2>3. CASE i < k
      <3>1. i + 1 = k \/ i + 1 < k
        BY <1>1, <2>1, <2>3
      <3>2. MonthStart(i + 1) <= MonthStart(k) /\ MonthStart(i + 1) \in Nat
        BY <1>1, <2>1, <2>2, <3>1, StartsApart
      <3> QED BY <1>1, <1>2, <1>5, <1>6, <3>2
    <2>4. CASE k < i
      <3>1. k + 1 = i \/ k + 1 < i
        BY <1>1, <2>1, <2>4
      <3>2. MonthStart(k + 1) <= MonthStart(i) /\ MonthStart(i) \in Nat
        BY <1>1, <2>1, <2>2, <3>1, StartsApart
      <3> QED BY <1>1, <1>2, <1>5, <1>6, <3>2
    <2> QED BY <1>1, <2>1, <2>3, <2>4
  <1>7. Month(t) = CHOOSE i \in R : P(i)
    BY DEF Month, day
  <1> HIDE DEF R, P
  <1> QED BY <1>4, <1>5, <1>6, <1>7

\* An instant is in the month, at the day and at the minute it is built from.
LEMMA InstantIs ==
    ASSUME NEW k \in Months, NEW d \in 1..getDaysInMonth(k), NEW m \in 0..(Day - 1)
    PROVE  /\ Instant(k, d, m) \in Instants
           /\ Month(Instant(k, d, m)) = k
           /\ Date(Instant(k, d, m)) = d
           /\ Minute(Instant(k, d, m)) = m
  <1> DEFINE t == Instant(k, d, m)
             day == MonthStart(k) + d - 1
  <1>1. /\ MonthStart(k) \in Nat /\ getDaysInMonth(k) \in 28..31
        /\ MonthStart(k + 1) = MonthStart(k) + getDaysInMonth(k)
    BY StartIs
  <1>2. /\ day \in Nat /\ MonthStart(k) <= day /\ day < MonthStart(k + 1)
        /\ day - MonthStart(k) + 1 = d
    BY <1>1
  <1>3. t = day * Day + m
    BY DEF Instant
  <1> HIDE DEF day
  <1>4. t \in Nat /\ t \div Day = day /\ t % Day = m
    BY <1>2, <1>3 DEF Day
  <1>5. Month(t) = k
    BY <1>2, <1>4, MonthOfDay
  <1>6. t \in Instants
    <2>1. MonthStart(k + 1) <= MonthStart(12 * Years) /\ MonthStart(12 * Years) \in Nat
      <3>1. k + 1 = 12 * Years \/ k + 1 < 12 * Years
        BY CalendarAssumption DEF Months
      <3>2. k + 1 \in 0..(12 * Years) /\ 12 * Years \in 0..(12 * Years)
        BY CalendarAssumption DEF Months
      <3> QED BY <1>1, <3>1, <3>2, StartsApart, FirstStart
    <2>2. day + 1 <= MonthStart(12 * Years)
      BY <1>1, <1>2, <2>1
    <2> QED BY <1>2, <1>3, <1>4, <2>1, <2>2 DEF Instants, Day
  <1> HIDE DEF t
  <1> QED BY <1>2, <1>4, <1>5, <1>6 DEF Date, Minute, t

\* A set of natural numbers has a least element.
LEMMA LeastOf ==
    ASSUME NEW S \in SUBSET Nat, S # {}
    PROVE  \E p \in S : \A o \in S : p <= o
  <1> DEFINE T == {1..p : p \in S}
  <1>1. T # {}
    OBVIOUS
  <1>2. T \subseteq FiniteSubsetsOf(Nat)
    <2>1. \A p \in Nat : 1..p \in SUBSET Nat
      OBVIOUS
    <2>2. \A p \in Nat : IsFiniteSet(1..p)
      BY FS_Interval
    <2> QED BY <2>1, <2>2 DEF FiniteSubsetsOf
  <1>3. IsWellFoundedOn(StrictSubsetOrdering(Nat), FiniteSubsetsOf(Nat))
    BY FS_StrictSubsetOrderingWellFounded
  <1>4. PICK t \in T : \A u \in T : ~ (<<u, t>> \in StrictSubsetOrdering(Nat))
    <2> HIDE DEF T
    <2> QED BY <1>1, <1>2, <1>3, WFMin
  <1>5. PICK p \in S : t = 1..p
    OBVIOUS
  <1>6. ASSUME NEW o \in S PROVE p <= o
    <2>1. SUFFICES ASSUME o < p PROVE FALSE
      BY <2>1
    <2>2. 1..o \subseteq 1..p /\ p \in 1..p /\ p \notin 1..o
      BY <2>1
    <2>3. 1..o \in SUBSET Nat /\ 1..p \in SUBSET Nat
      OBVIOUS
    <2>4. <<1..o, 1..p>> \in StrictSubsetOrdering(Nat)
      BY <2>2, <2>3 DEF StrictSubsetOrdering
    <2> QED BY <1>4, <1>5, <2>4
  <1> QED BY <1>6

\* Every instant of the calendar is in a month, and is built from its parts.
LEMMA InstantParts ==
    ASSUME NEW t \in Instants
    PROVE  /\ t \in Nat /\ Month(t) \in Months
           /\ Date(t) \in 1..getDaysInMonth(Month(t))
           /\ Minute(t) \in 0..(Day - 1)
           /\ t \div Day = MonthStart(Month(t)) + Date(t) - 1
           /\ t = (t \div Day) * Day + Minute(t)
           /\ t = Instant(Month(t), Date(t), Minute(t))
  <1> DEFINE day == t \div Day
             S == {k \in Months : day < MonthStart(k + 1)}
  <1>1. /\ t \in Nat /\ day \in Nat /\ t % Day \in 0..(Day - 1)
        /\ t = day * Day + (t % Day)
    BY FirstStart DEF Instants, Day
  <1>2. day < MonthStart(12 * Years)
    <2>1. MonthStart(12 * Years) \in Nat /\ t < MonthStart(12 * Years) * Day
      BY <1>1, FirstStart DEF Instants, Day
    <2> QED BY <1>1, <2>1 DEF Day
  <1> HIDE DEF day
  <1>3. 12 * Years - 1 \in S /\ S \subseteq Nat
    <2>1. 12 * Years - 1 \in Months /\ (12 * Years - 1) + 1 = 12 * Years /\ Months \subseteq Nat
      BY CalendarAssumption DEF Months
    <2> QED BY <1>2, <2>1
  <1>4. PICK k \in S : \A o \in S : k <= o
    <2> HIDE DEF S
    <2> QED BY <1>3, LeastOf
  <1>5. MonthStart(k) <= day
    <2>1. CASE k = 0
      BY <1>1, <2>1, FirstStart
    <2>2. CASE k # 0
      <3>1. k \in Nat /\ k - 1 \in Months /\ (k - 1) + 1 = k
        BY <1>3, <2>2, CalendarAssumption DEF Months
      <3>2. k - 1 \notin S
        BY <1>4, <3>1
      <3> QED BY <1>1, <1>4, <3>1, <3>2, StartIs
    <2> QED BY <2>1, <2>2
  <1>6. Month(t) = k
    BY <1>1, <1>4, <1>5, MonthOfDay DEF day
  <1>7. Date(t) = day - MonthStart(k) + 1 /\ Minute(t) = t % Day
    BY <1>6 DEF Date, Minute, day
  <1>8. /\ MonthStart(k) \in Nat /\ MonthStart(k + 1) = MonthStart(k) + getDaysInMonth(k)
        /\ getDaysInMonth(k) \in 28..31
    BY <1>4, StartIs
  <1>9. Date(t) \in 1..getDaysInMonth(k) /\ day = MonthStart(k) + Date(t) - 1
    BY <1>1, <1>4, <1>5, <1>7, <1>8
  <1> QED BY <1>1, <1>4, <1>6, <1>7, <1>9 DEF Instant, day

\* A day too many is a day of the month after.
LEMMA Overflow ==
    ASSUME NEW k \in Months, NEW d \in Int, NEW m \in Int
    PROVE  Instant(k, d, m) = Instant(k + 1, d - getDaysInMonth(k), m)
  <1>1. /\ MonthStart(k) \in Nat /\ getDaysInMonth(k) \in 28..31
        /\ MonthStart(k + 1) = MonthStart(k) + getDaysInMonth(k)
    BY StartIs
  <1>2. (MonthStart(k + 1) + (d - getDaysInMonth(k)) - 1) = MonthStart(k) + d - 1
    BY <1>1
  <1> QED BY <1>2 DEF Instant

\* The days of a month, by its place in the year.
LEMMA DaysByMonth ==
    ASSUME NEW k \in Months
    PROVE  /\ k \div 12 \in Nat /\ k % 12 \in 0..11 /\ k = 12 * (k \div 12) + (k % 12)
           /\ getDaysInMonth(k) \in 28..31
           /\ getDaysInMonth(k) # 31 => k % 12 \in {1, 3, 5, 8, 10}
           /\ getDaysInMonth(k) < 30 <=> k % 12 = 1
  <1>1. k \in Nat
    BY CalendarAssumption DEF Months
  <1> DEFINE y == k \div 12
             m == k % 12
             leap == IF isLeapYear(FirstYear + y) THEN 1 ELSE 0
  <1>2. leap \in 0..1
    OBVIOUS
  <1>3. y \in Nat /\ m \in 0..11 /\ k = 12 * y + m
    BY <1>1
  <1>4. getDaysInMonth(k) = IF m = 1 THEN 28 + leap ELSE IF m \in {3, 5, 8, 10} THEN 30 ELSE 31
    BY <1>3 DEF getDaysInMonth
  <1> HIDE DEF leap
  <1>5. /\ getDaysInMonth(k) \in 28..31
        /\ getDaysInMonth(k) # 31 => m \in {1, 3, 5, 8, 10}
        /\ getDaysInMonth(k) < 30 <=> m = 1
    <2> HIDE DEF m, y
    <2> QED BY <1>2, <1>3, <1>4
  <1> QED BY <1>3, <1>5

\* Up to the 31st, what is too many for a month is in the month after, which is
\* of the same year and has 31 days.
LEMMA OverflowIs ==
    ASSUME NEW k \in Months, NEW d \in 1..31, NEW m \in 0..(Day - 1),
           d > getDaysInMonth(k)
    PROVE  /\ k + 1 \in Months /\ getDaysInMonth(k) \in 28..30
           /\ getDaysInMonth(k + 1) = 31
           /\ (k + 1) \div 12 = k \div 12 /\ (k + 1) % 12 = (k % 12) + 1
           /\ Instant(k, d, m) = Instant(k + 1, d - getDaysInMonth(k), m)
           /\ Instant(k, d, m) \in Instants
           /\ Month(Instant(k, d, m)) = k + 1
           /\ Date(Instant(k, d, m)) = d - getDaysInMonth(k)
           /\ Minute(Instant(k, d, m)) = m
  <1>1. /\ k \div 12 \in Nat /\ k % 12 \in {1, 3, 5, 8, 10}
        /\ k = 12 * (k \div 12) + (k % 12) /\ getDaysInMonth(k) \in 28..30
    <2>1. getDaysInMonth(k) # 31
      BY StartIs
    <2> QED BY <2>1, DaysByMonth
  <1>2. k \in Nat /\ k < 12 * Years - 1
    <2>1. k \in Nat /\ k <= 12 * Years - 1
      BY CalendarAssumption DEF Months
    <2> DEFINE y == k \div 12
    <2>2. k = 12 * y + (k % 12) /\ y \in Nat
      BY <1>1
    <2> HIDE DEF y
    <2>3. k # 12 * Years - 1
      BY <1>1, <2>1, <2>2, CalendarAssumption
    <2> QED BY <2>1, <2>3, CalendarAssumption
  <1>3. k + 1 \in Months
    BY <1>2, CalendarAssumption DEF Months
  <1>4. (k + 1) \div 12 = k \div 12 /\ (k + 1) % 12 = (k % 12) + 1
    BY <1>1, <1>2
  <1>5. getDaysInMonth(k + 1) = 31
    <2>1. (k + 1) % 12 \in {2, 4, 6, 9, 11}
      BY <1>1, <1>4
    <2> QED BY <1>3, <2>1, DaysByMonth
  <1>6. d - getDaysInMonth(k) \in 1..getDaysInMonth(k + 1)
    BY <1>1, <1>5
  <1>7. Instant(k, d, m) = Instant(k + 1, d - getDaysInMonth(k), m)
    BY Overflow
  <1> QED BY <1>1, <1>3, <1>4, <1>5, <1>6, <1>7, InstantIs

\* Any day up to the 31st of a month of the calendar is in the calendar: its
\* last month is a December.
LEMMA InstantInCalendar ==
    ASSUME NEW k \in Months, NEW d \in 1..31, NEW m \in 0..(Day - 1)
    PROVE  Instant(k, d, m) \in Instants
  <1>1. getDaysInMonth(k) \in 28..31
    BY DaysByMonth
  <1>2. CASE d > getDaysInMonth(k)
    BY <1>2, OverflowIs
  <1>3. CASE d <= getDaysInMonth(k)
    <2>1. d \in 1..getDaysInMonth(k)
      BY <1>1, <1>3
    <2> QED BY <2>1, InstantIs
  <1> QED BY <1>1, <1>2, <1>3

\* Once around the loop that resets the day.
LEMMA BackIs ==
    ASSUME NEW k \in Months, NEW d \in 1..31, NEW m \in 0..(Day - 1), NEW e, NEW wrong,
           k % 12 \notin wrong,
           d > getDaysInMonth(k) => e = d - 1 /\ (k + 1) % 12 \in wrong
    PROVE  LET s == Instant(k, d, m)
           IN (IF Month(s) % 12 \in wrong THEN SetMonth(SetDate(s, e), k % 12) ELSE s)
                = Instant(k, IF d > getDaysInMonth(k) THEN d - 1 ELSE d, m)
  <1> DEFINE s == Instant(k, d, m)
  <1>1. CASE d > getDaysInMonth(k)
    <2>1. /\ k + 1 \in Months /\ getDaysInMonth(k) \in 28..30
          /\ getDaysInMonth(k + 1) = 31 /\ (k + 1) \div 12 = k \div 12
          /\ Month(s) = k + 1 /\ Minute(s) = m
      BY <1>1, OverflowIs
    <2>2. SetDate(s, e) = Instant(k + 1, d - 1, m)
      BY <1>1, <2>1 DEF SetDate
    <2>3. d - 1 \in 1..getDaysInMonth(k + 1)
      BY <1>1, <2>1
    <2>4. Month(SetDate(s, e)) = k + 1 /\ Date(SetDate(s, e)) = d - 1 /\ Minute(SetDate(s, e)) = m
      BY <2>1, <2>2, <2>3, InstantIs
    <2>5. 12 * ((k + 1) \div 12) + (k % 12) = k
      BY <2>1, DaysByMonth
    <2>6. SetMonth(SetDate(s, e), k % 12) = Instant(k, d - 1, m)
      BY <2>4, <2>5 DEF SetMonth
    <2> HIDE DEF s
    <2> QED BY <1>1, <2>1, <2>6 DEF s
  <1>2. CASE d <= getDaysInMonth(k)
    <2>1. getDaysInMonth(k) \in 28..31
      BY DaysByMonth
    <2>2. d \in 1..getDaysInMonth(k)
      BY <1>2, <2>1
    <2>3. Month(s) = k
      BY <2>2, InstantIs
    <2>4. ~(d > getDaysInMonth(k))
      BY <1>2, <2>1
    <2> HIDE DEF s
    <2> QED BY <2>3, <2>4 DEF s
  <1>3. getDaysInMonth(k) \in 28..31
    BY DaysByMonth
  <1> QED BY <1>1, <1>2, <1>3

\* The loop ends on the day it was given, or on the last day of the month.
LEMMA ResetDayIs ==
    ASSUME NEW k \in Months, NEW d \in 1..31, NEW m \in 0..(Day - 1), NEW wrong,
           k % 12 \notin wrong,
           d > getDaysInMonth(k) => (k + 1) % 12 \in wrong
    PROVE  ResetDay(Instant(k, d, m), d, k % 12, wrong)
             = Instant(k, IF d < getDaysInMonth(k) THEN d ELSE getDaysInMonth(k), m)
  <1> DEFINE n == getDaysInMonth(k)
             c1 == IF d > n THEN d - 1 ELSE d
             c2 == IF c1 > n THEN c1 - 1 ELSE c1
             c3 == IF c2 > n THEN c2 - 1 ELSE c2
             back(s, e) == IF Month(s) % 12 \in wrong THEN SetMonth(SetDate(s, e), k % 12) ELSE s
  <1>1. n \in 28..31
    BY DaysByMonth
  <1>2. back(Instant(k, d, m), d - 1) = Instant(k, c1, m)
    BY BackIs
  <1> HIDE DEF n
  <1>3. c1 \in 1..31 /\ (c1 > n => d > n /\ d - 2 = c1 - 1)
    BY <1>1
  <1>4. c2 \in 1..31 /\ (c2 > n => d > n /\ d - 3 = c2 - 1)
    BY <1>1
  <1>5. c3 = IF d < n THEN d ELSE n
    BY <1>1
  <1> HIDE DEF c1
  <1>6. back(Instant(k, c1, m), d - 2) = Instant(k, c2, m)
    BY <1>3, BackIs DEF n
  <1> HIDE DEF c2
  <1>7. back(Instant(k, c2, m), d - 3) = Instant(k, c3, m)
    BY <1>4, BackIs DEF n
  <1> HIDE DEF c3
  <1>8. ResetDay(Instant(k, d, m), d, k % 12, wrong)
          = back(back(back(Instant(k, d, m), d - 1), d - 2), d - 3)
    BY DEF ResetDay
  <1> HIDE DEF back
  <1> QED BY <1>2, <1>5, <1>6, <1>7, <1>8 DEF n

\* What moveMonth promises is an instant of the month it names.
LEMMA LaterIs ==
    ASSUME NEW t \in Instants, NEW n \in Int, Month(t) + n \in Months
    PROVE  /\ MonthsLater(t, n) \in Instants
           /\ Month(MonthsLater(t, n)) = Month(t) + n
           /\ Minute(MonthsLater(t, n)) = Minute(t)
  <1> DEFINE k == Month(t) + n
             d == IF Date(t) < getDaysInMonth(k) THEN Date(t) ELSE getDaysInMonth(k)
  <1>1. getDaysInMonth(k) \in 28..31 /\ Date(t) \in 1..getDaysInMonth(Month(t))
    BY DaysByMonth, InstantParts
  <1>2. Date(t) \in 1..31 /\ Minute(t) \in 0..(Day - 1)
    <2>1. Month(t) \in Months /\ Minute(t) \in 0..(Day - 1)
      BY InstantParts
    <2>2. getDaysInMonth(Month(t)) \in 28..31
      BY <2>1, DaysByMonth
    <2> QED BY <1>1, <2>1, <2>2
  <1>3. MonthsLater(t, n) = Instant(k, d, Minute(t))
    BY DEF MonthsLater
  <1> HIDE DEF k
  <1>4. d \in 1..getDaysInMonth(k)
    BY <1>1, <1>2
  <1> HIDE DEF d
  <1>5. k \in Months
    BY DEF k
  <1>6. /\ Instant(k, d, Minute(t)) \in Instants /\ Month(Instant(k, d, Minute(t))) = k
        /\ Minute(Instant(k, d, Minute(t))) = Minute(t)
    BY <1>2, <1>4, <1>5, InstantIs
  <1> QED BY <1>3, <1>6 DEF k

\* By one month: back from the month that the day has overflowed into.
LEMMA MoveOneMonthIs ==
    ASSUME NEW t \in Instants, NEW u \in {-1, 1}, Month(t) + u \in Months
    PROVE  MoveOneMonth(t, u) = MonthsLater(t, u)
  <1> DEFINE o == Month(t)
             k == o + u
             d == Date(t)
             m == Minute(t)
             new == ((o % 12) + u + 12) % 12
             wrong == IF u = -1 THEN {o % 12} ELSE (0..11) \ {new}
  <1>1. o \in Months /\ k \in Months /\ d \in 1..31 /\ m \in 0..(Day - 1)
    <2>1. o \in Months /\ d \in 1..getDaysInMonth(o) /\ m \in 0..(Day - 1)
      BY InstantParts
    <2>2. getDaysInMonth(o) \in 28..31
      BY <2>1, DaysByMonth
    <2> HIDE DEF d, m
    <2> QED BY <2>1, <2>2
  <1>2. /\ o \div 12 \in Nat /\ o % 12 \in 0..11 /\ o = 12 * (o \div 12) + (o % 12)
        /\ k \div 12 \in Nat /\ k % 12 \in 0..11 /\ k = 12 * (k \div 12) + (k % 12)
    BY <1>1, DaysByMonth
  <1>3. SetMonth(t, (o % 12) + u) = Instant(k, d, m)
    <2> DEFINE a == 12 * (o \div 12) + ((o % 12) + u)
    <2>1. a = k
      BY <1>2
    <2>2. SetMonth(t, (o % 12) + u) = Instant(a, d, m)
      BY DEF SetMonth
    <2> HIDE DEF a, k, d, m
    <2> QED BY <2>1, <2>2
  <1>4. MoveOneMonth(t, u) = ResetDay(SetMonth(t, (o % 12) + u), d, new, wrong)
    BY DEF MoveOneMonth
  <1>5. MonthsLater(t, u) = Instant(k, IF d < getDaysInMonth(k) THEN d ELSE getDaysInMonth(k), m)
    BY DEF MonthsLater
  <1>6. new = k % 12
    <2> DEFINE y == o \div 12
               r == o % 12
               z == k \div 12
               s == k % 12
    <2>1. y \in Nat /\ r \in 0..11 /\ z \in Nat /\ s \in 0..11 /\ 12 * y + r + u = 12 * z + s
      BY <1>2
    <2> HIDE DEF y, r, z, s
    <2>2. (r + u + 12) % 12 = s
      BY <2>1
    <2> QED BY <2>2 DEF r, s
  <1>7. (k + 1) % 12 # k % 12 /\ (k + 1) % 12 \in 0..11 /\ (u = -1 => k + 1 = o)
    BY <1>1 DEF Months
  <1> HIDE DEF new, o, k, d, m
  <1>8. k % 12 \notin wrong /\ (k + 1) % 12 \in wrong
    <2>1. CASE u = -1
      BY <1>7, <2>1
    <2>2. CASE u = 1
      BY <1>6, <1>7, <2>2
    <2> QED BY <2>1, <2>2
  <1> HIDE DEF wrong
  <1>9. ResetDay(Instant(k, d, m), d, k % 12, wrong)
          = Instant(k, IF d < getDaysInMonth(k) THEN d ELSE getDaysInMonth(k), m)
    BY <1>1, <1>8, ResetDayIs
  <1> QED BY <1>3, <1>4, <1>5, <1>6, <1>9

\* A function that moves by n months, keeping the minute.
MovesBy(f, n) == \A t \in Instants : Month(t) + n \in Months =>
    f[t] \in Instants /\ Month(f[t]) = Month(t) + n /\ Minute(f[t]) = Minute(t)

\* One move after another in the same direction, in a calendar without holes.
LEMMA MovesThen ==
    ASSUME NEW f, NEW g, NEW m \in Int, NEW n \in Int, MovesBy(f, m), MovesBy(g, n),
           (m >= 0 /\ n >= 0) \/ (m <= 0 /\ n <= 0)
    PROVE  MovesBy(Then(f, g), m + n)
  <1> SUFFICES ASSUME NEW t \in Instants, Month(t) + (m + n) \in Months
               PROVE  /\ Then(f, g)[t] \in Instants /\ Month(Then(f, g)[t]) = Month(t) + (m + n)
                      /\ Minute(Then(f, g)[t]) = Minute(t)
    BY DEF MovesBy
  <1>1. t \in Int /\ Month(t) \in Months
    BY InstantParts
  <1>2. Then(f, g)[t] = g[f[t]]
    BY <1>1 DEF Then
  <1>3. /\ Month(t) + m \in Months
        /\ (Month(t) + m) + n \in Months /\ (Month(t) + m) + n = Month(t) + (m + n)
    BY <1>1, CalendarAssumption DEF Months
  <1>4. f[t] \in Instants /\ Month(f[t]) = Month(t) + m /\ Minute(f[t]) = Minute(t)
    BY <1>3 DEF MovesBy
  <1> DEFINE a == f[t]
  <1> HIDE DEF a
  <1>5. a \in Instants /\ Month(a) + n \in Months /\ Month(a) + n = Month(t) + (m + n)
    BY <1>3, <1>4 DEF a
  <1>6. /\ g[a] \in Instants /\ Month(g[a]) = Month(a) + n /\ Minute(g[a]) = Minute(a)
    BY <1>5 DEF MovesBy
  <1> QED BY <1>2, <1>4, <1>5, <1>6 DEF a

\* The months on the way add up.
LEMMA MovesOver ==
    ASSUME NEW f, NEW n \in Int, MovesBy(f, n)
    PROVE  /\ MovesBy(Twice(f), 2 * n) /\ MovesBy(Thrice(f), 3 * n)
           /\ MovesBy(FiveTimes(f), 5 * n)
  <1>1. ASSUME NEW g, NEW k \in Int, MovesBy(g, k)
        PROVE  MovesBy(Twice(g), 2 * k)
    <2>1. MovesBy(Then(g, g), k + k)
      BY <1>1, MovesThen
    <2>2. k + k = 2 * k
      OBVIOUS
    <2> QED BY <2>1, <2>2 DEF Twice
  <1>2. MovesBy(Twice(f), 2 * n) /\ 2 * n \in Int
    BY <1>1
  <1>3. MovesBy(Twice(Twice(f)), 2 * (2 * n)) /\ 2 * (2 * n) \in Int
    BY <1>1, <1>2
  <1>4. /\ (n >= 0 /\ 2 * n >= 0 /\ 2 * (2 * n) >= 0) \/ (n <= 0 /\ 2 * n <= 0 /\ 2 * (2 * n) <= 0)
        /\ n + 2 * n = 3 * n /\ n + 2 * (2 * n) = 5 * n
    OBVIOUS
  <1>5. MovesBy(Then(f, Twice(f)), n + 2 * n)
    BY <1>2, <1>4, MovesThen
  <1>6. MovesBy(Then(f, Twice(Twice(f))), n + 2 * (2 * n))
    BY <1>3, <1>4, MovesThen
  <1> QED BY <1>2, <1>4, <1>5, <1>6 DEF Thrice, FiveTimes

\* Twelve steps of a month are a year.
LEMMA MoveTwelveIs ==
    ASSUME NEW u \in {-1, 1}
    PROVE  MovesBy(MoveTwelve(u), 12 * u)
  <1> DEFINE one == [t \in Int |-> MoveOneMonth(t, u)]
             three == Thrice(one)
             six == Twice(three)
  <1>1. Instants \subseteq Int
    BY FirstStart DEF Instants
  <1>2. MovesBy(one, u)
    BY <1>1, MoveOneMonthIs, LaterIs DEF MovesBy
  <1> HIDE DEF one
  <1>3. MovesBy(three, 3 * u) /\ 3 * u \in Int
    BY <1>2, MovesOver
  <1> HIDE DEF three
  <1>4. MovesBy(six, 2 * (3 * u)) /\ 2 * (3 * u) \in Int
    BY <1>3, MovesOver
  <1> HIDE DEF six
  <1>5. MovesBy(Twice(six), 2 * (2 * (3 * u)))
    BY <1>4, MovesOver
  <1>6. 2 * (2 * (3 * u)) = 12 * u
    OBVIOUS
  <1> QED BY <1>5, <1>6 DEF MoveTwelve, six, three, one

\* Ten of those are the ten years of the year panel's arrows.
LEMMA MoveDecadeIs ==
    ASSUME NEW u \in {-1, 1}
    PROVE  MovesBy(MoveDecade(u), 120 * u)
  <1> DEFINE year == MoveTwelve(u)
             five == FiveTimes(year)
  <1>1. MovesBy(year, 12 * u) /\ 12 * u \in Int
    BY MoveTwelveIs
  <1> HIDE DEF year
  <1>2. MovesBy(five, 5 * (12 * u)) /\ 5 * (12 * u) \in Int
    BY <1>1, MovesOver
  <1> HIDE DEF five
  <1>3. MovesBy(Twice(five), 2 * (5 * (12 * u)))
    BY <1>2, MovesOver
  <1>4. 2 * (5 * (12 * u)) = 120 * u
    OBVIOUS
  <1> QED BY <1>3, <1>4 DEF MoveDecade, five, year

\* A move keeps the day or stops at the end of the month, whether it is by one
\* month or by the months of years.
LEMMA MoveMonthIs ==
    ASSUME NEW t \in Instants, NEW n \in {-120, -12, -1, 1, 12, 120}, Month(t) + n \in Months
    PROVE  MoveMonth(t, n) = MonthsLater(t, n) /\ MoveMonth(t, n) \in Instants
  <1>1. CASE n \in {-1, 1}
    <2>1. MoveMonth(t, n) = MoveOneMonth(t, n)
      BY <1>1 DEF MoveMonth
    <2> QED BY <1>1, <2>1, MoveOneMonthIs, LaterIs
  <1>2. CASE n \in {-120, -12, 12, 120}
    <2> DEFINE u == IF n > 0 THEN 1 ELSE -1
               moved == IF n \in {-12, 12} THEN MoveTwelve(u)[t] ELSE MoveDecade(u)[t]
               k == Month(t) + n
               d == Date(t)
               m == Minute(t)
               wrong == (0..11) \ {Month(moved) % 12}
    <2>1. MoveMonth(t, n) = ResetDay(SetDate(moved, d), d, Month(moved) % 12, wrong)
      BY <1>2 DEF MoveMonth
    <2>2. Month(moved) = k /\ Minute(moved) = m
      <3>1. CASE n \in {-12, 12}
        <4>1. u \in {-1, 1} /\ n = 12 * u
          BY <3>1
        <4>2. Month(t) + 12 * u \in Months
          BY <4>1
        <4>3. moved = MoveTwelve(u)[t]
          BY <3>1
        <4> HIDE DEF u, moved
        <4>4. Month(moved) = Month(t) + 12 * u /\ Minute(moved) = m
          BY <4>1, <4>2, <4>3, MoveTwelveIs DEF MovesBy
        <4> QED BY <4>1, <4>4
      <3>2. CASE n \in {-120, 120}
        <4>1. u \in {-1, 1} /\ n = 120 * u
          BY <3>2
        <4>2. Month(t) + 120 * u \in Months
          BY <4>1
        <4>3. moved = MoveDecade(u)[t]
          BY <3>2
        <4> HIDE DEF u, moved
        <4>4. Month(moved) = Month(t) + 120 * u /\ Minute(moved) = m
          BY <4>1, <4>2, <4>3, MoveDecadeIs DEF MovesBy
        <4> QED BY <4>1, <4>4
      <3> QED BY <1>2, <3>1, <3>2
    <2>3. k \in Months /\ k \in Nat /\ k % 12 \in 0..11
      BY CalendarAssumption DEF Months
    <2>4. Date(t) \in 1..31 /\ Minute(t) \in 0..(Day - 1)
      <3>1. Month(t) \in Months /\ Date(t) \in 1..getDaysInMonth(Month(t)) /\ Minute(t) \in 0..(Day - 1)
        BY InstantParts
      <3>2. getDaysInMonth(Month(t)) \in 28..31
        BY <3>1, DaysByMonth
      <3> QED BY <3>1, <3>2
    <2>5. SetDate(moved, d) = Instant(k, d, m)
      BY <2>2 DEF SetDate
    <2>6. k % 12 \notin wrong /\ (k + 1) % 12 \in wrong
      BY <2>2, <2>3
    <2>7. MoveMonth(t, n) = ResetDay(Instant(k, d, m), d, k % 12, wrong)
      BY <2>1, <2>2, <2>5
    <2> HIDE DEF wrong, moved, u
    <2>8. ResetDay(Instant(k, d, m), d, k % 12, wrong)
            = Instant(k, IF d < getDaysInMonth(k) THEN d ELSE getDaysInMonth(k), m)
      <3> HIDE DEF k, d, m
      <3>1. d \in 1..31 /\ m \in 0..(Day - 1)
        BY <2>4 DEF d, m
      <3> QED BY <2>3, <2>6, <3>1, ResetDayIs
    <2>9. MonthsLater(t, n) = Instant(k, IF d < getDaysInMonth(k) THEN d ELSE getDaysInMonth(k), m)
      BY DEF MonthsLater
    <2> QED BY <2>7, <2>8, <2>9, LaterIs
  <1> QED BY <1>1, <1>2

\* A step back out of the overflow, in the setter of the month.
LEMMA StepBackIs ==
    ASSUME NEW k \in Months, NEW d \in 1..31, NEW m \in 0..(Day - 1)
    PROVE  LET s == Instant(k, d, m)
           IN (IF Month(s) % 12 # k % 12 THEN SetDate(s, Date(s) - 1) ELSE s)
                = Instant(k, IF d > getDaysInMonth(k) THEN d - 1 ELSE d, m)
  <1> DEFINE s == Instant(k, d, m)
  <1>0. getDaysInMonth(k) \in 28..31
    BY DaysByMonth
  <1>1. CASE d > getDaysInMonth(k)
    <2>1. /\ k + 1 \in Months /\ (k + 1) % 12 = (k % 12) + 1
          /\ Month(s) = k + 1 /\ Date(s) = d - getDaysInMonth(k) /\ Minute(s) = m
      BY <1>1, OverflowIs
    <2>2. k % 12 \in 0..11
      BY DaysByMonth
    <2> HIDE DEF s
    <2>3. SetDate(s, Date(s) - 1) = Instant(k + 1, d - getDaysInMonth(k) - 1, m)
      BY <2>1 DEF SetDate
    <2>4. Instant(k, d - 1, m) = Instant(k + 1, (d - 1) - getDaysInMonth(k), m)
      BY Overflow DEF Day
    <2>5. (d - 1) - getDaysInMonth(k) = d - getDaysInMonth(k) - 1
      BY <1>0
    <2>6. Month(s) % 12 # k % 12
      BY <2>1, <2>2
    <2>7. (IF Month(s) % 12 # k % 12 THEN SetDate(s, Date(s) - 1) ELSE s) = Instant(k, d - 1, m)
      BY <2>3, <2>4, <2>5, <2>6
    <2> QED BY <1>1, <2>7 DEF s
  <1>2. CASE d <= getDaysInMonth(k)
    <2>1. d \in 1..getDaysInMonth(k) /\ ~(d > getDaysInMonth(k))
      BY <1>0, <1>2
    <2>2. Month(s) = k
      BY <2>1, InstantIs
    <2> HIDE DEF s
    <2> QED BY <2>1, <2>2 DEF s
  <1> QED BY <1>0, <1>1, <1>2

\* A text is read as the instant of its parts, which may be in the month after.
LEMMA ParseDateIs ==
    ASSUME NEW text \in Parsed
    PROVE  /\ ParseDate(text) = Instant(text.month, text.day, text.minute)
           /\ ParseDate(text) \in Instants
  <1> DEFINE k == text.month
             d == text.day
             m == text.minute
             n == getDaysInMonth(k)
             dec == 12 * (k \div 12) + 11
             dec31 == Instant(dec, 31, m)
             back(s) == IF Month(s) % 12 # k % 12 THEN SetDate(s, Date(s) - 1) ELSE s
             c1 == IF 31 > n THEN 31 - 1 ELSE 31
             c2 == IF c1 > n THEN c1 - 1 ELSE c1
             c3 == IF c2 > n THEN c2 - 1 ELSE c2
  <1>1. k \in Months /\ d \in 1..31 /\ m \in 0..(Day - 1)
    BY DEF Parsed
  <1>2. ParseDate(text) = SetDate(back(back(back(SetMonth(dec31, k % 12)))), d)
    BY DEF ParseDate
  <1> HIDE DEF k, d, m
  <1>3. /\ k \div 12 \in Nat /\ k % 12 \in 0..11 /\ k = 12 * (k \div 12) + (k % 12)
        /\ n \in 28..31
    BY <1>1, DaysByMonth
  <1>4. dec \in Months /\ dec \div 12 = k \div 12 /\ dec % 12 = 11
    <2> DEFINE y == k \div 12
               r == k % 12
    <2>1. y \in Nat /\ r \in 0..11 /\ k = 12 * y + r
      BY <1>3
    <2>2. k \in 0..(12 * Years - 1)
      BY <1>1 DEF Months
    <2> HIDE DEF y, r
    <2>3. 12 * y + 11 \in 0..(12 * Years - 1)
      BY <2>1, <2>2, CalendarAssumption
    <2>4. (12 * y + 11) \div 12 = y /\ (12 * y + 11) % 12 = 11
      BY <2>1
    <2> QED BY <2>3, <2>4 DEF Months, y
  <1> HIDE DEF n
  <1>5. getDaysInMonth(dec) = 31
    BY <1>4, DaysByMonth
  <1> HIDE DEF dec
  <1>6. Month(dec31) = dec /\ Date(dec31) = 31 /\ Minute(dec31) = m
    <2>1. 31 \in 1..getDaysInMonth(dec)
      BY <1>5
    <2> QED BY <1>1, <1>4, <2>1, InstantIs
  <1> HIDE DEF dec31
  <1>7. SetMonth(dec31, k % 12) = Instant(k, 31, m)
    <2>1. 12 * (dec \div 12) + (k % 12) = k
      BY <1>3, <1>4
    <2> QED BY <1>6, <2>1 DEF SetMonth
  <1>8. back(Instant(k, 31, m)) = Instant(k, c1, m)
    <2>1. 31 \in 1..31
      OBVIOUS
    <2> QED BY <1>1, <2>1, StepBackIs DEF n
  <1>9. c1 \in 1..31 /\ c2 \in 1..31 /\ c3 \in 1..n
    BY <1>3
  <1> HIDE DEF c1
  <1>10. back(Instant(k, c1, m)) = Instant(k, c2, m)
    BY <1>1, <1>9, StepBackIs DEF n
  <1> HIDE DEF c2
  <1>11. back(Instant(k, c2, m)) = Instant(k, c3, m)
    BY <1>1, <1>9, StepBackIs DEF n
  <1> HIDE DEF c3, back
  <1>12. ParseDate(text) = SetDate(Instant(k, c3, m), d)
    BY <1>2, <1>7, <1>8, <1>10, <1>11
  <1>13. Month(Instant(k, c3, m)) = k /\ Minute(Instant(k, c3, m)) = m
    BY <1>1, <1>9, InstantIs DEF n
  <1>14. ParseDate(text) = Instant(k, d, m)
    BY <1>12, <1>13 DEF SetDate
  <1> QED BY <1>1, <1>14, InstantInCalendar DEF k, d, m

-------------------------------------------------------------------------------
\* The panel is never stale: a record is drawn as it is, method by method.
Fields == {"date", "viewDate", "start", "end", "shared", "viewMode", "visible",
           "input", "data", "drawn", "arrows", "picked", "dragged"}

\* A record with the fields of the widget.
IsPicker(q) == q = [f \in Fields |-> q[f]]

Current(q) == q.date # Null => q.drawn = Drawing(q)

\* Inductive: it is about the record, so that it passes from method to method.
Fresh(q) == IsPicker(q) /\ Current(q)

\* What a method must keep for the cells that are drawn to stay current.
SameView(q, r) == /\ r.date = q.date /\ r.viewDate = q.viewDate
                  /\ r.start = q.start /\ r.end = q.end /\ r.drawn = q.drawn

-------------------------------------------------------------------------------
\* A record that is a picker and has the view of a fresh one is fresh.
LEMMA SameViewFresh ==
    ASSUME NEW q, Fresh(q), NEW r, IsPicker(r), SameView(q, r)
    PROVE  Fresh(r)
  BY DEF Fresh, Current, SameView, Drawing

\* updateNavArrows changes the arrows and nothing of the view.
LEMMA ArrowsKeep ==
    ASSUME NEW q, IsPicker(q)
    PROVE  IsPicker(UpdateNavArrows(q)) /\ SameView(q, UpdateNavArrows(q))
  <1> DEFINE arrows == UpdateNavArrows(q).arrows
  <1>1. UpdateNavArrows(q) = [q EXCEPT !.arrows = arrows]
    BY DEF UpdateNavArrows, IsPicker, Fields
  <1> HIDE DEF arrows
  <1> QED BY <1>1 DEF IsPicker, SameView, Fields

\* fill draws what there is to draw, or there is no date.
LEMMA FillFresh ==
    ASSUME NEW q, IsPicker(q)
    PROVE  Fresh(Fill(q))
  <1>1. CASE q.date = Null
    BY <1>1 DEF Fill, Fresh, Current
  <1>2. CASE q.date # Null
    <2> DEFINE n == UpdateNavArrows(q)
    <2>1. IsPicker(n) /\ SameView(q, n)
      BY ArrowsKeep
    <2>2. Fill(q) = [n EXCEPT !.drawn = Drawing(q)]
      BY <1>2 DEF Fill
    <2> HIDE DEF n
    <2> QED BY <2>1, <2>2 DEF IsPicker, Fields, SameView, Fresh, Current, Drawing
  <1> QED BY <1>1, <1>2

\* showMode changes the mode and the arrows.
LEMMA ShowModeKeeps ==
    ASSUME NEW q, IsPicker(q), NEW dir
    PROVE  IsPicker(ShowMode(q, dir)) /\ SameView(q, ShowMode(q, dir))
  <1> DEFINE asked == q.viewMode + dir
             mode == IF asked < 0 THEN 0 ELSE IF asked > 4 THEN 4 ELSE asked
             m == IF dir # 0 /\ mode >= options.minView THEN [q EXCEPT !.viewMode = mode] ELSE q
  <1>1. ShowMode(q, dir) = UpdateNavArrows(m)
    BY DEF ShowMode
  <1> HIDE DEF mode
  <1>2. IsPicker(m) /\ SameView(q, m)
    BY DEF IsPicker, Fields, SameView
  <1> HIDE DEF m
  <1> QED BY <1>1, <1>2, ArrowsKeep DEF SameView

\* setValue changes the texts and nothing of the view.
LEMMA SetValueKeeps ==
    ASSUME NEW q, IsPicker(q)
    PROVE  IsPicker(SetValue(q)) /\ SameView(q, SetValue(q))
  <1> DEFINE text == IF q.date = Null THEN Empty ELSE FormatDate(q.date, options.unit)
  <1>1. SetValue(q) = [q EXCEPT !.input = text, !.data = text]
    BY DEF SetValue
  <1> HIDE DEF text
  <1> QED BY <1>1 DEF IsPicker, Fields, SameView

\* hide goes back to the view it starts in and writes the text.
LEMMA HideFresh ==
    ASSUME NEW q, Fresh(q)
    PROVE  Fresh(Hide(q))
  <1> DEFINE start == [q EXCEPT !.viewMode = options.startView]
             closed == ShowMode(start, 0)
             done == IF q.input # Empty THEN SetValue(closed) ELSE closed
  <1>1. IsPicker(start) /\ SameView(q, start)
    BY DEF Fresh, IsPicker, Fields, SameView
  <1>2. Fresh(start)
    BY <1>1, SameViewFresh
  <1>3. Fresh(closed)
    BY <1>2, ShowModeKeeps, SameViewFresh DEF Fresh
  <1>4. Fresh(done)
    <2> HIDE DEF closed
    <2> QED BY <1>3, SetValueKeeps, SameViewFresh DEF Fresh
  <1>5. Hide(q) = IF ~q.visible THEN q ELSE [done EXCEPT !.visible = FALSE]
    BY DEF Hide
  <1> HIDE DEF done
  <1>6. IsPicker([done EXCEPT !.visible = FALSE]) /\ SameView(done, [done EXCEPT !.visible = FALSE])
    BY <1>4 DEF Fresh, IsPicker, Fields, SameView
  <1> QED BY <1>4, <1>5, <1>6, SameViewFresh

\* update ends in fill.
LEMMA UpdateFresh ==
    ASSUME NEW q, IsPicker(q)
    PROVE  Fresh(Update(q))
  <1> DEFINE date == IF q.input # Empty THEN ParseDate(q.input)
                     ELSE IF q.data # Empty THEN ParseDate(q.data) ELSE Now
             view == IF date < q.start THEN q.start ELSE IF date > q.end THEN q.end ELSE date
             r == [q EXCEPT !.date = date, !.viewDate = view, !.shared = {}]
  <1>1. Update(q) = Fill(r)
    BY DEF Update
  <1> HIDE DEF view, date
  <1>2. IsPicker(r)
    BY DEF IsPicker, Fields
  <1> HIDE DEF r
  <1> QED BY <1>1, <1>2, FillFresh

\* _setDate fills before it writes the text, which is not part of the view.
LEMMA SetPickerDateFresh ==
    ASSUME NEW q, IsPicker(q), NEW date, NEW limit
    PROVE  Fresh(SetPickerDate(q, date, limit))
  <1> DEFINE r == [q EXCEPT !.date = date, !.viewDate = date, !.shared = {"date"} \cup limit]
  <1>1. SetPickerDate(q, date, limit) = SetValue(Fill(r))
    BY DEF SetPickerDate
  <1>2. IsPicker(r)
    BY DEF IsPicker, Fields
  <1> HIDE DEF r
  <1> QED BY <1>1, <1>2, FillFresh, SetValueKeeps, SameViewFresh DEF Fresh

\* The end of a click fills after all it has changed.
LEMMA StepDownFresh ==
    ASSUME NEW q, IsPicker(q)
    PROVE  Fresh(StepDown(q))
  <1> DEFINE down == IF q.viewMode = 0 THEN Fill(q) ELSE Fill(ShowMode(q, -1))
  <1>1. Fresh(down)
    BY FillFresh, ShowModeKeeps
  <1>2. StepDown(q) = IF options.autoclose /\ down.viewMode = q.viewMode THEN Hide(down) ELSE down
    BY DEF StepDown
  <1> HIDE DEF down
  <1> QED BY <1>1, <1>2, HideFresh

\* A picked cell ends in a fill, whatever the cell was.
LEMMA PickCellFresh ==
    ASSUME NEW q, IsPicker(q), NEW mode, NEW t, NEW s
    PROVE  Fresh(PickCell(q, mode, t, s))
  <1> DEFINE moved == Mutate(q, t)
             picked == SetPickerDate(moved, s, {})
             p1 == IF q.drawn = Drawing(q) THEN mode ELSE NotChosen
             d1 == picked.dragged \/ Drags(q, t, {"start", "end"})
             d2 == moved.dragged \/ Drags(q, t, {"date", "start", "end"})
             r == IF options.viewSelect >= mode
                  THEN [picked EXCEPT !.picked = p1, !.dragged = d1]
                  ELSE [moved EXCEPT !.dragged = d2]
  <1>1. IsPicker(moved)
    BY DEF Mutate, IsPicker, Fields
  <1>2. IsPicker(picked)
    BY <1>1, SetPickerDateFresh DEF Fresh
  <1>3. PickCell(q, mode, t, s) = StepDown(r)
    <2> HIDE DEF moved, picked
    <2>1. options.viewSelect >= mode =>
            [picked EXCEPT !.picked = p1, !.dragged = @ \/ Drags(q, t, {"start", "end"})]
              = [picked EXCEPT !.picked = p1, !.dragged = d1]
      BY <1>2 DEF IsPicker, Fields
    <2> QED BY DEF PickCell, moved, picked
  <1> HIDE DEF moved, picked, p1, d1, d2
  <1>4. IsPicker(r)
    BY <1>1, <1>2 DEF IsPicker, Fields
  <1> HIDE DEF r
  <1> QED BY <1>3, <1>4, StepDownFresh
-------------------------------------------------------------------------------
\* The constructor ends in update and showMode.
LEMMA InitFresh ==
    ASSUME Init
    PROVE  Fresh(picker)
  <1>1. PICK text \in Texts \cup {Empty}, start \in Starts, end \in Ends :
          picker = ShowMode(Update(
                  [date |-> Null, viewDate |-> Now, start |-> start, end |-> end,
                   shared |-> {}, viewMode |-> options.startView, visible |-> FALSE,
                   input |-> text, data |-> Empty,
                   drawn |-> [view |-> Now, start |-> start, end |-> end],
                   arrows |-> [prev |-> TRUE, next |-> TRUE],
                   picked |-> NotChosen, dragged |-> FALSE]), 0)
    BY DEF Init
  <1> DEFINE r == [date |-> Null, viewDate |-> Now, start |-> start, end |-> end,
                   shared |-> {}, viewMode |-> options.startView, visible |-> FALSE,
                   input |-> text, data |-> Empty,
                   drawn |-> [view |-> Now, start |-> start, end |-> end],
                   arrows |-> [prev |-> TRUE, next |-> TRUE],
                   picked |-> NotChosen, dragged |-> FALSE]
  <1>2. IsPicker(r)
    BY DEF IsPicker, Fields
  <1>3. picker = ShowMode(Update(r), 0)
    BY <1>1
  <1> HIDE DEF r
  <1>4. Fresh(Update(r))
    BY <1>2, UpdateFresh
  <1> QED BY <1>3, <1>4, ShowModeKeeps, SameViewFresh DEF Fresh

\* What the page and the user call: each ends in update, in fill or in hide.
LEMMA CallsFresh ==
    ASSUME Fresh(picker), Calls
    PROVE  Fresh(picker')
  <1> USE DEF Becomes
  <1> IsPicker(picker)
    BY DEF Fresh
  <1>1. ASSUME NEW text, Type(text) PROVE Fresh(picker')
    <2> DEFINE r == [picker EXCEPT !.input = text, !.picked = NotChosen]
    <2>1. IsPicker(r)
      BY DEF IsPicker, Fields
    <2> QED BY <1>1, <2>1, UpdateFresh DEF Type
  <1>2. ASSUME NEW start, SetStartDate(start) PROVE Fresh(picker')
    <2> DEFINE r == [picker EXCEPT !.start = start, !.shared = @ \ {"start"}, !.picked = NotChosen]
    <2>1. IsPicker(r)
      BY DEF IsPicker, Fields
    <2>2. picker' = UpdateNavArrows(Update(r))
      BY <1>2 DEF SetStartDate
    <2> HIDE DEF r
    <2> QED BY <2>1, <2>2, UpdateFresh, ArrowsKeep, SameViewFresh DEF Fresh
  <1>3. ASSUME NEW end, SetEndDate(end) PROVE Fresh(picker')
    <2> DEFINE r == [picker EXCEPT !.end = end, !.shared = @ \ {"end"}, !.picked = NotChosen]
    <2>1. IsPicker(r)
      BY DEF IsPicker, Fields
    <2>2. picker' = UpdateNavArrows(Update(r))
      BY <1>3 DEF SetEndDate
    <2> HIDE DEF r
    <2> QED BY <2>1, <2>2, UpdateFresh, ArrowsKeep, SameViewFresh DEF Fresh
  <1>4. ASSUME NEW t, SetUTCDate(t) PROVE Fresh(picker')
    <2> DEFINE r == [picker EXCEPT !.date = t, !.picked = 0]
               set == SetValue(r)
               moved == [set EXCEPT !.viewDate = t, !.shared = {"date"}]
    <2>1. IsPicker(r)
      BY DEF IsPicker, Fields
    <2>2. IsPicker(set)
      BY <2>1, SetValueKeeps
    <2>3. picker' = Fill(moved)
      BY <1>4 DEF SetUTCDate
    <2> HIDE DEF set
    <2>4. IsPicker(moved)
      BY <2>2 DEF IsPicker, Fields
    <2> HIDE DEF moved
    <2> QED BY <2>3, <2>4, FillFresh
  <1>5. ASSUME Reset PROVE Fresh(picker')
    <2> DEFINE r == [picker EXCEPT !.date = Null, !.shared = @ \ {"date"}, !.picked = NotChosen]
    <2>1. IsPicker(r)
      BY DEF IsPicker, Fields
    <2>2. picker' = SetValue(Fill(r))
      BY <1>5 DEF Reset
    <2> HIDE DEF r
    <2> QED BY <2>1, <2>2, FillFresh, SetValueKeeps, SameViewFresh DEF Fresh
  <1>6. ASSUME OnShow PROVE Fresh(picker')
    <2> DEFINE r == Update(picker)
               s == [r EXCEPT !.visible = TRUE]
    <2>1. Fresh(r)
      BY UpdateFresh
    <2>2. picker' = s
      BY <1>6 DEF OnShow, Show
    <2> HIDE DEF r
    <2>3. IsPicker(s) /\ SameView(r, s)
      BY <2>1 DEF Fresh, IsPicker, Fields, SameView
    <2> HIDE DEF s
    <2> QED BY <2>1, <2>2, <2>3, SameViewFresh
  <1>7. ASSUME OnHide PROVE Fresh(picker')
    BY <1>7, HideFresh DEF OnHide
  <1> QED BY <1>1, <1>2, <1>3, <1>4, <1>5, <1>6, <1>7 DEF Calls

\* The cells, whatever the instant they stand for.
LEMMA PickFresh ==
    ASSUME Fresh(picker), NEW mode, NEW t, NEW s, Pick(mode, t, s)
    PROVE  Fresh(picker')
  BY PickCellFresh DEF Pick, Becomes, Fresh

\* Every click keeps the panel current.
LEMMA ClicksFresh ==
    ASSUME Fresh(picker), Clicks
    PROVE  Fresh(picker')
  <1> IsPicker(picker)
    BY DEF Fresh
  <1>1. ASSUME ClickSwitch PROVE Fresh(picker')
    BY <1>1, ShowModeKeeps, SameViewFresh DEF ClickSwitch, Becomes
  <1>2. ASSUME ClickToday PROVE Fresh(picker')
    <2> DEFINE low == Now < picker.start
               high == ~low /\ Now > picker.end
               date == IF low THEN picker.start ELSE IF high THEN picker.end ELSE Now
               same == IF low THEN {"start"} ELSE IF high THEN {"end"} ELSE {}
               start == [picker EXCEPT !.viewMode = options.startView]
               home == ShowMode(start, 0)
               day == SetPickerDate(home, date, same)
               picked == [day EXCEPT !.picked = 0]
               set == Fill(picked)
    <2>1. IsPicker(start)
      BY DEF IsPicker, Fields
    <2>2. IsPicker(home)
      BY <2>1, ShowModeKeeps
    <2>3. picker' = IF options.autoclose THEN Hide(set) ELSE set
      BY <1>2 DEF ClickToday, Becomes
    <2> HIDE DEF home, date, same
    <2>4. IsPicker(day)
      BY <2>2, SetPickerDateFresh DEF Fresh
    <2> HIDE DEF day
    <2>5. IsPicker(picked)
      BY <2>4 DEF IsPicker, Fields
    <2> HIDE DEF picked
    <2>6. Fresh(set)
      BY <2>5, FillFresh
    <2> HIDE DEF set
    <2> QED BY <2>3, <2>6, HideFresh
  <1>3. ASSUME NEW dir, ClickArrow(dir) PROVE Fresh(picker')
    <2> DEFINE r == [picker EXCEPT !.viewDate = Navigate(@, picker.viewMode, dir), !.shared = {}]
    <2>1. IsPicker(r)
      BY DEF IsPicker, Fields
    <2> QED BY <1>3, <2>1, FillFresh DEF ClickArrow, Becomes
  <1>4. ASSUME NEW m, ClickMonth(m) PROVE Fresh(picker')
    BY <1>4, PickFresh DEF ClickMonth, PickOne
  <1>5. ASSUME NEW year, ClickYear(year) PROVE Fresh(picker')
    BY <1>5, PickFresh DEF ClickYear
  <1>6. ASSUME NEW h, ClickHour(h) PROVE Fresh(picker')
    BY <1>6, PickFresh DEF ClickHour, PickOne
  <1>7. ASSUME NEW i, ClickMinute(i) PROVE Fresh(picker')
    BY <1>7, PickFresh DEF ClickMinute, PickOne
  <1>8. ASSUME NEW c, ClickDay(c) PROVE Fresh(picker')
    BY <1>8, PickFresh DEF ClickDay, PickOne
  <1> QED BY <1>1, <1>2, <1>3, <1>4, <1>5, <1>6, <1>7, <1>8 DEF Clicks

\* So do the keys, which fill after they have computed the date.
LEMMA KeysFresh ==
    ASSUME Fresh(picker), Keys
    PROVE  Fresh(picker')
  <1> IsPicker(picker)
    BY DEF Fresh
  <1>1. ASSUME NEW dir, NEW vertical, NEW up, Key(dir, vertical, up) PROVE Fresh(picker')
    <2> DEFINE date == KeyMoved(picker.date, picker.viewMode + up, dir, vertical)
               r == [picker EXCEPT !.date = date, !.picked = 0]
    <2>1. IsPicker(r)
      BY DEF IsPicker, Fields
    <2>2. picker' = Update(SetValue(r))
      BY <1>1 DEF Key, Becomes
    <2> HIDE DEF r
    <2> QED BY <2>1, <2>2, SetValueKeeps, UpdateFresh
  <1>2. ASSUME Enter PROVE Fresh(picker')
    BY <1>2, StepDownFresh DEF Enter, Becomes
  <1> QED BY <1>1, <1>2 DEF Keys

-------------------------------------------------------------------------------
\* While there is a date, the cells on the screen are those of viewDate and of
\* the limits in force: every handler that changes one of them ends in fill
\* (lines 354 to 544 and 848 to 1057), for every calendar, option and text.
THEOREM PanelNeverStale == Spec => []DrawnIsCurrent
  <1>1. Init => Fresh(picker)
    BY InitFresh
  <1>2. Fresh(picker) /\ [Next]_vars => Fresh(picker')
    <2> SUFFICES ASSUME Fresh(picker), [Next]_vars PROVE Fresh(picker')
      OBVIOUS
    <2>1. CASE Next
      BY <2>1, CallsFresh, ClicksFresh, KeysFresh DEF Next
    <2>2. CASE UNCHANGED vars
      BY <2>2 DEF vars
    <2> QED BY <2>1, <2>2
  <1>3. Fresh(picker) => DrawnIsCurrent
    BY DEF Fresh, Current, DrawnIsCurrent
  <1>4. Fresh(picker)' <=> Fresh(picker')
    BY DEF Fresh, IsPicker, Current, Drawing
  <1> QED BY <1>1, <1>2, <1>3, <1>4, PTL DEF Spec

-------------------------------------------------------------------------------
\* A text is read back as the instant it was written from, less what the
\* format does not show; written again it is the same text.
LEMMA FormatIs ==
    ASSUME NEW t \in Instants, NEW unit \in {1, 60, Day}
    PROVE  /\ FormatDate(t, unit) \in Parsed
           /\ ParseDate(FormatDate(t, unit)) \in Instants
           /\ ParseDate(FormatDate(t, unit)) = t - (t % unit)
           /\ FormatDate(ParseDate(FormatDate(t, unit)), unit) = FormatDate(t, unit)
           /\ unit = 1 => ParseDate(FormatDate(t, unit)) = t
  <1> DEFINE k == Month(t)
             d == Date(t)
             m == Minute(t)
             f == (m \div unit) * unit
             s == Instant(k, d, f)
  <1>1. /\ k \in Months /\ d \in 1..getDaysInMonth(k) /\ m \in 0..(Day - 1)
        /\ t \in Nat /\ t = (t \div Day) * Day + m
        /\ t \div Day = MonthStart(k) + d - 1
    BY InstantParts
  <1>2. getDaysInMonth(k) \in 28..31
    BY <1>1, DaysByMonth
  <1>3. f \in 0..(Day - 1) /\ f = m - (m % unit) /\ (f \div unit) * unit = f /\ (unit = 1 => f = m)
    <2> HIDE DEF m
    <2>1. CASE unit = 1
      BY <1>1, <2>1 DEF Day
    <2>2. CASE unit = 60
      BY <1>1, <2>2 DEF Day
    <2>3. CASE unit = Day
      BY <1>1, <2>3 DEF Day
    <2> QED BY <2>1, <2>2, <2>3
  <1>4. FormatDate(t, unit) = [month |-> k, day |-> d, minute |-> f]
    BY DEF FormatDate
  <1>5. t % unit = m % unit /\ m % unit \in Nat
    <2> DEFINE y == t \div Day
    <2>1. y \in Nat /\ t = y * Day + m
      BY <1>1 DEF Day
    <2> HIDE DEF y, m
    <2>2. CASE unit = 1
      BY <1>1, <2>1, <2>2 DEF Day
    <2>3. CASE unit = 60
      BY <1>1, <2>1, <2>3 DEF Day
    <2>4. CASE unit = Day
      BY <1>1, <2>1, <2>4 DEF Day
    <2> QED BY <2>2, <2>3, <2>4
  <1> HIDE DEF f
  <1>6. d \in 1..31
    BY <1>1, <1>2
  <1>7. FormatDate(t, unit) \in Parsed
    <2> HIDE DEF k, d
    <2> QED BY <1>1, <1>3, <1>4, <1>6 DEF Parsed
  <1>8. ParseDate(FormatDate(t, unit)) = s /\ s \in Instants
    <2> HIDE DEF s, k, d
    <2>1. ParseDate([month |-> k, day |-> d, minute |-> f]) = Instant(k, d, f)
      BY <1>4, <1>7, ParseDateIs
    <2>2. ParseDate(FormatDate(t, unit)) \in Instants
      BY <1>7, ParseDateIs
    <2> QED BY <1>4, <2>1, <2>2 DEF s
  <1>9. Month(s) = k /\ Date(s) = d /\ Minute(s) = f
    <2> HIDE DEF k, d
    <2> QED BY <1>1, <1>3, InstantIs
  <1>10. s = t - (t % unit)
    <2> HIDE DEF k, d, m
    <2>1. s = (MonthStart(k) + d - 1) * Day + f
      BY DEF Instant
    <2>2. t = (MonthStart(k) + d - 1) * Day + m /\ MonthStart(k) \in Nat
      BY <1>1, StartIs
    <2> HIDE DEF s
    <2> DEFINE w == (MonthStart(k) + d - 1) * Day
               r == m % unit
    <2>3. w \in Int /\ s = w + f /\ t = w + m /\ f = m - r /\ t % unit = r /\ r \in Nat
      BY <1>1, <1>3, <1>5, <1>6, <2>1, <2>2 DEF Day
    <2>4. m \in Int
      BY <1>1 DEF Day
    <2> HIDE DEF w, r
    <2> QED BY <2>3, <2>4
  <1>11. FormatDate(s, unit) = [month |-> k, day |-> d, minute |-> f]
    <2> HIDE DEF k, d, s
    <2> QED BY <1>3, <1>9 DEF FormatDate
  <1>12. unit = 1 => s = t
    <2>1. t % 1 = 0
      BY <1>1
    <2> HIDE DEF s
    <2> QED BY <1>1, <1>10, <2>1
  <1> HIDE DEF s
  <1> QED BY <1>4, <1>7, <1>8, <1>10, <1>11, <1>12

\* The grid starts in the week before the first of the month: its cells are
\* days of the month or of a neighbour.
LEMMA CellIs ==
    ASSUME NEW t \in Instants, NEW c \in 1..42,
           Month(t) - 1 \in Months, Month(t) + 1 \in Months
    PROVE  LET cell == (GridStart(t) + c - 1) * Day
           IN /\ cell \in Instants
              /\ Month(cell) \in {Month(t) - 1, Month(t), Month(t) + 1}
  <1> DEFINE k == Month(t)
             last == MonthStart(k) - 1
             back == (last + FirstWeekday) % 7
             day == last - back + c - 1
             cell == day * Day
  <1>1. k \in Months /\ k \in Nat /\ k - 1 \in Months /\ k + 1 \in Months /\ (k - 1) + 1 = k
        /\ (k + 1) + 1 \in 0..(12 * Years)
    BY InstantParts, CalendarAssumption DEF Months
  <1>2. GridStart(t) = last - back
    BY DEF GridStart
  <1> HIDE DEF k
  <1>3. /\ MonthStart(k - 1) \in Nat /\ MonthStart(k) \in Nat /\ MonthStart(k + 1) \in Nat
        /\ MonthStart((k + 1) + 1) \in Nat
        /\ MonthStart(k) = MonthStart(k - 1) + getDaysInMonth(k - 1)
        /\ MonthStart(k + 1) = MonthStart(k) + getDaysInMonth(k)
        /\ MonthStart((k + 1) + 1) = MonthStart(k + 1) + getDaysInMonth(k + 1)
        /\ getDaysInMonth(k - 1) \in 28..31 /\ getDaysInMonth(k) \in 28..31
        /\ getDaysInMonth(k + 1) \in 28..31
    <2>1. \A i \in Months : /\ MonthStart(i) \in Nat /\ getDaysInMonth(i) \in 28..31
                            /\ MonthStart(i + 1) = MonthStart(i) + getDaysInMonth(i)
      BY StartIs
    <2>2. MonthStart((k - 1) + 1) = MonthStart(k)
      BY <1>1
    <2>3. MonthStart((k + 1) + 1) \in Nat
      BY <1>1, <2>1
    <2> QED BY <1>1, <2>1, <2>2, <2>3
  <1>4. last \in Nat /\ back \in 0..6
    <2>1. last \in Nat
      BY <1>3
    <2> HIDE DEF last
    <2> QED BY <2>1, CalendarAssumption
  <1> HIDE DEF back
  <1>5. day \in Nat /\ MonthStart(k - 1) <= day /\ day < MonthStart((k + 1) + 1)
    BY <1>3, <1>4
  <1> HIDE DEF last, day
  <1>6. cell \in Nat /\ cell \div Day = day
    BY <1>5 DEF Day
  <1>7. cell \in Instants
    <2>1. MonthStart((k + 1) + 1) <= MonthStart(12 * Years)
      <3>1. (k + 1) + 1 = 12 * Years \/ (k + 1) + 1 < 12 * Years
        BY <1>1, CalendarAssumption
      <3>2. 12 * Years \in 0..(12 * Years)
        BY CalendarAssumption
      <3> QED BY <1>1, <1>3, <3>1, <3>2, StartsApart
    <2>2. day < MonthStart(12 * Years) /\ MonthStart(12 * Years) \in Nat
      BY <1>3, <1>5, <2>1, FirstStart
    <2> QED BY <1>5, <2>2 DEF Instants, Day
  <1>8. Month(cell) \in {k - 1, k, k + 1}
    <2>1. cell \in Int
      BY <1>6
    <2> HIDE DEF cell
    <2>2. CASE day < MonthStart(k)
      BY <1>1, <1>5, <1>6, <2>1, <2>2, MonthOfDay
    <2>3. CASE MonthStart(k) <= day /\ day < MonthStart(k + 1)
      BY <1>1, <1>5, <1>6, <2>1, <2>3, MonthOfDay
    <2>4. CASE MonthStart(k + 1) <= day
      BY <1>1, <1>5, <1>6, <2>1, <2>4, MonthOfDay
    <2> QED BY <1>3, <1>5, <2>2, <2>3, <2>4
  <1>9. (GridStart(t) + c - 1) * Day = cell
    BY <1>2 DEF day
  <1> HIDE DEF cell
  <1> QED BY <1>7, <1>8, <1>9 DEF k

\* A click on a cell picks the day that the cell shows.
LEMMA DayPickedIs ==
    ASSUME NEW t \in Instants, NEW c \in 1..42,
           Month(t) - 1 \in Months, Month(t) + 1 \in Months
    PROVE  /\ DayPicked(t, t, c) = (GridStart(t) + c - 1) * Day + Minute(t)
           /\ (GridStart(t) + c - 1) * Day \in Instants
  <1> DEFINE cell == (GridStart(t) + c - 1) * Day
             k == Month(t)
             by == IF Month(cell) < k THEN -1 ELSE IF Month(cell) > k THEN 1 ELSE 0
  <1>1. cell \in Instants /\ Month(cell) \in {k - 1, k, k + 1} /\ k \in Months /\ k \in Int
    BY CellIs, InstantParts DEF Months
  <1>2. DayPicked(t, t, c) = Instant(k + by, Date(cell), Minute(t))
    BY DEF DayPicked
  <1>3. GridStart(t) + c - 1 \in Int
    <2>1. MonthStart(k) \in Nat
      BY <1>1, StartIs
    <2> QED BY <2>1, CalendarAssumption DEF GridStart
  <1> DEFINE day == GridStart(t) + c - 1
  <1> HIDE DEF day
  <1>4. cell = day * Day /\ cell \div Day = day
    BY <1>3 DEF Day, day
  <1> HIDE DEF cell, k
  <1>5. k + by = Month(cell)
    BY <1>1
  <1> HIDE DEF by
  <1>6. day = MonthStart(Month(cell)) + Date(cell) - 1
    BY <1>1, <1>4, InstantParts
  <1>7. DayPicked(t, t, c) = day * Day + Minute(t)
    BY <1>2, <1>5, <1>6 DEF Instant
  <1> QED BY <1>1, <1>7 DEF day, cell

\* Ten years around what viewDate may reach are in the calendar.
LEMMA ReachIs ==
    ASSUME NEW t \in Reach, NEW n \in -120..120
    PROVE  t \in Instants /\ Month(t) \in Months /\ Month(t) + n \in Months
  <1>1. t \in Instants /\ Month(t) - 120 >= 0 /\ Month(t) + 120 < 12 * Years
    BY ReachAssumption
  <1>2. Month(t) \in Months
    BY <1>1, InstantParts
  <1> QED BY <1>1, <1>2, CalendarAssumption DEF Months

\* ArithmeticAgrees, whatever the view is.
LEMMA ArithmeticIs ==
    ASSUME picker.viewDate \in Reach, DrawnIsCurrent
    PROVE  ArithmeticAgrees
  <1> DEFINE t == picker.viewDate
  <1>1. t \in Instants
    BY ReachIs
  <1>2. \A n \in -120..120 : Month(t) + n \in Months
    BY ReachIs
  <1>3. MovesAgree
    <2>1. \A n \in {-12, -1, 1, 12} : n \in {-120, -12, -1, 1, 12, 120} /\ n \in -120..120
      OBVIOUS
    <2> HIDE DEF t
    <2>2. \A n \in {-12, -1, 1, 12} : MoveMonth(t, n) = MonthsLater(t, n)
      BY <1>1, <1>2, <2>1, MoveMonthIs
    <2> QED BY <2>2 DEF MovesAgree, t
  <1>4. CellsAgree
    <2>1. Month(t) - 1 \in Months /\ Month(t) + 1 \in Months
      <3>1. Month(t) \in Int
        BY <1>1, InstantParts DEF Months
      <3>2. -1 \in -120..120 /\ 1 \in -120..120 /\ Month(t) + (-1) = Month(t) - 1
        BY <3>1
      <3> HIDE DEF t
      <3> QED BY <1>2, <3>2
    <2>2. \A c \in 1..42 : DayPicked(t, t, c) = (GridStart(t) + c - 1) * Day + Minute(t)
      <3> HIDE DEF t
      <3> QED BY <1>1, <2>1, DayPickedIs
    <2>3. picker.date # Null => picker.drawn.view = t
      BY DEF DrawnIsCurrent, Drawing
    <2> HIDE DEF t
    <2> QED BY <2>2, <2>3 DEF CellsAgree, t
  <1>5. TextsAgree
    <2>1. 1 \in {1, 60, Day}
      OBVIOUS
    <2> HIDE DEF t
    <2>2. ParseDate(FormatDate(t, 1)) = t
      BY <1>1, <2>1, FormatIs
    <2> QED BY <2>2 DEF TextsAgree, t
  <1> QED BY <1>3, <1>4, <1>5 DEF ArithmeticAgrees

-------------------------------------------------------------------------------
\* The types of the record, apart from viewDate, which a step may move beyond
\* what it may reach before it is refused.
Typed(q) == /\ IsPicker(q)
            /\ q.date \in Instants \/ q.date = Null
            /\ IsStart(q.start) /\ IsEnd(q.end)
            /\ q.shared \subseteq {"date", "start", "end"}
            /\ q.viewMode \in Modes /\ q.visible \in BOOLEAN
            /\ IsText(q.input) /\ IsText(q.data)
            /\ q.drawn.view \in Instants \/ q.drawn.view = q.viewDate
            /\ IsStart(q.drawn.start) /\ IsEnd(q.drawn.end)
            /\ q.arrows \in [prev : BOOLEAN, next : BOOLEAN]
            /\ q.picked \in Modes \cup {NotChosen} /\ q.dragged \in BOOLEAN

\* A shared field is the object of viewDate.
SharesView(q) == /\ "date" \in q.shared => q.date = q.viewDate
                 /\ "start" \in q.shared => q.start = q.viewDate
                 /\ "end" \in q.shared => q.end = q.viewDate

\* The limits are those the page has set, until a click drags one.
LimitsSet(q) == ~q.dragged => q.start \in Starts /\ q.start <= q.end

\* As far as a choice in a view is in the limits: its cell, and itself where the
\* format shows no part that is finer than the view.
Inside(q, mode, t) == /\ CellInRange(q, mode, t)
                      /\ mode <= 2 /\ Span(mode) <= options.unit => InRange(q, t)

\* What is chosen is shown and, as it is shown, in the limits.
Chosen(q, t) == /\ t \in Instants /\ q.date = t
                /\ q.input = FormatDate(t, options.unit)
                /\ Inside(q, q.picked, ParseDate(FormatDate(t, options.unit)))

Honest(q) == q.picked # NotChosen /\ ~q.dragged => Chosen(q, q.date)

\* Inductive, with what Fresh adds.
Good(q) == Typed(q) /\ SharesView(q) /\ LimitsSet(q) /\ Honest(q)

\* The fields the promises of a picker are about.
Same(q, r) == /\ r.date = q.date /\ r.viewDate = q.viewDate
              /\ r.start = q.start /\ r.end = q.end /\ r.shared = q.shared
              /\ r.input = q.input /\ r.data = q.data
              /\ r.picked = q.picked /\ r.dragged = q.dragged

\* It is about the limits and no other field.
LEMMA InsideSame ==
    ASSUME NEW q, NEW r, r.start = q.start, r.end = q.end, NEW mode, NEW t, Inside(q, mode, t)
    PROVE  Inside(r, mode, t)
  BY DEF Inside, CellInRange, SpanInRange, InRange

\* A record with the same dates and text keeps every promise.
LEMMA SameGood ==
    ASSUME NEW q, Good(q), NEW r, Typed(r), Same(q, r)
    PROVE  Good(r)
  BY InsideSame DEF Good, Same, SharesView, LimitsSet, Honest, Chosen

\* updateNavArrows touches no date and no text.
LEMMA ArrowsGood ==
    ASSUME NEW q, Typed(q)
    PROVE  Typed(UpdateNavArrows(q)) /\ Same(q, UpdateNavArrows(q))
           /\ UpdateNavArrows(q).viewMode = q.viewMode
           /\ UpdateNavArrows(q).visible = q.visible
           /\ UpdateNavArrows(q).drawn = q.drawn
  <1> DEFINE arrows == UpdateNavArrows(q).arrows
  <1>0. IsPicker(q)
    BY DEF Typed
  <1>1. UpdateNavArrows(q) = [q EXCEPT !.arrows = arrows] /\ arrows \in [prev : BOOLEAN, next : BOOLEAN]
    BY <1>0 DEF UpdateNavArrows, IsPicker, Fields
  <1> HIDE DEF arrows
  <1> QED BY <1>1 DEF Typed, IsPicker, Same, Fields

\* Nor does fill, which draws the cells.
LEMMA FillGood ==
    ASSUME NEW q, Typed(q)
    PROVE  Typed(Fill(q)) /\ Same(q, Fill(q))
           /\ Fill(q).viewMode = q.viewMode /\ Fill(q).visible = q.visible
  <1>1. CASE q.date = Null
    BY <1>1 DEF Fill, Same
  <1>2. CASE q.date # Null
    <2> DEFINE n == UpdateNavArrows(q)
               d == Drawing(q)
    <2>1. Typed(n) /\ Same(q, n) /\ n.viewMode = q.viewMode /\ n.visible = q.visible
      BY ArrowsGood
    <2>2. Fill(q) = [n EXCEPT !.drawn = d]
      BY <1>2 DEF Fill
    <2>3. d.view = q.viewDate /\ d.start = q.start /\ d.end = q.end
      BY DEF Drawing
    <2> HIDE DEF n, d
    <2> QED BY <2>1, <2>2, <2>3 DEF Typed, IsPicker, Same, Fields
  <1> QED BY <1>1, <1>2

\* Nor does showMode, which changes the panel.
LEMMA ShowModeGood ==
    ASSUME NEW q, Typed(q), NEW dir \in {-1, 0, 1}
    PROVE  Typed(ShowMode(q, dir)) /\ Same(q, ShowMode(q, dir))
           /\ ShowMode(q, dir).visible = q.visible
           /\ ShowMode(q, dir).drawn = q.drawn
  <1> DEFINE asked == q.viewMode + dir
             mode == IF asked < 0 THEN 0 ELSE IF asked > 4 THEN 4 ELSE asked
             m == IF dir # 0 /\ mode >= options.minView THEN [q EXCEPT !.viewMode = mode] ELSE q
  <1>1. ShowMode(q, dir) = UpdateNavArrows(m)
    BY DEF ShowMode
  <1>2. mode \in Modes
    BY DEF Typed, Modes
  <1> HIDE DEF mode
  <1>3. Typed(m) /\ Same(q, m) /\ m.visible = q.visible /\ m.drawn = q.drawn
    BY <1>2 DEF Typed, IsPicker, Same, Fields
  <1> HIDE DEF m
  <1>4. /\ Typed(UpdateNavArrows(m)) /\ Same(m, UpdateNavArrows(m))
        /\ UpdateNavArrows(m).visible = m.visible /\ UpdateNavArrows(m).drawn = m.drawn
    BY <1>3, ArrowsGood
  <1> QED BY <1>1, <1>3, <1>4 DEF Same

\* The text of a date.
ValueOf(date) == IF date = Null THEN Empty ELSE FormatDate(date, options.unit)

\* The text of a date is one that parseDate reads, and empty without a date.
LEMMA ValueIs ==
    ASSUME options \in Options, NEW date, date \in Instants \/ date = Null
    PROVE  /\ IsText(ValueOf(date))
           /\ date \in Instants => /\ ValueOf(date) = FormatDate(date, options.unit)
                                   /\ ValueOf(date) \in Parsed /\ ValueOf(date) # Empty
                                   /\ options.unit \in {1, 60, Day}
  <1>1. options.unit \in {1, 60, Day}
    BY OptionsAssumption
  <1>2. CASE date = Null
    BY <1>2, TextsAssumption DEF ValueOf, IsText
  <1>3. CASE date \in Instants
    <2>1. FormatDate(date, options.unit) \in Parsed
      BY <1>1, <1>3, FormatIs
    <2>2. date # Null
      BY <1>3, TextsAssumption
    <2> QED BY <1>1, <2>1, <2>2, TextsAssumption DEF ValueOf, IsText
  <1> QED BY <1>2, <1>3

\* setValue writes that text in the field, and changes no date.
LEMMA SetValueGood ==
    ASSUME options \in Options, NEW q, Typed(q)
    PROVE  LET r == SetValue(q)
           IN /\ Typed(r)
              /\ r.date = q.date /\ r.viewDate = q.viewDate
              /\ r.start = q.start /\ r.end = q.end /\ r.shared = q.shared
              /\ r.input = ValueOf(q.date) /\ r.data = ValueOf(q.date)
              /\ r.picked = q.picked /\ r.dragged = q.dragged
              /\ r.viewMode = q.viewMode /\ r.visible = q.visible /\ r.drawn = q.drawn
  <1> DEFINE text == ValueOf(q.date)
  <1>1. SetValue(q) = [q EXCEPT !.input = text, !.data = text]
    BY DEF SetValue, ValueOf
  <1>2. IsText(text)
    BY ValueIs DEF Typed
  <1> HIDE DEF text
  <1>3. Typed([q EXCEPT !.input = text, !.data = text])
    BY <1>2 DEF Typed, IsPicker, Fields
  <1>4. IsPicker(q)
    BY DEF Typed
  <1> QED BY <1>1, <1>3, <1>4 DEF IsPicker, Fields, text

\* Writing the text again keeps the promises.
LEMMA SetValueHonest ==
    ASSUME options \in Options, NEW q, Good(q)
    PROVE  Good(SetValue(q))
  <1> DEFINE r == SetValue(q)
  <1>1. /\ Typed(r) /\ r.date = q.date /\ r.viewDate = q.viewDate
        /\ r.start = q.start /\ r.end = q.end /\ r.shared = q.shared
        /\ r.input = ValueOf(q.date)
        /\ r.picked = q.picked /\ r.dragged = q.dragged
    BY SetValueGood DEF Good
  <1>2. q.date \in Instants => ValueOf(q.date) = FormatDate(q.date, options.unit)
    BY ValueIs
  <1> HIDE DEF r
  <1> QED BY <1>1, <1>2, InsideSame DEF Good, SharesView, LimitsSet, Honest, Chosen, r

\* hide writes the value that is there, and resets the panel.
LEMMA HideGood ==
    ASSUME options \in Options, NEW q, Good(q)
    PROVE  Good(Hide(q)) /\ Hide(q).viewDate = q.viewDate
  <1> DEFINE home == [q EXCEPT !.viewMode = options.startView]
             closed == ShowMode(home, 0)
             done == IF q.input # Empty THEN SetValue(closed) ELSE closed
             hidden == [done EXCEPT !.visible = FALSE]
  <1>1. Typed(home) /\ Same(q, home)
    <2>1. options.startView \in Modes
      BY OptionsAssumption
    <2> QED BY <2>1 DEF Good, Typed, IsPicker, Same, Fields
  <1>2. Good(home)
    BY <1>1, SameGood
  <1>3. Hide(q) = IF ~q.visible THEN q ELSE hidden
    BY DEF Hide
  <1> HIDE DEF home
  <1>4. Typed(closed) /\ Same(home, closed)
    BY <1>1, ShowModeGood
  <1>5. Good(closed) /\ closed.viewDate = q.viewDate
    BY <1>1, <1>2, <1>4, SameGood DEF Same
  <1> HIDE DEF closed
  <1>6. Good(done) /\ done.viewDate = q.viewDate
    <2>1. Good(SetValue(closed)) /\ SetValue(closed).viewDate = closed.viewDate
      BY <1>5, SetValueHonest, SetValueGood DEF Good
    <2> QED BY <1>5, <2>1
  <1> HIDE DEF done
  <1>7. Typed(hidden) /\ Same(done, hidden)
    BY <1>6 DEF Good, Typed, IsPicker, Same, Fields
  <1>8. Good(hidden) /\ hidden.viewDate = q.viewDate
    BY <1>6, <1>7, SameGood DEF Same
  <1> HIDE DEF hidden
  <1> QED BY <1>3, <1>8

\* Where there is a date, fill draws the panel.
LEMMA FillDraws ==
    ASSUME NEW r, IsPicker(r), r.date # Null
    PROVE  LET f == Fill(r)
           IN /\ IsPicker(f) /\ Same(r, f)
              /\ f.viewMode = r.viewMode /\ f.visible = r.visible
              /\ f.arrows \in [prev : BOOLEAN, next : BOOLEAN]
              /\ f.drawn.view = r.viewDate /\ f.drawn.start = r.start /\ f.drawn.end = r.end
  <1> DEFINE n == UpdateNavArrows(r)
             a == n.arrows
             d == Drawing(r)
             f == Fill(r)
  <1>1. f = [n EXCEPT !.drawn = d]
    BY DEF Fill
  <1>2. a \in [prev : BOOLEAN, next : BOOLEAN] /\ n = [r EXCEPT !.arrows = a]
    BY DEF UpdateNavArrows, IsPicker, Fields
  <1>3. d.view = r.viewDate /\ d.start = r.start /\ d.end = r.end
    BY DEF Drawing
  <1> HIDE DEF n, a, d
  <1>4. f = [r EXCEPT !.arrows = a, !.drawn = d]
    BY <1>1, <1>2 DEF IsPicker, Fields
  <1> HIDE DEF f
  <1>5. IsPicker(f) /\ Same(r, f) /\ f.viewMode = r.viewMode /\ f.visible = r.visible
        /\ f.arrows = a /\ f.drawn = d
    BY <1>4 DEF IsPicker, Fields, Same
  <1> QED BY <1>2, <1>3, <1>5 DEF f

\* update reads the text back; what was shown is shown, and in the limits.
LEMMA UpdateGood ==
    ASSUME options \in Options, NEW q, Typed(q), LimitsSet(q), Honest(q)
    PROVE  Good(Update(q))
  <1> DEFINE date == IF q.input # Empty THEN ParseDate(q.input)
                     ELSE IF q.data # Empty THEN ParseDate(q.data) ELSE Now
             view == IF date < q.start THEN q.start ELSE IF date > q.end THEN q.end ELSE date
             r == [q EXCEPT !.date = date, !.viewDate = view, !.shared = {}]
             f == Fill(r)
  <1>1. Update(q) = f
    BY DEF Update
  <1>2. date \in Instants /\ date # Null
    <2>1. date \in Instants
      <3>1. q.input # Empty => q.input \in Parsed
        BY DEF Typed, IsText
      <3>2. q.data # Empty => q.data \in Parsed
        BY DEF Typed, IsText
      <3> QED BY <3>1, <3>2, ParseDateIs, ReachAssumption
    <2> QED BY <2>1, TextsAssumption
  <1>3. q.input # Empty => date = ParseDate(q.input)
    OBVIOUS
  <1> HIDE DEF date, view
  <1>4. /\ IsPicker(r) /\ r.date = date /\ r.viewDate = view /\ r.shared = {}
        /\ r.start = q.start /\ r.end = q.end /\ r.input = q.input /\ r.data = q.data
        /\ r.picked = q.picked /\ r.dragged = q.dragged /\ r.viewMode = q.viewMode
        /\ r.visible = q.visible /\ r.arrows = q.arrows /\ r.drawn = q.drawn
    BY DEF Typed, IsPicker, Fields
  <1> HIDE DEF r
  <1>5. /\ IsPicker(f) /\ Same(r, f) /\ f.viewMode = r.viewMode /\ f.visible = r.visible
        /\ f.arrows \in [prev : BOOLEAN, next : BOOLEAN]
        /\ f.drawn.view = view /\ f.drawn.start = q.start /\ f.drawn.end = q.end
    BY <1>2, <1>4, FillDraws
  <1> HIDE DEF f
  <1>10. /\ f.date = date /\ f.viewDate = view /\ f.shared = {}
         /\ f.start = q.start /\ f.end = q.end /\ f.input = q.input /\ f.data = q.data
         /\ f.picked = q.picked /\ f.dragged = q.dragged
    BY <1>4, <1>5 DEF Same
  <1>11. Typed(f)
    BY <1>2, <1>4, <1>5, <1>10 DEF Typed
  <1>12. Honest(f)
    <2> SUFFICES ASSUME f.picked # NotChosen, ~f.dragged PROVE Chosen(f, f.date)
      BY DEF Honest
    <2>1. Chosen(q, q.date)
      BY <1>10 DEF Honest
    <2> DEFINE text == FormatDate(q.date, options.unit)
    <2>2. q.date \in Instants /\ q.input = text /\ Inside(q, q.picked, ParseDate(text))
      BY <2>1 DEF Chosen
    <2>3. /\ text # Empty /\ ParseDate(text) \in Instants
          /\ FormatDate(ParseDate(text), options.unit) = text
      <3>1. options.unit \in {1, 60, Day} /\ text \in Parsed
        BY <2>2, ValueIs, FormatIs
      <3> QED BY <2>2, <3>1, FormatIs, TextsAssumption
    <2>4. date = ParseDate(text)
      BY <1>3, <2>2, <2>3
    <2> HIDE DEF text
    <2> QED BY <1>10, <2>2, <2>3, <2>4, InsideSame DEF Chosen
  <1>13. SharesView(f) /\ LimitsSet(f)
    BY <1>10 DEF SharesView, LimitsSet
  <1> QED BY <1>1, <1>11, <1>12, <1>13 DEF Good

\* _setDate makes the date and viewDate one object, and writes its text.
LEMMA SetPickerDateIs ==
    ASSUME options \in Options, NEW q, Typed(q), NEW date \in Instants,
           NEW limit \in SUBSET {"start", "end"}
    PROVE  LET r == SetPickerDate(q, date, limit)
           IN /\ Typed(r) /\ r.date = date /\ r.viewDate = date /\ r.shared = {"date"} \cup limit
              /\ r.start = q.start /\ r.end = q.end /\ r.dragged = q.dragged
              /\ r.input = FormatDate(date, options.unit) /\ r.drawn.view = date
              /\ r.viewMode = q.viewMode
  <1> DEFINE m == [q EXCEPT !.date = date, !.viewDate = date, !.shared = {"date"} \cup limit]
             f == Fill(m)
             r == SetValue(f)
  <1>1. SetPickerDate(q, date, limit) = r
    BY DEF SetPickerDate
  <1>2. date # Null
    BY TextsAssumption
  <1>3. /\ IsPicker(m) /\ m.date = date /\ m.viewDate = date /\ m.shared = {"date"} \cup limit
        /\ m.start = q.start /\ m.end = q.end /\ m.input = q.input /\ m.data = q.data
        /\ m.picked = q.picked /\ m.dragged = q.dragged /\ m.viewMode = q.viewMode
        /\ m.visible = q.visible
    BY DEF Typed, IsPicker, Fields
  <1> HIDE DEF m
  <1>4. /\ IsPicker(f) /\ Same(m, f) /\ f.viewMode = m.viewMode /\ f.visible = m.visible
        /\ f.arrows \in [prev : BOOLEAN, next : BOOLEAN]
        /\ f.drawn.view = date /\ f.drawn.start = q.start /\ f.drawn.end = q.end
    BY <1>2, <1>3, FillDraws
  <1> HIDE DEF f
  <1>5. Typed(f)
    BY <1>3, <1>4 DEF Typed, Same
  <1>6. /\ Typed(r) /\ r.date = f.date /\ r.viewDate = f.viewDate
        /\ r.start = f.start /\ r.end = f.end /\ r.shared = f.shared
        /\ r.input = ValueOf(f.date) /\ r.dragged = f.dragged
        /\ r.viewMode = f.viewMode /\ r.drawn = f.drawn
    BY <1>5, SetValueGood
  <1>7. ValueOf(date) = FormatDate(date, options.unit)
    BY ValueIs
  <1> HIDE DEF r
  <1> QED BY <1>1, <1>3, <1>4, <1>6, <1>7 DEF Same

\* The setters of viewDate, called where they do not leave the calendar.
LEMMA MutateIs ==
    ASSUME NEW q, Good(q), q.drawn.view \in Instants, NEW t \in Instants
    PROVE  LET r == Mutate(q, t)
           IN /\ Typed(r) /\ SharesView(r) /\ r.viewDate = t /\ r.shared = q.shared
              /\ r.picked = q.picked /\ r.dragged = q.dragged
              /\ r.input = q.input /\ r.viewMode = q.viewMode
              /\ ~Drags(q, t, {"start", "end"}) => r.start = q.start /\ r.end = q.end
              /\ ~Drags(q, t, {"date", "start", "end"}) => r.date = q.date
  <1> DEFINE date == IF "date" \in q.shared THEN t ELSE q.date
             start == IF "start" \in q.shared THEN t ELSE q.start
             end == IF "end" \in q.shared THEN t ELSE q.end
             r == [q EXCEPT !.viewDate = t, !.date = date, !.start = start, !.end = end]
  <1>1. Mutate(q, t) = r
    BY DEF Mutate, Good, Typed, IsPicker, Fields
  <1>2. /\ date \in Instants \/ date = Null
        /\ IsStart(start) /\ IsEnd(end)
    BY DEF Good, Typed, IsStart, IsEnd
  <1>3. /\ ~Drags(q, t, {"start", "end"}) => start = q.start /\ end = q.end
        /\ ~Drags(q, t, {"date", "start", "end"}) => date = q.date
        /\ "date" \in q.shared => date = t
        /\ "start" \in q.shared => start = t
        /\ "end" \in q.shared => end = t
    BY DEF Drags, Good, SharesView
  <1> HIDE DEF date, start, end
  <1>4. /\ IsPicker(r) /\ r.date = date /\ r.viewDate = t /\ r.shared = q.shared
        /\ r.start = start /\ r.end = end /\ r.input = q.input /\ r.data = q.data
        /\ r.picked = q.picked /\ r.dragged = q.dragged /\ r.viewMode = q.viewMode
        /\ r.visible = q.visible /\ r.drawn = q.drawn /\ r.arrows = q.arrows
    BY DEF Good, Typed, IsPicker, Fields
  <1> HIDE DEF r
  <1>5. Typed(r)
    BY <1>2, <1>4 DEF Good, Typed
  <1> QED BY <1>1, <1>3, <1>4, <1>5 DEF SharesView

\* The end of a click keeps what the click has made.
LEMMA StepDownGood ==
    ASSUME options \in Options, NEW q, Good(q)
    PROVE  Good(StepDown(q)) /\ StepDown(q).viewDate = q.viewDate
  <1> DEFINE shown == ShowMode(q, -1)
             down == IF q.viewMode = 0 THEN Fill(q) ELSE Fill(shown)
  <1>1. StepDown(q) = IF options.autoclose /\ down.viewMode = q.viewMode THEN Hide(down) ELSE down
    BY DEF StepDown
  <1>2. Good(Fill(q)) /\ Fill(q).viewDate = q.viewDate
    BY FillGood, SameGood DEF Good, Same
  <1>3. Typed(shown) /\ Same(q, shown)
    BY ShowModeGood DEF Good
  <1> HIDE DEF shown
  <1>4. Good(shown) /\ shown.viewDate = q.viewDate
    BY <1>3, SameGood DEF Same
  <1>5. Good(Fill(shown)) /\ Fill(shown).viewDate = q.viewDate
    BY <1>4, FillGood, SameGood DEF Good, Same
  <1>6. Good(down) /\ down.viewDate = q.viewDate
    BY <1>2, <1>5
  <1> HIDE DEF down
  <1> QED BY <1>1, <1>6, HideGood

\* A click on a cell: the date it sets is in the limits as far as the view it was
\* chosen in says.
LEMMA PickCellGood ==
    ASSUME options \in Options, NEW q, Good(q), q.drawn.view \in Instants,
           NEW mode \in Modes, NEW t \in Instants, NEW s,
           options.viewSelect >= mode => s \in Instants,
           options.viewSelect >= mode /\ q.drawn = Drawing(q) /\ ~q.dragged
             => Inside(q, mode, ParseDate(FormatDate(s, options.unit)))
    PROVE  /\ Good(PickCell(q, mode, t, s))
           /\ PickCell(q, mode, t, s).viewDate = IF options.viewSelect >= mode THEN s ELSE t
  <1> DEFINE moved == Mutate(q, t)
             p == SetPickerDate(moved, s, {})
             shown == IF q.drawn = Drawing(q) THEN mode ELSE NotChosen
             d1 == p.dragged \/ Drags(q, t, {"start", "end"})
             d2 == moved.dragged \/ Drags(q, t, {"date", "start", "end"})
             r1 == [p EXCEPT !.picked = shown, !.dragged = d1]
             r2 == [moved EXCEPT !.dragged = d2]
             r == IF options.viewSelect >= mode THEN r1 ELSE r2
  <1>1. /\ Typed(moved) /\ SharesView(moved) /\ moved.viewDate = t /\ moved.shared = q.shared
        /\ moved.picked = q.picked /\ moved.dragged = q.dragged
        /\ moved.input = q.input /\ moved.viewMode = q.viewMode
        /\ ~Drags(q, t, {"start", "end"}) => moved.start = q.start /\ moved.end = q.end
        /\ ~Drags(q, t, {"date", "start", "end"}) => moved.date = q.date
    BY MutateIs
  <1>2. ASSUME options.viewSelect >= mode
        PROVE  /\ Typed(p) /\ p.date = s /\ p.viewDate = s /\ p.shared = {"date"}
               /\ p.start = moved.start /\ p.end = moved.end /\ p.dragged = moved.dragged
               /\ p.input = FormatDate(s, options.unit) /\ p.drawn.view = s
    <2>1. s \in Instants /\ {} \subseteq {"start", "end"} /\ {"date"} \cup {} = {"date"}
      BY <1>2
    <2> HIDE DEF moved
    <2> QED BY <1>1, <2>1, SetPickerDateIs
  <1>3. PickCell(q, mode, t, s) = StepDown(r)
    <2> HIDE DEF moved, p
    <2>1. options.viewSelect >= mode =>
            [p EXCEPT !.picked = shown, !.dragged = @ \/ Drags(q, t, {"start", "end"})] = r1
      BY <1>2 DEF Typed, IsPicker, Fields
    <2>2. [moved EXCEPT !.dragged = @ \/ Drags(q, t, {"date", "start", "end"})] = r2
      BY <1>1 DEF Typed, IsPicker, Fields
    <2> HIDE DEF r1, r2
    <2> QED BY <2>1, <2>2 DEF PickCell, moved, p, shown
  <1>4. Drags(q, t, {"start", "end"}) \in BOOLEAN /\ Drags(q, t, {"date", "start", "end"}) \in BOOLEAN
    BY DEF Drags
  <1>5. shown \in Modes \cup {NotChosen}
    OBVIOUS
  <1>6. (Drags(q, t, {"start", "end"}) => Drags(q, t, {"date", "start", "end"}))
    BY DEF Drags
  <1> HIDE DEF moved, p
  <1>7. ASSUME options.viewSelect >= mode PROVE Good(r1) /\ r1.viewDate = s
    <2> HIDE DEF shown
    <2>1. d1 \in BOOLEAN /\ (~d1 => ~p.dragged /\ ~Drags(q, t, {"start", "end"}))
      BY <1>2, <1>4, <1>7 DEF Typed
    <2> HIDE DEF d1
    <2>2. /\ IsPicker(r1) /\ r1.date = s /\ r1.viewDate = s /\ r1.shared = {"date"}
          /\ r1.start = moved.start /\ r1.end = moved.end
          /\ r1.input = FormatDate(s, options.unit)
          /\ r1.picked = shown /\ r1.dragged = d1
      BY <1>2, <1>7 DEF Typed, IsPicker, Fields
    <2>3. Typed(r1)
      BY <1>2, <1>5, <1>7, <2>1 DEF Typed, IsPicker, Fields
    <2>4. ~d1 => ~q.dragged /\ moved.start = q.start /\ moved.end = q.end
      BY <1>1, <1>2, <1>7, <2>1
    <2> HIDE DEF r1
    <2>5. LimitsSet(r1)
      BY <2>2, <2>4 DEF LimitsSet, Good
    <2>6. Honest(r1)
      <3> SUFFICES ASSUME shown # NotChosen, ~d1 PROVE Chosen(r1, s)
        BY <2>2 DEF Honest
      <3>1. shown = mode /\ Inside(q, mode, ParseDate(FormatDate(s, options.unit)))
        BY <1>7, <2>4 DEF shown
      <3>2. Inside(r1, mode, ParseDate(FormatDate(s, options.unit)))
        BY <2>2, <2>4, <3>1, InsideSame
      <3> QED BY <1>7, <2>2, <3>1, <3>2 DEF Chosen
    <2>7. SharesView(r1)
      BY <2>2 DEF SharesView
    <2> QED BY <2>2, <2>3, <2>5, <2>6, <2>7 DEF Good
  <1>8. Good(r2) /\ r2.viewDate = t
    <2>1. d2 \in BOOLEAN /\ (~d2 => ~q.dragged /\ ~Drags(q, t, {"date", "start", "end"}))
      BY <1>1, <1>4 DEF Typed
    <2> HIDE DEF d2
    <2>2. /\ Typed(r2) /\ r2.date = moved.date /\ r2.viewDate = t /\ r2.shared = moved.shared
          /\ r2.start = moved.start /\ r2.end = moved.end /\ r2.input = q.input
          /\ r2.picked = q.picked /\ r2.dragged = d2
      BY <1>1, <2>1 DEF Typed, IsPicker, Fields
    <2>3. ~d2 => ~q.dragged /\ moved.start = q.start /\ moved.end = q.end /\ moved.date = q.date
      BY <1>1, <1>6, <2>1
    <2> HIDE DEF r2
    <2>4. LimitsSet(r2) /\ SharesView(r2)
      BY <1>1, <2>2, <2>3 DEF LimitsSet, SharesView, Good
    <2>5. Honest(r2)
      BY <2>2, <2>3, InsideSame DEF Honest, Chosen, Good
    <2> QED BY <2>2, <2>4, <2>5 DEF Good
  <1> HIDE DEF r1, r2
  <1>9. Good(r) /\ r.viewDate = IF options.viewSelect >= mode THEN s ELSE t
    BY <1>7, <1>8
  <1> HIDE DEF r
  <1> QED BY <1>3, <1>9, StepDownGood

-------------------------------------------------------------------------------
\* The start dates the page gives are whole in the unit that is shown.
LEMMA StartIsWhole ==
    ASSUME options \in Options, NEW start \in Starts
    PROVE  start = NoStart \/ (start \in Instants /\ start % options.unit = 0)
  <1> SUFFICES ASSUME NEW text \in StartTexts, start = ParseDate(text)
               PROVE  start \in Instants /\ start % options.unit = 0
    BY DEF Starts
  <1> DEFINE k == text.month
             d == text.day
             m == text.minute
             unit == options.unit
  <1>1. text \in Parsed /\ k \in Months /\ d \in 1..31 /\ m \in 0..(Day - 1)
    BY TextsAssumption DEF Parsed
  <1>2. unit \in {1, 60, Day} /\ m % unit = 0
    BY OptionsAssumption
  <1>3. start = Instant(k, d, m) /\ start \in Instants
    BY <1>1, ParseDateIs
  <1> DEFINE day == MonthStart(k) + d - 1
  <1>4. start = day * Day + m
    BY <1>3 DEF Instant
  <1>5. day \in Int
    <2>1. MonthStart(k) \in Nat
      BY <1>1, StartIs
    <2> QED BY <1>1, <2>1
  <1> HIDE DEF day, m, k, d, unit
  <1>6. start % unit = 0
    <2>1. CASE unit = 1
      BY <1>1, <1>2, <1>4, <1>5, <2>1 DEF Day
    <2>2. CASE unit = 60
      BY <1>1, <1>2, <1>4, <1>5, <2>2 DEF Day
    <2>3. CASE unit = Day
      BY <1>1, <1>2, <1>4, <1>5, <2>3 DEF Day
    <2> QED BY <1>2, <2>1, <2>2, <2>3
  <1> QED BY <1>3, <1>6 DEF unit

\* The limits are numbers, the absent ones on either side of the calendar.
LEMMA LimitsAreInt ==
    /\ Instants \subseteq Nat /\ NoStart = -1 /\ NoEnd \in Nat
    /\ \A t \in Instants : t < NoEnd
    /\ \A e : IsEnd(e) => e \in Int
    /\ \A e : IsStart(e) => e \in Int
  <1>1. MonthStart(12 * Years) \in Nat
    BY FirstStart
  <1>2. Instants \subseteq Nat /\ NoStart = -1 /\ NoEnd \in Nat /\ \A t \in Instants : t < NoEnd
    BY <1>1 DEF NoEnd, NoStart, Day, Instants
  <1>3. ASSUME NEW e, IsEnd(e) PROVE e \in Int
    <2>1. CASE e \in Instants
      BY <1>2, <2>1
    <2>2. CASE e = NoEnd
      BY <1>2, <2>2
    <2> QED BY <1>3, <2>1, <2>2 DEF IsEnd
  <1>4. ASSUME NEW e, IsStart(e) PROVE e \in Int
    <2>1. CASE e \in Instants
      BY <1>2, <2>1
    <2>2. CASE e = NoStart
      BY <1>2, <2>2
    <2> QED BY <1>4, <2>1, <2>2 DEF IsStart
  <1> QED BY <1>2, <1>3, <1>4

\* A cell of u minutes that is enabled is shown in the limits, when no more
\* than u minutes are shown.
LEMMA ShownInRange ==
    ASSUME options \in Options, NEW q, q.start \in Starts, IsEnd(q.end),
           NEW t \in Instants, NEW u \in {1, 60, Day}, u <= options.unit,
           q.start < t - (t % u) + u, t - (t % u) <= q.end
    PROVE  InRange(q, ParseDate(FormatDate(t, options.unit)))
  <1> DEFINE unit == options.unit
             start == q.start
             end == q.end
  <1>1. unit \in {1, 60, Day}
    BY OptionsAssumption
  <1>2. start = NoStart \/ (start \in Instants /\ start % unit = 0)
    BY StartIsWhole
  <1>3. ParseDate(FormatDate(t, unit)) = t - (t % unit)
    BY <1>1, FormatIs
  <1>4. t \in Nat /\ end \in Int /\ start \in Int
    <2>1. IsStart(start) /\ IsEnd(end)
      BY <1>2 DEF IsStart
    <2> HIDE DEF start, end
    <2> QED BY <2>1, LimitsAreInt
  <1> HIDE DEF unit, start, end
  <1>5. start < t - (t % u) + u /\ t - (t % u) <= end /\ u <= unit
    BY DEF unit, start, end
  <1>6. start = -1 \/ (start \in Nat /\ start % unit = 0)
    BY <1>2, LimitsAreInt
  <1>7. start <= t - (t % unit) /\ t - (t % unit) <= end
    <2>1. CASE unit = 1
      BY <1>4, <1>5, <1>6, <2>1 DEF Day
    <2>2. CASE unit = 60 /\ u = 1
      BY <1>4, <1>5, <1>6, <2>2 DEF Day
    <2>3. CASE unit = 60 /\ u = 60
      BY <1>4, <1>5, <1>6, <2>3 DEF Day
    <2>4. CASE unit = Day /\ u = 1
      BY <1>4, <1>5, <1>6, <2>4 DEF Day
    <2>5. CASE unit = Day /\ u = 60
      BY <1>4, <1>5, <1>6, <2>5 DEF Day
    <2>6. CASE unit = Day /\ u = Day
      BY <1>4, <1>5, <1>6, <2>6 DEF Day
    <2> QED BY <1>1, <1>5, <2>1, <2>2, <2>3, <2>4, <2>5, <2>6 DEF Day
  <1> QED BY <1>3, <1>7 DEF InRange, unit, start, end

\* An instant in the limits is in them as it is shown.
LEMMA RangeIsShown ==
    ASSUME options \in Options, NEW q, q.start \in Starts, IsEnd(q.end),
           NEW t \in Instants, InRange(q, t)
    PROVE  InRange(q, ParseDate(FormatDate(t, options.unit)))
  <1>1. options.unit \in {1, 60, Day} /\ 1 <= options.unit
    <2>1. options.unit \in {1, 60, Day}
      BY OptionsAssumption
    <2> QED BY <2>1 DEF Day
  <1>2. IsStart(q.start)
    BY StartIsWhole DEF IsStart
  <1>3. t \in Nat /\ q.start \in Int /\ q.end \in Int
    BY <1>2, LimitsAreInt
  <1>4. t % 1 = 0 /\ t - 0 + 1 = t + 1 /\ t - 0 = t
    BY <1>3
  <1>5. q.start <= t /\ t <= q.end
    BY DEF InRange
  <1>6. q.start < t + 1
    BY <1>3, <1>5
  <1>7. q.start < t - (t % 1) + 1 /\ t - (t % 1) <= q.end
    BY <1>4, <1>5, <1>6
  <1> QED BY <1>1, <1>7, ShownInRange

\* An enabled cell of minutes, hours or days is in the limits as it is shown, in
\* every format.
LEMMA ShownInside ==
    ASSUME options \in Options, NEW q, q.start \in Starts, IsEnd(q.end),
           NEW t \in Instants, NEW mode \in 0..2, SpanInRange(q, t, Span(mode))
    PROVE  Inside(q, mode, ParseDate(FormatDate(t, options.unit)))
  <1> DEFINE unit == options.unit
             u == Span(mode)
             v == ParseDate(FormatDate(t, unit))
  <1>1. unit \in {1, 60, 1440} /\ u \in {1, 60, 1440}
    BY OptionsAssumption DEF Span, Day
  <1>2. t \in Nat /\ v = t - (t % unit) /\ q.start \in Int /\ q.end \in Int
    <2>1. IsStart(q.start)
      BY StartIsWhole DEF IsStart
    <2>2. unit \in {1, 60, Day}
      BY OptionsAssumption
    <2> QED BY <2>1, <2>2, FormatIs, LimitsAreInt
  <1>3. t - (t % u) + u > q.start /\ t - (t % u) <= q.end
    BY DEF SpanInRange
  <1>4. ASSUME u <= unit PROVE InRange(q, v)
    BY <1>1, <1>2, <1>3, <1>4, ShownInRange DEF Day
  <1> HIDE DEF u, unit, v
  <1>5. v - (v % u) + u > q.start /\ v - (v % u) <= q.end
    <2>1. CASE u <= unit
      <3>1. q.start <= v /\ v <= q.end
        BY <1>4, <2>1 DEF InRange
      <3>2. v \in Nat /\ v % u \in 0..(u - 1)
        BY <1>1, <1>2
      <3> QED BY <1>1, <1>2, <3>1, <3>2
    <2>2. CASE unit < u
      <3>1. v - (v % u) = t - (t % u)
        <4>1. CASE unit = 1
          BY <1>1, <1>2, <4>1
        <4>2. CASE unit = 60 /\ u = 1440
          BY <1>1, <1>2, <4>2
        <4> QED BY <1>1, <2>2, <4>1, <4>2
      <3> QED BY <1>3, <3>1
    <2> QED BY <1>1, <2>1, <2>2
  <1>6. CellInRange(q, mode, v)
    BY <1>5 DEF CellInRange, SpanInRange, u
  <1> QED BY <1>4, <1>6 DEF Inside, u, unit, v

\* A date in the limits, however it was computed.
LEMMA RangeInside ==
    ASSUME options \in Options, NEW q, q.start \in Starts, IsEnd(q.end),
           NEW t \in Instants, InRange(q, t)
    PROVE  Inside(q, 0, ParseDate(FormatDate(t, options.unit)))
  <1>1. IsStart(q.start)
    BY StartIsWhole DEF IsStart
  <1>2. t \in Nat /\ q.start \in Int /\ q.end \in Int
    BY <1>1, LimitsAreInt
  <1>3. Span(0) = 1 /\ 0 \in 0..2
    BY DEF Span
  <1>4. t - (t % 1) + 1 > q.start /\ t - (t % 1) <= q.end
    BY <1>2 DEF InRange
  <1>5. SpanInRange(q, t, Span(0))
    BY <1>3, <1>4 DEF SpanInRange
  <1> QED BY <1>3, <1>5, ShownInside

\* What a format leaves out is no more than the time of the day.
LEMMA ShownMonth ==
    ASSUME options \in Options, NEW t \in Instants
    PROVE  Month(ParseDate(FormatDate(t, options.unit))) = Month(t)
  <1> DEFINE unit == options.unit
             v == ParseDate(FormatDate(t, unit))
             k == Month(t)
  <1>1. unit \in {1, 60, Day}
    BY OptionsAssumption
  <1>2. t \in Nat /\ v = t - (t % unit)
    BY <1>1, FormatIs, LimitsAreInt
  <1> HIDE DEF unit, v
  <1>3. v \in Int /\ v \div Day = t \div Day
    BY <1>1, <1>2 DEF Day
  <1>4. k \in Months /\ Date(t) \in 1..getDaysInMonth(k)
        /\ t \div Day = MonthStart(k) + Date(t) - 1
    BY InstantParts
  <1>5. /\ MonthStart(k) \in Nat /\ getDaysInMonth(k) \in 28..31
        /\ MonthStart(k + 1) = MonthStart(k) + getDaysInMonth(k)
    BY <1>4, StartIs
  <1> HIDE DEF k
  <1>6. MonthStart(k) <= v \div Day /\ v \div Day < MonthStart(k + 1)
    BY <1>3, <1>4, <1>5
  <1>7. Month(v) = k
    BY <1>3, <1>4, <1>6, MonthOfDay
  <1> QED BY <1>7 DEF v, unit, k

\* The month of a limit is one of the calendar, and in its year.
LEMMA YearIs ==
    ASSUME NEW t \in Instants
    PROVE  /\ Month(t) \in Nat /\ Year(t) \in Nat /\ Month(t) % 12 \in 0..11
           /\ Month(t) = 12 * Year(t) + (Month(t) % 12)
  <1>1. Month(t) \in Nat
    <2>1. Month(t) \in Months
      BY InstantParts
    <2> QED BY <2>1, CalendarAssumption DEF Months
  <1> DEFINE k == Month(t)
  <1> HIDE DEF k
  <1>2. k \in Nat => k \div 12 \in Nat /\ k % 12 \in 0..11 /\ k = 12 * (k \div 12) + (k % 12)
    OBVIOUS
  <1> QED BY <1>1, <1>2 DEF Year, k

PickerInv == /\ options \in Options /\ Good(picker)
             /\ picker.viewDate \in Reach /\ picker.drawn.view \in Instants

\* What a step must reach to keep the invariant.
LEMMA BecomesInv ==
    ASSUME PickerInv, NEW q, Good(q), Becomes(q)
    PROVE  PickerInv'
  <1>1. picker' = q /\ q.viewDate \in Reach /\ options' = options
    BY DEF Becomes
  <1>2. q.drawn.view \in Instants
    BY <1>1, ReachAssumption DEF Good, Typed
  <1>3. Good(q)'
    BY <1>1 DEF Good, Typed, SharesView, LimitsSet, Honest, Chosen, Inside, CellInRange,
                SpanInRange, InRange, IsStart, IsEnd, IsText, IsPicker
  <1> QED BY <1>1, <1>2, <1>3 DEF PickerInv

\* What the page and the user call keeps the invariant.
LEMMA CallsInv ==
    ASSUME PickerInv, Calls
    PROVE  PickerInv'
  <1>0. options \in Options /\ Good(picker) /\ Typed(picker) /\ picker.drawn.view \in Instants
    BY DEF PickerInv, Good
  <1>1. ASSUME NEW text \in Texts \cup {Empty}, Type(text) PROVE PickerInv'
    <2> DEFINE r == [picker EXCEPT !.input = text, !.picked = NotChosen]
    <2>1. IsText(text)
      BY TextsAssumption DEF IsText
    <2>2. Typed(r) /\ r.picked = NotChosen /\ r.start = picker.start /\ r.end = picker.end
          /\ r.dragged = picker.dragged
      BY <1>0, <2>1 DEF Typed, IsPicker, Fields
    <2>3. Becomes(Update(r))
      BY <1>1 DEF Type
    <2> HIDE DEF r
    <2>4. LimitsSet(r) /\ Honest(r)
      BY <1>0, <2>2 DEF LimitsSet, Honest, Good
    <2> QED BY <1>0, <2>2, <2>3, <2>4, UpdateGood, BecomesInv
  <1>2. ASSUME NEW start \in Starts, SetStartDate(start) PROVE PickerInv'
    <2> DEFINE shared == picker.shared \ {"start"}
               r == [picker EXCEPT !.start = start, !.shared = shared, !.picked = NotChosen]
    <2>1. IsStart(start)
      BY <1>0, StartIsWhole DEF IsStart
    <2>2. Typed(r) /\ r.picked = NotChosen /\ r.start = start /\ r.end = picker.end
      BY <1>0, <2>1 DEF Typed, IsPicker, Fields
    <2>3. Becomes(UpdateNavArrows(Update(r))) /\ start <= picker.end
      BY <1>0, <1>2 DEF SetStartDate, Typed, IsPicker, Fields
    <2> HIDE DEF r
    <2>4. LimitsSet(r) /\ Honest(r)
      BY <2>2, <2>3 DEF LimitsSet, Honest
    <2>5. Good(Update(r))
      BY <1>0, <2>2, <2>4, UpdateGood
    <2>6. Good(UpdateNavArrows(Update(r)))
      BY <2>5, ArrowsGood, SameGood DEF Good
    <2> QED BY <2>3, <2>6, BecomesInv
  <1>3. ASSUME NEW end \in Ends, SetEndDate(end) PROVE PickerInv'
    <2> DEFINE shared == picker.shared \ {"end"}
               r == [picker EXCEPT !.end = end, !.shared = shared, !.picked = NotChosen]
    <2>1. IsEnd(end)
      BY TextsAssumption, ParseDateIs DEF IsEnd, Ends
    <2>2. /\ Typed(r) /\ r.picked = NotChosen /\ r.start = picker.start /\ r.end = end
          /\ r.dragged = picker.dragged
      BY <1>0, <2>1 DEF Typed, IsPicker, Fields
    <2>3. Becomes(UpdateNavArrows(Update(r))) /\ picker.start <= end
      BY <1>0, <1>3 DEF SetEndDate, Typed, IsPicker, Fields
    <2> HIDE DEF r
    <2>4. LimitsSet(r) /\ Honest(r)
      BY <1>0, <2>2, <2>3 DEF LimitsSet, Honest, Good
    <2>5. Good(Update(r))
      BY <1>0, <2>2, <2>4, UpdateGood
    <2>6. Good(UpdateNavArrows(Update(r)))
      BY <2>5, ArrowsGood, SameGood DEF Good
    <2> QED BY <2>3, <2>6, BecomesInv
  <1>4. ASSUME NEW text \in Texts, SetUTCDate(ParseDate(text)) PROVE PickerInv'
    <2> DEFINE t == ParseDate(text)
               r == [picker EXCEPT !.date = t, !.picked = 0]
               set == SetValue(r)
               moved == [set EXCEPT !.viewDate = t, !.shared = {"date"}]
    <2>1. t \in Instants
      BY TextsAssumption, ParseDateIs
    <2>2. InRange(picker, t) /\ Becomes(Fill(moved))
      BY <1>4 DEF SetUTCDate
    <2> HIDE DEF t
    <2>3. /\ Typed(r) /\ r.date = t /\ r.start = picker.start /\ r.end = picker.end
          /\ r.dragged = picker.dragged /\ r.drawn = picker.drawn /\ r.picked = 0
      <3>1. 0 \in Modes
        BY DEF Modes
      <3> QED BY <1>0, <2>1, <3>1 DEF Typed, IsPicker, Fields
    <2> HIDE DEF r
    <2>4. /\ Typed(set) /\ set.date = t /\ set.start = picker.start /\ set.end = picker.end
          /\ set.dragged = picker.dragged /\ set.drawn = picker.drawn
          /\ set.input = ValueOf(t) /\ set.picked = 0
      BY <1>0, <2>3, SetValueGood
    <2> HIDE DEF set
    <2>5. /\ Typed(moved) /\ moved.date = t /\ moved.viewDate = t /\ moved.shared = {"date"}
          /\ moved.start = picker.start /\ moved.end = picker.end
          /\ moved.dragged = picker.dragged /\ moved.input = ValueOf(t) /\ moved.picked = 0
      BY <1>0, <2>4 DEF Typed, IsPicker, Fields
    <2> HIDE DEF moved
    <2>6. SharesView(moved) /\ LimitsSet(moved)
      BY <1>0, <2>5 DEF SharesView, LimitsSet, Good
    <2>7. Honest(moved)
      <3> SUFFICES ASSUME ~picker.dragged PROVE Chosen(moved, t)
        BY <2>5 DEF Honest
      <3>1. picker.start \in Starts /\ IsEnd(picker.end)
        BY <1>0 DEF Good, LimitsSet, Typed
      <3>2. Inside(picker, 0, ParseDate(FormatDate(t, options.unit)))
        BY <1>0, <2>1, <2>2, <3>1, RangeInside
      <3>3. ValueOf(t) = FormatDate(t, options.unit)
        BY <1>0, <2>1, ValueIs
      <3> QED BY <2>1, <2>5, <3>2, <3>3, InsideSame DEF Chosen
    <2>8. Good(moved)
      BY <2>5, <2>6, <2>7 DEF Good
    <2>9. Good(Fill(moved))
      BY <2>5, <2>8, FillGood, SameGood
    <2> QED BY <2>2, <2>9, BecomesInv
  <1>5. ASSUME Reset PROVE PickerInv'
    <2> DEFINE shared == picker.shared \ {"date"}
               r == [picker EXCEPT !.date = Null, !.shared = shared, !.picked = NotChosen]
    <2>1. Becomes(SetValue(Fill(r)))
      BY <1>0, <1>5 DEF Reset, Typed, IsPicker, Fields
    <2>2. /\ Typed(r) /\ r.picked = NotChosen /\ r.shared = shared /\ r.dragged = picker.dragged
          /\ r.start = picker.start /\ r.end = picker.end /\ r.viewDate = picker.viewDate
      BY <1>0 DEF Typed, IsPicker, Fields
    <2> HIDE DEF r
    <2>3. Good(r)
      BY <1>0, <2>2 DEF Good, LimitsSet, Honest, SharesView
    <2>4. Good(Fill(r))
      BY <2>2, <2>3, FillGood, SameGood
    <2> QED BY <1>0, <2>1, <2>4, SetValueHonest, BecomesInv
  <1>6. ASSUME OnShow PROVE PickerInv'
    <2> DEFINE u == Update(picker)
               r == [u EXCEPT !.visible = TRUE]
    <2>1. Good(u)
      BY <1>0, UpdateGood DEF Good
    <2>2. Becomes(r)
      BY <1>6 DEF OnShow, Show
    <2> HIDE DEF u
    <2>3. Typed(r) /\ Same(u, r)
      BY <2>1 DEF Good, Typed, IsPicker, Fields, Same
    <2> HIDE DEF r
    <2> QED BY <2>1, <2>2, <2>3, SameGood, BecomesInv
  <1>7. ASSUME OnHide PROVE PickerInv'
    BY <1>0, <1>7, HideGood, BecomesInv DEF OnHide
  <1> QED BY <1>1, <1>2, <1>3, <1>4, <1>5, <1>6, <1>7 DEF Calls

\* A cell that moves viewDate to t and sets the date s.
LEMMA PickInv ==
    ASSUME PickerInv, NEW mode \in Modes, NEW t \in Instants, NEW s, Pick(mode, t, s),
           options.viewSelect >= mode /\ picker.drawn = Drawing(picker) /\ ~picker.dragged
             => Inside(picker, mode, ParseDate(FormatDate(s, options.unit)))
    PROVE  PickerInv'
  <1>1. /\ options \in Options /\ Good(picker) /\ picker.drawn.view \in Instants
        /\ options.viewSelect >= mode => s \in Instants
        /\ Becomes(PickCell(picker, mode, t, s))
    BY ReachAssumption DEF PickerInv, Pick
  <1>2. Good(PickCell(picker, mode, t, s))
    BY <1>1, PickCellGood
  <1> QED BY <1>1, <1>2, BecomesInv

\* A cell of minutes, hours or days.
LEMMA CellInv ==
    ASSUME PickerInv, NEW mode \in 0..2, NEW t, PickOne(mode, t),
           picker.drawn = Drawing(picker) => SpanInRange(picker, t, Span(mode))
    PROVE  PickerInv'
  <1>1. t \in Instants /\ Pick(mode, t, t) /\ mode \in Modes
    BY ReachAssumption DEF PickOne, Pick, Modes
  <1>2. ASSUME options.viewSelect >= mode, picker.drawn = Drawing(picker), ~picker.dragged
        PROVE  Inside(picker, mode, ParseDate(FormatDate(t, options.unit)))
    <2>1. options \in Options /\ picker.start \in Starts /\ IsEnd(picker.end)
      BY <1>2 DEF PickerInv, Good, LimitsSet, Typed
    <2>2. SpanInRange(picker, t, Span(mode))
      BY <1>2
    <2> QED BY <1>1, <2>1, <2>2, ShownInside
  <1> QED BY <1>1, <1>2, PickInv

\* A minute keeps the hour and the day, and is in range when its cell is enabled.
LEMMA ClickMinuteInv ==
    ASSUME PickerInv, NEW i \in 0..59, ClickMinute(i)
    PROVE  PickerInv'
  <1> DEFINE view == picker.viewDate
             t == (view \div 60) * 60 + i
  <1>1. view \in Nat /\ options \in Options
    BY ReachAssumption, LimitsAreInt DEF PickerInv
  <1>2. PickOne(0, t) /\ MinuteEnabled(i)
    BY DEF ClickMinute
  <1>3. t \in Nat /\ t % 1 = 0
    BY <1>1
  <1>4. picker.start \in Int /\ picker.end \in Int
    BY LimitsAreInt DEF PickerInv, Good, Typed
  <1>5. ASSUME picker.drawn = Drawing(picker)
        PROVE  SpanInRange(picker, t, Span(0))
    <2>1. t + 1 > picker.start /\ t <= picker.end
      BY <1>2, <1>5 DEF MinuteEnabled, SpanEnabled, Drawing
    <2> HIDE DEF t
    <2>2. t - (t % 1) + 1 > picker.start /\ t - (t % 1) <= picker.end
      BY <1>3, <1>4, <2>1
    <2> QED BY <2>2 DEF SpanInRange, Span
  <1> HIDE DEF t
  <1> QED BY <1>2, <1>5, CellInv

\* An hour keeps the day and starts at its first minute.
LEMMA ClickHourInv ==
    ASSUME PickerInv, NEW h \in 0..23, ClickHour(h)
    PROVE  PickerInv'
  <1> DEFINE view == picker.viewDate
             cell == (view \div Day) * Day + h * 60
             t == cell + (view % 60)
  <1>1. view \in Nat /\ options \in Options
    BY ReachAssumption, LimitsAreInt DEF PickerInv
  <1>2. PickOne(1, t) /\ HourEnabled(h)
    BY DEF ClickHour
  <1>3. t \in Nat /\ t - (t % 60) = cell /\ cell \in Nat
    <2> HIDE DEF view
    <2> QED BY <1>1 DEF Day
  <1>4. picker.start \in Int /\ picker.end \in Int
    BY LimitsAreInt DEF PickerInv, Good, Typed
  <1>5. ASSUME picker.drawn = Drawing(picker)
        PROVE  SpanInRange(picker, t, Span(1))
    <2>1. cell + 60 > picker.start /\ cell <= picker.end
      BY <1>2, <1>5 DEF HourEnabled, SpanEnabled, Drawing
    <2> HIDE DEF t, cell
    <2>2. t - (t % 60) + 60 > picker.start /\ t - (t % 60) <= picker.end
      BY <1>3, <1>4, <2>1
    <2> QED BY <2>2 DEF SpanInRange, Span
  <1> HIDE DEF t
  <1> QED BY <1>2, <1>5, CellInv

\* A day, which may be one of the month before or after.
LEMMA ClickDayInv ==
    ASSUME PickerInv, NEW c \in 1..42, ClickDay(c)
    PROVE  PickerInv'
  <1> DEFINE view == picker.viewDate
             t == DayPicked(picker.drawn.view, view, c)
             cell == (GridStart(view) + c - 1) * Day
  <1>1. view \in Reach /\ view \in Instants /\ options \in Options
    BY ReachAssumption DEF PickerInv
  <1>2. PickOne(2, t) /\ DayEnabled(c)
    BY DEF ClickDay
  <1>3. picker.start \in Int /\ picker.end \in Int
    BY LimitsAreInt DEF PickerInv, Good, Typed
  <1>4. ASSUME picker.drawn = Drawing(picker)
        PROVE  SpanInRange(picker, t, Span(2))
    <2>1. picker.drawn.view = view
      BY <1>4 DEF Drawing
    <2>2. Month(view) - 1 \in Months /\ Month(view) + 1 \in Months
      <3>1. Month(view) + (-1) \in Months /\ Month(view) + 1 \in Months /\ Month(view) \in Months
        <4>1. -1 \in -120..120 /\ 1 \in -120..120
          OBVIOUS
        <4> HIDE DEF view
        <4> QED BY <1>1, <4>1, ReachIs
      <3>2. Month(view) \in Int
        BY <3>1 DEF Months
      <3>3. Month(view) + (-1) = Month(view) - 1
        BY <3>2
      <3> QED BY <3>1, <3>3
    <2>3. t = cell + Minute(view) /\ cell \in Instants
      <3> HIDE DEF view
      <3>1. DayPicked(view, view, c) = cell + Minute(view) /\ cell \in Instants
        BY <1>1, <2>2, DayPickedIs
      <3> QED BY <2>1, <3>1
    <2>4. cell + Day > picker.start /\ cell <= picker.end
      BY <1>2, <1>4 DEF DayEnabled, SpanEnabled, Drawing
    <2>5. Minute(view) \in 0..(Day - 1)
      BY <1>1, InstantParts
    <2>6. cell \in Nat
      BY <2>3, LimitsAreInt
    <2>7. cell % Day = 0
      <3> DEFINE day == GridStart(view) + c - 1
      <3>1. day \in Int
        <4>1. MonthStart(Month(view)) \in Nat
          BY <1>1, InstantParts, StartIs
        <4> QED BY <4>1, CalendarAssumption DEF GridStart
      <3> HIDE DEF day
      <3>2. (day * Day) % Day = 0
        BY <3>1 DEF Day
      <3> QED BY <3>2 DEF day
    <2> HIDE DEF t, cell, view
    <2>8. t - (t % Day) = cell
      <3> DEFINE m == Minute(view)
      <3>1. t = cell + m /\ m \in 0..1439 /\ cell \in Nat /\ cell % 1440 = 0
        BY <2>3, <2>5, <2>6, <2>7 DEF Day
      <3> HIDE DEF m
      <3>2. t - (t % 1440) = cell
        BY <3>1
      <3> QED BY <3>2 DEF Day
    <2>9. t - (t % Day) + Day > picker.start /\ t - (t % Day) <= picker.end
      BY <1>3, <2>4, <2>6, <2>8 DEF Day
    <2> QED BY <2>9 DEF SpanInRange, Span
  <1> HIDE DEF t
  <1> QED BY <1>2, <1>4, CellInv

\* The month of a limit that is there is one of the calendar.
LEMMA LimitsIn ==
    ASSUME PickerInv
    PROVE  /\ picker.start # NoStart => picker.start \in Instants
           /\ picker.end # NoEnd => picker.end \in Instants
  BY DEF PickerInv, Good, Typed, IsStart, IsEnd

\* A year sets the day that viewDate has, in the month it has: the year is the
\* one that was clicked, also where the day overflows the month.
LEMMA ClickYearInv ==
    ASSUME PickerInv, NEW year \in 0..(Years - 1), ClickYear(year)
    PROVE  PickerInv'
  <1> DEFINE view == picker.viewDate
             m == Month(view) % 12
             k == 12 * year + m
             t == Instant(k, 1, Minute(view))
             s == Instant(k, Date(view), Minute(view))
  <1>1. view \in Instants /\ options \in Options
    BY ReachAssumption DEF PickerInv
  <1>2. /\ m \in 0..11 /\ Minute(view) \in 0..(Day - 1) /\ Date(view) \in 1..31
    <2>1. /\ Month(view) \in Months /\ Date(view) \in 1..getDaysInMonth(Month(view))
          /\ Minute(view) \in 0..(Day - 1)
      BY <1>1, InstantParts
    <2>2. getDaysInMonth(Month(view)) \in 28..31
      BY <2>1, StartIs
    <2>3. m \in 0..11
      BY <1>1, YearIs
    <2>4. Date(view) \in 1..31
      BY <2>1, <2>2
    <2> QED BY <2>1, <2>3, <2>4
  <1>3. k \in Months /\ k \div 12 = year
    <2> HIDE DEF m
    <2>1. 12 * year + m \in 0..(12 * Years - 1)
      BY <1>2, CalendarAssumption
    <2>2. (12 * year + m) \div 12 = year
      BY <1>2, CalendarAssumption
    <2> QED BY <2>1, <2>2 DEF Months
  <1>4. Pick(4, t, s) /\ YearEnabled(year)
    BY DEF ClickYear
  <1> HIDE DEF k
  <1>5. t \in Instants /\ s \in Instants
    <2>1. 1 \in 1..31
      OBVIOUS
    <2> QED BY <1>2, <1>3, <2>1, InstantInCalendar
  <1>6. Year(s) = year
    <2>1. CASE Date(view) > getDaysInMonth(k)
      BY <1>2, <1>3, <2>1, OverflowIs DEF Year
    <2>2. CASE Date(view) <= getDaysInMonth(k)
      <3>1. Date(view) \in 1..getDaysInMonth(k)
        BY <1>2, <1>3, <2>2, StartIs
      <3>2. Month(s) = k
        BY <1>2, <1>3, <3>1, InstantIs
      <3> QED BY <1>3, <3>2 DEF Year
    <2>3. getDaysInMonth(k) \in 28..31
      BY <1>3, StartIs
    <2> QED BY <1>2, <2>1, <2>2, <2>3
  <1> HIDE DEF t, s
  <1>7. Year(ParseDate(FormatDate(s, options.unit))) = year
    BY <1>1, <1>5, <1>6, ShownMonth DEF Year
  <1>8. ASSUME picker.drawn = Drawing(picker)
        PROVE  Inside(picker, 4, ParseDate(FormatDate(s, options.unit)))
    <2>1. picker.drawn.start = picker.start /\ picker.drawn.end = picker.end
      BY <1>8 DEF Drawing
    <2>2. /\ picker.start # NoStart => year >= Year(picker.start)
          /\ picker.end # NoEnd => year <= Year(picker.end)
      BY <1>4, <2>1 DEF YearEnabled
    <2> QED BY <1>7, <2>2 DEF Inside, CellInRange
  <1>9. 4 \in Modes
    BY DEF Modes
  <1> QED BY <1>4, <1>5, <1>8, <1>9, PickInv

\* The first of a month becomes the view, and the date where this panel sets it;
\* the month is the one that was clicked.
LEMMA ClickMonthInv ==
    ASSUME PickerInv, NEW m \in 0..11, ClickMonth(m)
    PROVE  PickerInv'
  <1> DEFINE view == picker.viewDate
             k == 12 * Year(view) + m
             t == Instant(k, 1, Minute(view))
             shown == ParseDate(FormatDate(t, options.unit))
  <1>1. PickOne(3, t) /\ MonthEnabled(m)
    BY DEF ClickMonth
  <1>2. view \in Instants /\ options \in Options
    BY ReachAssumption DEF PickerInv
  <1>3. k \in Months /\ k \in Nat
    <2>1. /\ Month(view) \in Nat /\ Year(view) \in Nat /\ Month(view) % 12 \in 0..11
          /\ Month(view) = 12 * Year(view) + (Month(view) % 12)
      BY <1>2, YearIs
    <2>2. Month(view) < 12 * Years
      <3>1. Month(view) \in Months
        BY <1>2, InstantParts
      <3> QED BY <3>1, CalendarAssumption DEF Months
    <2> DEFINE y == Year(view)
               r == Month(view) % 12
    <2>3. y \in Nat /\ r \in 0..11 /\ 12 * y + r < 12 * Years
      BY <2>1, <2>2
    <2> HIDE DEF y, r
    <2>4. y < Years
      BY <2>3, CalendarAssumption
    <2>5. 12 * y + m \in 0..(12 * Years - 1)
      BY <2>3, <2>4, CalendarAssumption
    <2> QED BY <2>5 DEF Months, y
  <1>4. t \in Instants /\ Month(t) = k
    <2>1. Minute(view) \in 0..(Day - 1) /\ getDaysInMonth(k) \in 28..31
      BY <1>2, <1>3, InstantParts, StartIs
    <2>2. 1 \in 1..getDaysInMonth(k)
      BY <2>1
    <2> HIDE DEF k
    <2> QED BY <1>3, <2>1, <2>2, InstantIs
  <1>5. Month(shown) = k
    BY <1>2, <1>4, ShownMonth
  <1> HIDE DEF t, shown
  <1>6. ASSUME picker.drawn = Drawing(picker)
        PROVE  Inside(picker, 3, shown)
    <2>1. /\ picker.drawn.view = view
          /\ picker.drawn.start = picker.start /\ picker.drawn.end = picker.end
      BY <1>6 DEF Drawing
    <2>2. ASSUME picker.start # NoStart PROVE k >= Month(picker.start)
      <3> DEFINE start == picker.start
                 y == Year(view)
                 ys == Year(start)
                 ms == Month(start) % 12
      <3>1. y > ys \/ (y = ys /\ m >= ms)
        BY <1>1, <2>1, <2>2 DEF MonthEnabled
      <3>2. y \in Nat /\ ys \in Nat /\ ms \in 0..11 /\ Month(start) = 12 * ys + ms
        BY <1>2, <2>2, LimitsIn, YearIs
      <3> HIDE DEF y, ys, ms, start
      <3>3. 12 * y + m >= 12 * ys + ms
        BY <3>1, <3>2
      <3> QED BY <3>2, <3>3 DEF y, start
    <2>3. ASSUME picker.end # NoEnd PROVE k <= Month(picker.end)
      <3> DEFINE end == picker.end
                 y == Year(view)
                 ye == Year(end)
                 me == Month(end) % 12
      <3>1. y < ye \/ (y = ye /\ m < me - 1)
        BY <1>1, <2>1, <2>3 DEF MonthEnabled
      <3>2. y \in Nat /\ ye \in Nat /\ me \in 0..11 /\ Month(end) = 12 * ye + me
        BY <1>2, <2>3, LimitsIn, YearIs
      <3> HIDE DEF y, ye, me, end
      <3>3. 12 * y + m <= 12 * ye + me
        BY <3>1, <3>2
      <3> QED BY <3>2, <3>3 DEF y, end
    <2> HIDE DEF k
    <2> QED BY <1>5, <2>2, <2>3 DEF Inside, CellInRange
  <1>7. t \in Instants /\ Pick(3, t, t) /\ 3 \in Modes
    BY <1>1, <1>4 DEF PickOne, Modes
  <1> QED BY <1>6, <1>7, PickInv DEF shown

\* Today, or the limit that is nearest to it, which the picker then shares.
LEMMA ClickTodayInv ==
    ASSUME PickerInv, ClickToday
    PROVE  PickerInv'
  <1> DEFINE low == Now < picker.start
             high == ~low /\ Now > picker.end
             date == IF low THEN picker.start ELSE IF high THEN picker.end ELSE Now
             same == IF low THEN {"start"} ELSE IF high THEN {"end"} ELSE {}
             start == [picker EXCEPT !.viewMode = options.startView]
             home == ShowMode(start, 0)
             day == SetPickerDate(home, date, same)
             picked == [day EXCEPT !.picked = 0]
             set == Fill(picked)
  <1>1. /\ options \in Options /\ Good(picker) /\ Typed(picker)
        /\ IsStart(picker.start) /\ IsEnd(picker.end)
    BY DEF PickerInv, Good, Typed
  <1>2. Now \in Instants /\ Now \in Nat /\ picker.start \in Int /\ picker.end \in Int
        /\ Now < NoEnd /\ NoStart = -1 /\ NoEnd \in Nat
    BY <1>1, ReachAssumption, LimitsAreInt
  <1>3. date \in Instants
    <2>1. low => picker.start \in Instants
      BY <1>1, <1>2 DEF IsStart
    <2>2. high => picker.end \in Instants
      BY <1>1, <1>2 DEF IsEnd
    <2> QED BY <1>2, <2>1, <2>2
  <1>4. /\ same \subseteq {"start", "end"}
        /\ "start" \in same => date = picker.start
        /\ "end" \in same => date = picker.end
    OBVIOUS
  <1>5. picker.start <= picker.end => InRange(picker, date)
    BY <1>2 DEF InRange
  <1>6. Becomes(IF options.autoclose THEN Hide(set) ELSE set)
    BY DEF ClickToday
  <1> HIDE DEF date, same
  <1>7. Typed(start) /\ Same(picker, start)
    <2>1. options.startView \in Modes
      BY <1>1, OptionsAssumption
    <2> QED BY <1>1, <2>1 DEF Typed, IsPicker, Fields, Same
  <1> HIDE DEF start
  <1>8. Typed(home) /\ Same(start, home)
    BY <1>7, ShowModeGood
  <1> HIDE DEF home
  <1>9. /\ Typed(day) /\ day.date = date /\ day.viewDate = date /\ day.shared = {"date"} \cup same
        /\ day.start = picker.start /\ day.end = picker.end /\ day.dragged = picker.dragged
        /\ day.input = FormatDate(date, options.unit)
    <2>1. /\ Typed(day) /\ day.date = date /\ day.viewDate = date
          /\ day.shared = {"date"} \cup same
          /\ day.start = home.start /\ day.end = home.end /\ day.dragged = home.dragged
          /\ day.input = FormatDate(date, options.unit)
      <3>1. options \in Options /\ Typed(home) /\ date \in Instants
            /\ same \in SUBSET {"start", "end"}
        BY <1>1, <1>3, <1>4, <1>8
      <3>2. day = SetPickerDate(home, date, same)
        OBVIOUS
      <3> HIDE DEF day
      <3> QED BY <3>1, <3>2, SetPickerDateIs
    <2>2. home.start = start.start /\ home.end = start.end /\ home.dragged = start.dragged
      BY <1>8 DEF Same
    <2>3. /\ start.start = picker.start /\ start.end = picker.end
          /\ start.dragged = picker.dragged
      BY <1>7 DEF Same
    <2> HIDE DEF day
    <2> QED BY <2>1, <2>2, <2>3
  <1> HIDE DEF day
  <1>10. /\ Typed(picked) /\ picked.date = date /\ picked.viewDate = date
         /\ picked.shared = {"date"} \cup same
         /\ picked.start = picker.start /\ picked.end = picker.end
         /\ picked.dragged = picker.dragged /\ picked.input = FormatDate(date, options.unit)
         /\ picked.picked = 0
    BY <1>9 DEF Typed, IsPicker, Fields, Modes
  <1> HIDE DEF picked
  <1>11. Honest(picked)
    <2> SUFFICES ASSUME ~picker.dragged PROVE Chosen(picked, date)
      BY <1>10 DEF Honest
    <2>1. picker.start \in Starts /\ picker.start <= picker.end
      BY <1>1 DEF Good, LimitsSet
    <2>2. Inside(picker, 0, ParseDate(FormatDate(date, options.unit)))
      BY <1>1, <1>3, <1>5, <2>1, RangeInside
    <2> QED BY <1>3, <1>10, <2>2, InsideSame DEF Chosen
  <1>12. Good(picked)
    <2>1. SharesView(picked)
      BY <1>4, <1>10 DEF SharesView
    <2>2. LimitsSet(picked)
      BY <1>1, <1>10 DEF Good, LimitsSet
    <2> QED BY <1>10, <1>11, <2>1, <2>2 DEF Good
  <1>13. Good(set)
    BY <1>10, <1>12, FillGood, SameGood
  <1> HIDE DEF set
  <1>14. Good(IF options.autoclose THEN Hide(set) ELSE set)
    BY <1>1, <1>13, HideGood
  <1> QED BY <1>6, <1>14, BecomesInv

\* The arrows of the header move the view, and nothing else.
LEMMA ClickArrowInv ==
    ASSUME PickerInv, NEW dir \in {-1, 1}, ClickArrow(dir)
    PROVE  PickerInv'
  <1> DEFINE view == Navigate(picker.viewDate, picker.viewMode, dir)
             r == [picker EXCEPT !.viewDate = view, !.shared = {}]
  <1>1. Good(picker) /\ picker.drawn.view \in Instants
    BY DEF PickerInv
  <1>2. Becomes(Fill(r))
    BY <1>1 DEF ClickArrow, Good, Typed, IsPicker, Fields
  <1> HIDE DEF view
  <1>3. /\ Typed(r) /\ r.date = picker.date /\ r.shared = {} /\ r.input = picker.input
        /\ r.start = picker.start /\ r.end = picker.end
        /\ r.picked = picker.picked /\ r.dragged = picker.dragged
    BY <1>1 DEF Good, Typed, IsPicker, Fields
  <1> HIDE DEF r
  <1>4. Good(r)
    BY <1>1, <1>3, InsideSame DEF Good, SharesView, LimitsSet, Honest, Chosen
  <1>5. Good(Fill(r))
    BY <1>3, <1>4, FillGood, SameGood
  <1> QED BY <1>2, <1>5, BecomesInv

\* Every click in the panel keeps the invariant.
LEMMA ClicksInv ==
    ASSUME PickerInv, Clicks
    PROVE  PickerInv'
  <1>1. ASSUME ClickSwitch PROVE PickerInv'
    <2>1. Good(picker) /\ Becomes(ShowMode(picker, 1)) /\ 1 \in {-1, 0, 1}
      BY <1>1 DEF PickerInv, ClickSwitch
    <2>2. Good(ShowMode(picker, 1))
      BY <2>1, ShowModeGood, SameGood DEF Good
    <2> QED BY <2>1, <2>2, BecomesInv
  <1> QED BY <1>1, ClickTodayInv, ClickArrowInv, ClickMonthInv, ClickYearInv, ClickHourInv,
             ClickMinuteInv, ClickDayInv DEF Clicks

\* The keys compute a date, and take it when it is in the limits.
LEMMA KeysInv ==
    ASSUME PickerInv, Keys
    PROVE  PickerInv'
  <1>0. options \in Options /\ Good(picker) /\ Typed(picker)
    BY DEF PickerInv, Good
  <1>1. ASSUME NEW dir \in {-1, 1}, NEW vertical \in BOOLEAN, NEW up \in 0..2,
               Key(dir, vertical, up)
        PROVE  PickerInv'
    <2> DEFINE date == KeyMoved(picker.date, picker.viewMode + up, dir, vertical)
               r == [picker EXCEPT !.date = date, !.picked = 0]
               set == SetValue(r)
    <2>1. date \in Instants /\ InRange(picker, date) /\ Becomes(Update(set))
      BY <1>1 DEF Key
    <2> HIDE DEF date
    <2>2. /\ Typed(r) /\ r.date = date /\ r.start = picker.start /\ r.end = picker.end
          /\ r.dragged = picker.dragged /\ r.picked = 0
      <3>1. 0 \in Modes
        BY DEF Modes
      <3> QED BY <1>0, <2>1, <3>1 DEF Typed, IsPicker, Fields
    <2> HIDE DEF r
    <2>3. /\ Typed(set) /\ set.date = date /\ set.start = picker.start /\ set.end = picker.end
          /\ set.dragged = picker.dragged /\ set.input = ValueOf(date) /\ set.picked = 0
      BY <1>0, <2>2, SetValueGood
    <2> HIDE DEF set
    <2>4. LimitsSet(set)
      BY <1>0, <2>3 DEF Good, LimitsSet
    <2>5. Honest(set)
      <3> SUFFICES ASSUME ~picker.dragged PROVE Chosen(set, date)
        BY <2>3 DEF Honest
      <3>1. picker.start \in Starts /\ IsEnd(picker.end)
        BY <1>0 DEF Good, LimitsSet, Typed
      <3>2. Inside(picker, 0, ParseDate(FormatDate(date, options.unit)))
        BY <1>0, <2>1, <3>1, RangeInside
      <3>3. ValueOf(date) = FormatDate(date, options.unit)
        BY <1>0, <2>1, ValueIs
      <3> QED BY <2>1, <2>3, <3>2, <3>3, InsideSame DEF Chosen
    <2> QED BY <1>0, <2>1, <2>3, <2>4, <2>5, UpdateGood, BecomesInv
  <1>2. ASSUME Enter PROVE PickerInv'
    BY <1>0, <1>2, StepDownGood, BecomesInv DEF Enter
  <1> QED BY <1>1, <1>2 DEF Keys

\* The constructor reads the text of the field, and establishes the invariant.
LEMMA InitPicker == Init => PickerInv
  <1> SUFFICES ASSUME Init PROVE PickerInv
    OBVIOUS
  <1>1. PICK text \in Texts \cup {Empty}, start \in Starts, end \in Ends :
          /\ start <= end
          /\ picker = ShowMode(Update(
                  [date |-> Null, viewDate |-> Now, start |-> start, end |-> end,
                   shared |-> {}, viewMode |-> options.startView, visible |-> FALSE,
                   input |-> text, data |-> Empty,
                   drawn |-> [view |-> Now, start |-> start, end |-> end],
                   arrows |-> [prev |-> TRUE, next |-> TRUE],
                   picked |-> NotChosen, dragged |-> FALSE]), 0)
          /\ picker.viewDate \in Reach
    BY DEF Init
  <1> DEFINE r == [date |-> Null, viewDate |-> Now, start |-> start, end |-> end,
                   shared |-> {}, viewMode |-> options.startView, visible |-> FALSE,
                   input |-> text, data |-> Empty,
                   drawn |-> [view |-> Now, start |-> start, end |-> end],
                   arrows |-> [prev |-> TRUE, next |-> TRUE],
                   picked |-> NotChosen, dragged |-> FALSE]
  <1>2. options \in Options /\ options.startView \in Modes
    BY OptionsAssumption DEF Init
  <1>3. IsText(text) /\ IsText(Empty) /\ IsStart(start) /\ IsEnd(end) /\ Now \in Instants
    <2>1. IsStart(start)
      BY <1>2, StartIsWhole DEF IsStart
    <2>2. IsEnd(end)
      BY TextsAssumption, ParseDateIs DEF IsEnd, Ends
    <2> QED BY <2>1, <2>2, TextsAssumption, ReachAssumption DEF IsText
  <1>4. IsPicker(r)
    BY DEF IsPicker, Fields
  <1>5. Typed(r)
    <2>1. /\ r.date = Null /\ r.start = start /\ r.end = end /\ r.shared = {}
          /\ r.viewMode = options.startView /\ r.visible = FALSE /\ r.input = text
          /\ r.data = Empty /\ r.drawn.view = Now /\ r.drawn.start = start /\ r.drawn.end = end
          /\ r.arrows = [prev |-> TRUE, next |-> TRUE] /\ r.picked = NotChosen /\ r.dragged = FALSE
      OBVIOUS
    <2> HIDE DEF r
    <2>2. /\ IsPicker(r) /\ (r.date \in Instants \/ r.date = Null)
          /\ IsStart(r.start) /\ IsEnd(r.end) /\ r.shared \subseteq {"date", "start", "end"}
      BY <1>3, <1>4, <2>1
    <2>3. /\ r.viewMode \in Modes /\ r.visible \in BOOLEAN /\ IsText(r.input) /\ IsText(r.data)
          /\ r.picked \in Modes \cup {NotChosen} /\ r.dragged \in BOOLEAN
      BY <1>2, <1>3, <2>1
    <2>4. /\ r.drawn.view \in Instants \/ r.drawn.view = r.viewDate
          /\ IsStart(r.drawn.start) /\ IsEnd(r.drawn.end)
      BY <1>3, <2>1
    <2>5. r.arrows \in [prev : BOOLEAN, next : BOOLEAN]
      BY <2>1
    <2> QED BY <2>2, <2>3, <2>4, <2>5 DEF Typed
  <1>6. picker = ShowMode(Update(r), 0)
    BY <1>1
  <1>7. LimitsSet(r) /\ Honest(r)
    BY <1>1 DEF LimitsSet, Honest
  <1> HIDE DEF r
  <1>8. Good(Update(r))
    BY <1>2, <1>5, <1>7, UpdateGood
  <1>9. Good(ShowMode(Update(r), 0))
    <2>1. 0 \in {-1, 0, 1}
      OBVIOUS
    <2> QED BY <1>8, <2>1, ShowModeGood, SameGood DEF Good
  <1>10. picker.drawn.view \in Instants
    BY <1>1, <1>6, <1>9, ReachAssumption DEF Good, Typed
  <1> QED BY <1>1, <1>2, <1>6, <1>9, <1>10 DEF PickerInv

\* Every call, click and key keeps it.
LEMMA NextPicker == PickerInv /\ [Next]_vars => PickerInv'
  <1> SUFFICES ASSUME PickerInv, [Next]_vars PROVE PickerInv'
    OBVIOUS
  <1>1. CASE Next
    BY <1>1, CallsInv, ClicksInv, KeysInv DEF Next
  <1>2. CASE UNCHANGED vars
    BY <1>2 DEF vars, PickerInv, Good, Typed, SharesView, LimitsSet, Honest, Chosen, Inside,
                CellInRange, SpanInRange, InRange,
                IsStart, IsEnd, IsText, IsPicker
  <1> QED BY <1>1, <1>2

\* The invariant of the picker holds for every calendar, page, limit and text.
THEOREM PickerInvHolds == Spec => []PickerInv
  BY InitPicker, NextPicker, PTL DEF Spec

\* Every date that is kept is in the calendar, and every view in what it may
\* reach, for every text, limit, click and key.
THEOREM PickerTypes == Spec => []TypeOK
  <1>1. PickerInv => TypeOK
    BY DEF PickerInv, Good, Typed, TypeOK
  <1> QED BY <1>1, PickerInvHolds, PTL

\* What a click or a key has chosen is what the text says, and is in the limits
\* as far as its view and the format go, also as it is read back
\* (update:515-544), for all limits and formats.
THEOREM ChosenHolds == Spec => []ChosenIsShownAndInRange
  <1>1. ASSUME PickerInv PROVE ChosenIsShownAndInRange
    <2> SUFFICES ASSUME picker.picked # NotChosen, ~picker.dragged
                 PROVE  LET shown == ParseDate(picker.input)
                        IN /\ picker.input = FormatDate(picker.date, options.unit)
                           /\ CellInRange(picker, picker.picked, shown)
                           /\ picker.picked <= 2 /\ Span(picker.picked) <= options.unit =>
                                InRange(picker, shown)
      BY DEF ChosenIsShownAndInRange
    <2>1. Chosen(picker, picker.date)
      BY <1>1 DEF PickerInv, Good, Honest
    <2> QED BY <2>1 DEF Chosen, Inside
  <1> QED BY <1>1, PickerInvHolds, PTL

\* The moves, the cells and the texts agree with the calendar, whatever its
\* first year and weekday are.
THEOREM ArithmeticHolds == Spec => []ArithmeticAgrees
  <1>1. PickerInv /\ DrawnIsCurrent => ArithmeticAgrees
    BY ArithmeticIs DEF PickerInv
  <1> QED BY <1>1, PickerInvHolds, PanelNeverStale, PTL
===============================================================================
