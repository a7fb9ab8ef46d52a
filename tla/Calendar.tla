------------------------------- MODULE Calendar -------------------------------
(***************************************************************************)
(* The date arithmetic of bootstrap-datetimepicker.js.  An instant is the  *)
(* number of minutes since the first of January of FirstYear; a month is   *)
(* its number since then, so that setUTCMonth(-1) and setUTCMonth(12) are  *)
(* the neighbours of the year.  Years bounds the calendar.  The setters of *)
(* Date carry what overflows: 31 February is a day in March.               *)
(***************************************************************************)
EXTENDS Integers, Sequences

CONSTANTS FirstYear,    \* first year of the calendar
          FirstWeekday, \* weekday of its first of January, 0 for Sunday
          Years         \* bound: number of years

ASSUME CalendarAssumption == /\ FirstYear \in Nat
                             /\ FirstWeekday \in 0..6
                             /\ Years \in Nat \ {0}

Day == 1440

isLeapYear(year) == (year % 4 = 0 /\ year % 100 # 0) \/ year % 400 = 0

getDaysInMonth(k) ==
    <<31, IF isLeapYear(FirstYear + k \div 12) THEN 29 ELSE 28,
      31, 30, 31, 30, 31, 31, 30, 31, 30, 31>>[(k % 12) + 1]

\* The leap years before a year, and the first days of years and of months,
\* counted from the first of January of FirstYear.
LeapsBefore(year) == (year - 1) \div 4 - (year - 1) \div 100 + (year - 1) \div 400

YearStart(y) == 365 * y + LeapsBefore(FirstYear + y) - LeapsBefore(FirstYear)

MonthDay(k) ==
    LET past == <<0, 31, 59, 90, 120, 151, 181, 212, 243, 273, 304, 334>>
        leap == IF k % 12 > 1 /\ isLeapYear(FirstYear + k \div 12) THEN 1 ELSE 0
    IN YearStart(k \div 12) + past[(k % 12) + 1] + leap

MonthTable == [k \in 0..(12 * Years) |-> MonthDay(k)]

MonthStart(k) == MonthTable[k]

Months == 0..(12 * Years - 1)

Instants == 0..(MonthStart(12 * Years) * Day - 1)

\* Date.UTC
Instant(k, day, minute) == (MonthStart(k) + day - 1) * Day + minute

Month(t) == LET day == t \div Day
            IN CHOOSE k \in (12 * day) \div 366 .. (12 * day) \div 365 + 1 :
                 k < 12 * Years /\ MonthStart(k) <= day /\ day < MonthStart(k + 1)

Date(t) == t \div Day - MonthStart(Month(t)) + 1

Minute(t) == t % Day

\* setUTCDate and setUTCMonth, which counts from January of the year of t.
SetDate(t, day) == Instant(Month(t), day, Minute(t))

SetMonth(t, m) == Instant(12 * (Month(t) \div 12) + m, Date(t), Minute(t))

-------------------------------------------------------------------------------
\* while (test()) { setUTCDate(--day); setUTCMonth(m) }, where the test is
\* that the month is one of `wrong`: a day is at most three too many.
ResetDay(t, day, m, wrong) ==
    LET back(s, d) == IF Month(s) % 12 \in wrong THEN SetMonth(SetDate(s, d), m) ELSE s
    IN back(back(back(t, day - 1), day - 2), day - 3)

\* moveMonth by one: 31 January, one month on, is the end of February.
MoveOneMonth(t, dir) ==
    LET month == Month(t) % 12
        newMonth == (month + dir + 12) % 12
    IN ResetDay(SetMonth(t, month + dir), Date(t), newMonth,
                IF dir = -1 THEN {month} ELSE (0..11) \ {newMonth})

\* The loop of moveMonth, over the months of a year or of ten years.
Then(f, g) == [t \in Int |-> g[f[t]]]

Twice(f) == Then(f, f)

Thrice(f) == Then(f, Twice(f))

FiveTimes(f) == Then(f, Twice(Twice(f)))

MoveTwelve(unit) == Twice(Twice(Thrice([t \in Int |-> MoveOneMonth(t, unit)])))

MoveDecade(unit) == Twice(FiveTimes(MoveTwelve(unit)))

\* moveMonth: by one month; or month by month and then back to the day of the
\* start, pulled into the month it has reached.
MoveMonth(t, dir) ==
    LET unit == IF dir > 0 THEN 1 ELSE -1
        moved == IF dir \in {-12, 12} THEN MoveTwelve(unit)[t] ELSE MoveDecade(unit)[t]
        newMonth == Month(moved) % 12
    IN IF dir \in {-1, 1} THEN MoveOneMonth(t, dir)
       ELSE ResetDay(SetDate(moved, Date(t)), Date(t), newMonth, (0..11) \ {newMonth})

MoveYear(t, dir) == MoveMonth(t, dir * 12)

\* What moveMonth promises: the same day and time n months later, or the last
\* day of that month.
MonthsLater(t, n) ==
    LET k == Month(t) + n
        last == getDaysInMonth(k)
    IN Instant(k, IF Date(t) < last THEN Date(t) ELSE last, Minute(t))

-------------------------------------------------------------------------------
\* The parts of a text that are read; 31 February is among them.
Parsed == [month : Months, day : 1..31, minute : 0..(Day - 1)]

\* formatDate, for formats down to the day, the hour or the minute: the parts
\* a text holds.
FormatDate(t, unit) ==
    [month |-> Month(t), day |-> Date(t), minute |-> (Minute(t) \div unit) * unit]

\* parseDate: the setters in the order hours, minutes, year, month, day, on a
\* 31 December; the setter of the month steps back out of an overflow, which
\* is of three days at most.
ParseDate(text) ==
    LET m == text.month % 12
        dec31 == Instant(12 * (text.month \div 12) + 11, 31, text.minute)
        back(s) == IF Month(s) % 12 # m THEN SetDate(s, Date(s) - 1) ELSE s
    IN SetDate(back(back(back(SetMonth(dec31, m)))), text.day)

\* The first of the 42 days drawn for the month of t, weeks from Sunday: the
\* week that holds the last day of the month before.
GridStart(t) == LET last == MonthStart(Month(t)) - 1
                IN last - ((last + FirstWeekday) % 7)
===============================================================================
