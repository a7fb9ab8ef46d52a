--------------------------- MODULE MCDateTimePicker ---------------------------
\* Bounds: 1990 to 2034, so that ten years back and forth stay in the
\* calendar; viewDate on days around the end of February of a leap year, in
\* the neighbouring months and years, at three times of day.
EXTENDS DateTimePicker

At(year, month, day, minute) ==
    Instant(12 * (year - FirstYear) + month - 1, day, minute)

MCReach == {At(2012, 1, 31, 60), At(2012, 2, 1, 0)}
           \cup {At(2012, 2, 29, minute) : minute \in {0, 5, 60}}
           \cup {At(2012, 3, 1, minute) : minute \in {0, 60}}
           \cup {At(2013, 3, 1, 0), At(2022, 2, 28, 0)}

MCOptions ==
    {[minView |-> 0, viewSelect |-> 0, startView |-> 2, autoclose |-> FALSE, unit |-> 1],
     [minView |-> 1, viewSelect |-> 4, startView |-> 4, autoclose |-> TRUE, unit |-> 60]}

MCStartTexts == {FormatDate(At(2012, 2, 29, 0), Day)}

MCEndTexts == {FormatDate(At(2012, 3, 1, 0), Day)}

\* 30 February is among what the user types.
MCTexts == {[month |-> 12 * (2012 - FirstYear) + 1, day |-> 30, minute |-> 0],
            FormatDate(At(2012, 1, 31, 60), 1)}

MCNow == At(2012, 3, 1, 60)
===============================================================================
