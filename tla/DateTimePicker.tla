---------------------------- MODULE DateTimePicker ----------------------------
(***************************************************************************)
(* bootstrap-datetimepicker.js: a picker attached to an input with a       *)
(* calendar button and a reset button.  The widget is a record and a       *)
(* method is an operator on the record, so that a handler is the           *)
(* composition of the methods it calls, in their order.                    *)
(*                                                                         *)
(* date and viewDate are JavaScript objects that _setDate, setUTCDate and  *)
(* the button for today make one and the same, while a click on a month,   *)
(* year, hour or day changes viewDate in place: `shared` names the fields  *)
(* that are the object of viewDate.                                        *)
(***************************************************************************)
EXTENDS Calendar

CONSTANTS Options,  \* what the page configures
          Reach,    \* bound: the instants viewDate may reach
          Texts,    \* what the user types, apart from nothing
          StartTexts, EndTexts,  \* texts given as start and end date
          Now,      \* the clock
          Null, Empty

VARIABLES options, picker

vars == <<options, picker>>

Modes == 0..4    \* minutes, hours, days, months, years

NoStart == -1                           \* -Infinity
NoEnd == MonthStart(12 * Years) * Day   \* Infinity

MinuteStep == 5

Starts == {NoStart} \cup {ParseDate(text) : text \in StartTexts}

Ends == {NoEnd} \cup {ParseDate(text) : text \in EndTexts}

\* What is typed and configured has the parts of a date.
ASSUME TextsAssumption == /\ Texts \cup StartTexts \cup EndTexts \subseteq Parsed
                          /\ Empty \notin Parsed /\ Null \notin Instants

\* The page writes the start date in the format of the field, which shows days,
\* hours or minutes whatever the view that sets the date.
ASSUME OptionsAssumption ==
    \A o \in Options :
      /\ o.minView \in Modes /\ o.startView \in Modes /\ o.viewSelect \in Modes
      /\ o.autoclose \in BOOLEAN
      /\ o.unit \in {1, 60, Day}
      /\ \A text \in StartTexts : text.minute % o.unit = 0

ASSUME ReachAssumption ==
    /\ Now \in Instants /\ Reach \subseteq Instants
    /\ \A t \in Reach : Month(t) - 120 >= 0 /\ Month(t) + 120 < 12 * Years

Year(t) == Month(t) \div 12

InRange(q, t) == q.start <= t /\ t <= q.end

\* History, `picked`: the view the date was chosen in, if it was.
NotChosen == -1

-------------------------------------------------------------------------------
\* updateNavArrows: part by part, as many parts as the view mode shows.
Parts(t) == LET k == Month(t)
            IN <<k \div 12, k % 12, t \div Day - MonthStart(k) + 1, Minute(t) \div 60>>

PartsShown(mode) == IF mode >= 3 THEN 1 ELSE 4 - mode

UpdateNavArrows(q) ==
    LET shown == 1..PartsShown(q.viewMode)
        view == Parts(q.viewDate)
        start == Parts(q.start)
        end == Parts(q.end)
    IN [q EXCEPT !.arrows =
          [prev |-> ~(q.start # NoStart /\ \A i \in shown : view[i] <= start[i]),
           next |-> ~(q.end # NoEnd /\ \A i \in shown : view[i] >= end[i])]]

\* What fill draws its cells from.
Drawing(q) == [view |-> q.viewDate, start |-> q.start, end |-> q.end]

\* fill: nothing is drawn while there is no date.
Fill(q) ==
    IF q.date = Null THEN q ELSE [UpdateNavArrows(q) EXCEPT !.drawn = Drawing(q)]

\* Mutant of ShowMode: the mode is not held between minutes and years.
ShowModeUnbounded(q, dir) ==
    UpdateNavArrows(IF dir # 0 THEN [q EXCEPT !.viewMode = @ + dir] ELSE q)

ShowMode(q, dir) ==
    LET asked == q.viewMode + dir
        mode == IF asked < 0 THEN 0 ELSE IF asked > 4 THEN 4 ELSE asked
    IN UpdateNavArrows(IF dir # 0 /\ mode >= options.minView
                       THEN [q EXCEPT !.viewMode = mode] ELSE q)

SetValue(q) ==
    LET text == IF q.date = Null THEN Empty ELSE FormatDate(q.date, options.unit)
    IN [q EXCEPT !.input = text, !.data = text]

\* Mutant of Update: the panel is not drawn again.
UpdateUndrawn(q) ==
    LET date == IF q.input # Empty THEN ParseDate(q.input)
                ELSE IF q.data # Empty THEN ParseDate(q.data) ELSE Now
        view == IF date < q.start THEN q.start ELSE IF date > q.end THEN q.end ELSE date
    IN [q EXCEPT !.date = date, !.viewDate = view, !.shared = {}]

\* update: the text of the input, else the last formatted value, else the
\* initial date; new objects, viewDate clamped to the limits.
Update(q) ==
    LET date == IF q.input # Empty THEN ParseDate(q.input)
                ELSE IF q.data # Empty THEN ParseDate(q.data) ELSE Now
        view == IF date < q.start THEN q.start ELSE IF date > q.end THEN q.end ELSE date
    IN Fill([q EXCEPT !.date = date, !.viewDate = view, !.shared = {}])

Show(q) == [Update(q) EXCEPT !.visible = TRUE]

\* hide, with the forced parse of the default options.
Hide(q) ==
    LET closed == ShowMode([q EXCEPT !.viewMode = options.startView], 0)
    IN IF ~q.visible THEN q
       ELSE [(IF q.input # Empty THEN SetValue(closed) ELSE closed)
             EXCEPT !.visible = FALSE]

\* _setDate(date); `limit` names the limit that is the object given.
SetPickerDate(q, date, limit) ==
    SetValue(Fill([q EXCEPT !.date = date, !.viewDate = date,
                            !.shared = {"date"} \cup limit]))

\* The setters of viewDate change every field that is the same object.
Mutate(q, t) ==
    [q EXCEPT !.viewDate = t,
              !.date = IF "date" \in q.shared THEN t ELSE @,
              !.start = IF "start" \in q.shared THEN t ELSE @,
              !.end = IF "end" \in q.shared THEN t ELSE @]

\* History: a field has been changed through viewDate and not set again.
Drags(q, t, fields) == t # q.viewDate /\ q.shared \cap fields # {}

\* The end of a click in a panel, and of the enter key.
StepDown(q) ==
    LET down == IF q.viewMode = 0 THEN Fill(q) ELSE Fill(ShowMode(q, -1))
    IN IF options.autoclose /\ down.viewMode = q.viewMode THEN Hide(down) ELSE down

\* A click on a cell in the view `mode` moves viewDate to t and, from the view
\* that selects on, sets the date s.  A month or a year is taken whatever the
\* limits.  A cell of a panel that is not drawn as things are promises nothing.
PickCell(q, mode, t, s) ==
    LET moved == Mutate(q, t)
        picked == SetPickerDate(moved, s, {})
    IN StepDown(IF options.viewSelect >= mode
                THEN [picked EXCEPT
                        !.picked = IF q.drawn = Drawing(q) THEN mode ELSE NotChosen,
                        !.dragged = @ \/ Drags(q, t, {"start", "end"})]
                ELSE [moved EXCEPT
                        !.dragged = @ \/ Drags(q, t, {"date", "start", "end"})])

-------------------------------------------------------------------------------
Becomes(q) == /\ picker' = q
              /\ picker'.viewDate \in Reach
              /\ UNCHANGED options

Pick(mode, t, s) == /\ (IF options.viewSelect >= mode THEN s ELSE t) \in Reach
                    /\ Becomes(PickCell(picker, mode, t, s))

PickOne(mode, t) == Pick(mode, t, t)

\* focus on the input, click on its button, escape on a hidden picker.
OnShow == Becomes(Show(picker))

\* escape, tab, a mouse button pressed outside.
OnHide == picker.visible /\ Becomes(Hide(picker))

\* A text is typed: keyup calls update.
Type(text) == Becomes(Update([picker EXCEPT !.input = text, !.picked = NotChosen]))

\* setStartDate and setEndDate, called by the page with limits that leave a
\* range.
SetStartDate(start) ==
    /\ start <= picker.end
    /\ Becomes(UpdateNavArrows(Update([picker EXCEPT
         !.start = start, !.shared = @ \ {"start"}, !.picked = NotChosen])))

SetEndDate(end) ==
    /\ picker.start <= end
    /\ Becomes(UpdateNavArrows(Update([picker EXCEPT
         !.end = end, !.shared = @ \ {"end"}, !.picked = NotChosen])))

\* setUTCDate, called by the page; out of range it only tells so.
SetUTCDate(t) ==
    /\ InRange(picker, t)
    /\ LET set == SetValue([picker EXCEPT !.date = t, !.picked = 0])
       IN Becomes(Fill([set EXCEPT !.viewDate = t, !.shared = {"date"}]))

\* The reset button: viewDate stays, and fill has nothing to draw.
Reset == Becomes(SetValue(Fill([picker EXCEPT
           !.date = Null, !.shared = @ \ {"date"}, !.picked = NotChosen])))

\* The head of a panel.
ClickSwitch == picker.visible /\ Becomes(ShowMode(picker, 1))

Navigate(t, mode, dir) ==
    CASE mode = 0 -> t + 60 * dir
      [] mode = 1 -> t + Day * dir
      [] mode = 2 -> MoveMonth(t, dir)
      [] mode = 3 -> MoveYear(t, dir)
      [] mode = 4 -> MoveYear(t, 10 * dir)

\* Bound: a move by months is worked out when Reach has its month.
ReachHas(t, months) == \E r \in Reach : Month(r) = Month(t) + months

ClickArrow(dir) ==
    /\ picker.visible
    /\ IF dir = -1 THEN picker.arrows.prev ELSE picker.arrows.next
    /\ LET mode == picker.viewMode
       IN /\ mode >= 2 => ReachHas(picker.viewDate, dir * <<1, 12, 120>>[mode - 1])
          /\ Becomes(Fill([picker EXCEPT
               !.viewDate = Navigate(@, mode, dir), !.shared = {}]))

\* The button for today hands over the limit itself when today is outside.
ClickToday ==
    /\ picker.visible
    /\ LET low == Now < picker.start
           high == ~low /\ Now > picker.end
           date == IF low THEN picker.start ELSE IF high THEN picker.end ELSE Now
           same == IF low THEN {"start"} ELSE IF high THEN {"end"} ELSE {}
           home == ShowMode([picker EXCEPT !.viewMode = options.startView], 0)
           set == Fill([SetPickerDate(home, date, same) EXCEPT !.picked = 0])
       IN Becomes(IF options.autoclose THEN Hide(set) ELSE set)

-------------------------------------------------------------------------------
\* Cells are what the last fill drew; a disabled cell only tells that it is
\* out of range.  A cell of minutes is enabled when a part of it is in the
\* limits.
SpanEnabled(t, span) == t + span > picker.drawn.start /\ t <= picker.drawn.end

DayEnabled(c) == SpanEnabled((GridStart(picker.drawn.view) + c - 1) * Day, Day)

HourEnabled(h) == SpanEnabled((picker.drawn.view \div Day) * Day + h * 60, 60)

\* Mutant of MinuteEnabled: the limits are not looked at.
MinuteAlwaysEnabled(i) == i % MinuteStep = 0

MinuteEnabled(i) == /\ i % MinuteStep = 0
                    /\ SpanEnabled((picker.drawn.view \div 60) * 60 + i, 1)

\* The slices count two spans of the head: months before the start are
\* disabled, and one more than those after the end.
MonthEnabled(m) ==
    LET year == Year(picker.drawn.view)
        start == picker.drawn.start
        end == picker.drawn.end
    IN /\ start # NoStart => year > Year(start) \/ (year = Year(start) /\ m >= Month(start) % 12)
       /\ end # NoEnd => year < Year(end) \/ (year = Year(end) /\ m < (Month(end) % 12) - 1)

\* The decade of the drawn year, and a year on each side.
YearEnabled(year) ==
    LET drawn == picker.drawn
        decade == ((FirstYear + Year(drawn.view)) \div 10) * 10
    IN /\ FirstYear + year \in (decade - 1)..(decade + 10)
       /\ drawn.start # NoStart => year >= Year(drawn.start)
       /\ drawn.end # NoEnd => year <= Year(drawn.end)

ClickMonth(m) ==
    /\ picker.visible /\ picker.viewMode = 3 /\ MonthEnabled(m)
    /\ LET view == picker.viewDate
       IN PickOne(3, Instant(12 * Year(view) + m, 1, Minute(view)))

\* viewDate goes to the first of the month; the date keeps its day, which may
\* overflow.
ClickYear(year) ==
    /\ picker.visible /\ picker.viewMode = 4 /\ YearEnabled(year)
    /\ LET view == picker.viewDate
           k == 12 * year + (Month(view) % 12)
       IN Pick(4, Instant(k, 1, Minute(view)), Instant(k, Date(view), Minute(view)))

ClickHour(h) ==
    /\ picker.visible /\ picker.viewMode = 1 /\ HourEnabled(h)
    /\ LET view == picker.viewDate
       IN PickOne(1, (view \div Day) * Day + h * 60 + (view % 60))

ClickMinute(i) ==
    /\ picker.visible /\ picker.viewMode = 0 /\ MinuteEnabled(i)
    /\ PickOne(0, (picker.viewDate \div 60) * 60 + i)

\* Mutant of DayPicked: a day of the month before is taken for one of this.
DayPickedHere(drawn, view, c) ==
    Instant(Month(view), Date((GridStart(drawn) + c - 1) * Day), Minute(view))

\* The day a click on cell c picks: its number, in the month of viewDate or
\* in a neighbour, as the class of the drawn cell says.
DayPicked(drawn, view, c) ==
    LET cell == (GridStart(drawn) + c - 1) * Day
        old == Month(cell) < Month(drawn)
        new == Month(cell) > Month(drawn)
    IN Instant(Month(view) + (IF old THEN -1 ELSE IF new THEN 1 ELSE 0),
               Date(cell), Minute(view))

ClickDay(c) ==
    /\ picker.visible /\ picker.viewMode = 2 /\ DayEnabled(c)
    /\ PickOne(2, DayPicked(picker.drawn.view, picker.viewDate, c))

-------------------------------------------------------------------------------
\* Arrow keys move by the unit of the view; control looks two views up, shift
\* one.  Beyond the years no date is computed and none is in range; without a
\* date the handler throws before it has changed anything.
KeyMoved(t, mode, dir, vertical) ==
    CASE mode = 0 -> t + dir * MinuteStep * (IF vertical THEN 4 ELSE 1)
      [] mode = 1 -> t + dir * 60 * (IF vertical THEN 4 ELSE 1)
      [] mode = 2 -> t + dir * Day * (IF vertical THEN 7 ELSE 1)
      [] mode = 3 -> MoveMonth(t, dir)
      [] mode = 4 -> MoveYear(t, dir)

Key(dir, vertical, up) ==
    LET mode == picker.viewMode + up
    IN /\ picker.visible /\ picker.date # Null /\ mode \in Modes
       /\ mode >= 3 => ReachHas(picker.date, dir * <<1, 12>>[mode - 2])
       /\ LET date == KeyMoved(picker.date, mode, dir, vertical)
          IN /\ InRange(picker, date)
             /\ date \in Instants   \* bound: the years of the calendar
             /\ Becomes(Update(SetValue([picker EXCEPT !.date = date, !.picked = 0])))

\* The enter key, or a click beside the cells of a panel.
Enter == picker.visible /\ Becomes(StepDown(picker))

-------------------------------------------------------------------------------
\* The constructor.
Init == /\ options \in Options
        /\ \E text \in Texts \cup {Empty},
              start \in Starts, end \in Ends :
             /\ start <= end
             /\ picker = ShowMode(Update(
                  [date |-> Null, viewDate |-> Now, start |-> start, end |-> end,
                   shared |-> {}, viewMode |-> options.startView, visible |-> FALSE,
                   input |-> text, data |-> Empty,
                   drawn |-> [view |-> Now, start |-> start, end |-> end],
                   arrows |-> [prev |-> TRUE, next |-> TRUE],
                   picked |-> NotChosen, dragged |-> FALSE]), 0)
             /\ picker.viewDate \in Reach

Calls == \/ \E text \in Texts \cup {Empty} : Type(text)
         \/ \E start \in Starts : SetStartDate(start)
         \/ \E end \in Ends : SetEndDate(end)
         \/ \E text \in Texts : SetUTCDate(ParseDate(text))
         \/ Reset \/ OnShow \/ OnHide

Clicks == \/ ClickSwitch \/ ClickToday
          \/ \E dir \in {-1, 1} : ClickArrow(dir)
          \/ \E m \in 0..11 : ClickMonth(m)
          \/ \E year \in 0..(Years - 1) : ClickYear(year)
          \/ \E h \in 0..23 : ClickHour(h)
          \/ \E i \in 0..59 : ClickMinute(i)
          \/ \E c \in 1..42 : ClickDay(c)

Keys == \/ \E dir \in {-1, 1}, vertical \in BOOLEAN, up \in 0..2 : Key(dir, vertical, up)
        \/ Enter

Next == Calls \/ Clicks \/ Keys

Spec == Init /\ [][Next]_vars

-------------------------------------------------------------------------------
IsStart(t) == t \in Instants \/ t = NoStart

IsEnd(t) == t \in Instants \/ t = NoEnd

IsText(text) == text \in Parsed \/ text = Empty

TypeOK == /\ options \in Options
          /\ picker.date \in Instants \/ picker.date = Null
          /\ picker.viewDate \in Reach
          /\ IsStart(picker.start) /\ IsEnd(picker.end)
          /\ picker.shared \subseteq {"date", "start", "end"}
          /\ picker.viewMode \in Modes /\ picker.visible \in BOOLEAN
          /\ IsText(picker.input) /\ IsText(picker.data)
          /\ picker.drawn.view \in Instants
          /\ IsStart(picker.drawn.start) /\ IsEnd(picker.drawn.end)
          /\ picker.arrows \in [prev : BOOLEAN, next : BOOLEAN]
          /\ picker.picked \in Modes \cup {NotChosen} /\ picker.dragged \in BOOLEAN

\* No stale panel: while there is a date, the cells on the screen are those
\* of viewDate and of the limits in force, so that a click means what it
\* shows (fill:565 returns early without a date, and then they are not).
DrawnIsCurrent == picker.date # Null => picker.drawn = Drawing(picker)

\* What a cell is in the limits for: a part of its minute, hour or day is, its
\* month is not before that of the start nor after that of the end, its year
\* likewise.
Span(mode) == <<1, 60, Day>>[mode + 1]

SpanInRange(q, t, span) == t - (t % span) + span > q.start /\ t - (t % span) <= q.end

CellInRange(q, mode, t) ==
    /\ mode <= 2 => SpanInRange(q, t, Span(mode))
    /\ mode = 3 => /\ q.start # NoStart => Month(t) >= Month(q.start)
                   /\ q.end # NoEnd => Month(t) <= Month(q.end)
    /\ mode = 4 => /\ q.start # NoStart => Year(t) >= Year(q.start)
                   /\ q.end # NoEnd => Year(t) <= Year(q.end)

\* What a click on a current panel, a key or setUTCDate has chosen is what the
\* text says, and its cell is in the limits, also after the text has been
\* formatted, parsed and formatted again.  The date itself is in the limits
\* when it was chosen by the minute, hour or day and the format shows no finer
\* part; a month or a year sets its day whatever the limits (lines 933 and
\* 944), and a finer format shows the time of viewDate.  A click that has since
\* changed the date or a limit through the shared object (lines 925 to 966 and
\* 1013) is left out.
ChosenIsShownAndInRange ==
    picker.picked # NotChosen /\ ~picker.dragged =>
        LET shown == ParseDate(picker.input)
        IN /\ picker.input = FormatDate(picker.date, options.unit)
           /\ CellInRange(picker, picker.picked, shown)
           /\ picker.picked <= 2 /\ Span(picker.picked) <= options.unit =>
                InRange(picker, shown)

\* The arithmetic agrees with the calendar: a move by months keeps the day or
\* stops at the end of the month, a click on a cell of the panel picks the day
\* the cell shows, and a text read back gives the instant it was written from.
MovesAgree == picker.viewMode >= 2 =>
    \A n \in {-12, -1, 1, 12} :
      MoveMonth(picker.viewDate, n) = MonthsLater(picker.viewDate, n)

CellsAgree == picker.visible /\ picker.viewMode = 2 /\ picker.date # Null =>
    LET drawn == picker.drawn.view
        view == picker.viewDate
    IN \A c \in 1..42 :
         DayPicked(drawn, view, c) = (GridStart(drawn) + c - 1) * Day + Minute(view)

TextsAgree == ParseDate(FormatDate(picker.viewDate, 1)) = picker.viewDate

ArithmeticAgrees == MovesAgree /\ CellsAgree /\ TextsAgree
===============================================================================
