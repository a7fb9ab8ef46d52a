# pro_code: a TLA+ verification project

`pro_code` is a collection of Java programs: the internal API of a coupon and
risk-control service (`internalapi-root`), an image crawler
(`gecco-java-demo`), messaging and network samples (`hzRabbitMQ`, `ActiveMQ`,
`netty`) and concurrency, Redis and algorithm experiments (`my-test`), and the
scripts of the internal API's web pages (`internalapi/src/main/webapp`: the
widgets of Bootstrap 3.3.4 and a date and time picker). This
directory holds TLA+ models of the parts with a logic of their own, the TLC
configurations that check them on small instances, and TLAPS proofs of their
main properties for all values of the constants.

To check a module: `tlc -config X.cfg M`; to check the proofs: `tlapm M.tla`.

## Inventory

| Part | State | Operations | Interacts through | What is hard | What makes it correct |
|---|---|---|---|---|---|
| Download action queue (`gecco-java-demo`, `exec`) | linked list under a lock, tasks in a thread pool | `enqueue`, `dequeue`, `clear`, `run` | pipelines enqueue; the pool calls `run`; `run` calls `dequeue` | the hand-over to the pool happens after the unlock; actions that throw | one download at a time, in order, none lost |
| Crawl pipelines (`crawler`) | scheduler queue, rows of three tables, files | one `process` per page kind | schedule pages, save rows, enqueue downloads | a failed page ends its category; two images of one millisecond share a path | every page once, a row's file is its picture |
| Coupon grab (`OuterCouponServiceImpl`, `CouponController`) | Redis counter and two kinds of keys, table of codes | `getIphone8Coupon`, `getLastAmout`, `ishasOrderid` | concurrent HTTP requests over Redis and MySQL | check-then-act, effects outside the transaction, failures half way | no more coupons than issued, one owner per code, one coupon per user |
| Risk control (`RiskConServiceImpl`) | two tables, a Redis key per user | register, query, take a test, last test, compare | concurrent requests over MySQL and Redis, no transaction | overlapping tests, lost keys, failures between statements | one valid test per user, the key agrees with the table |
| Request statistics (`RequestCount`) | a static counter, a Redis total per day | `requestCount` | called by every request thread | unsynchronized increments around the limit | every request counted once |
| Blocking queue (`BlockingQueue<T>`) | ring buffer, a lock, two conditions | `put`, `take` | threads share it | signals to the right condition, wrap of the indexes | bounded FIFO, nobody sleeps without reason |
| Flash sale (`rdis.MyRunnable`) | stock key, outcome keys | one purchase | buyers share Redis with WATCH/MULTI/EXEC | conflicts, exceptions after EXEC | no oversale, records match sales |
| Read-write lock cache (`CacheDemo`), shared data (`Queue3`) | map under a read-write lock | `get`, `put` | threads | changing a read lock for a write lock | cached values are served |
| Counter, deadlock and finalizer experiments | counters, monitors | increments, nested locks | threads | lost updates, lock order | totals, progress |
| Sorting (`QuickSort`, `BubbleSort`) | an array | sort | - | partition bounds | sorted permutation |
| RabbitMQ, ActiveMQ, netty samples | queues, sessions, connections | send, receive, acknowledge, close | brokers, sockets | redelivery, unacknowledged messages, shutdown | nothing acknowledged is lost |
| Date and time picker (`bootstrap-datetimepicker.js`) | date, view date, limits, view mode, text, drawn cells | `update`, `fill`, `showMode`, clicks, keys, setters | user and page; objects shared between fields | one date object under several names, month arithmetic, panels drawn earlier than they are clicked | the panel shows what a click does; a chosen date is shown and in the limits |
| Modal (`modal.js`, `bootstrap.js`) | shown or not, backdrops, padding of the body, bound handlers, waiting callbacks | `show`, `hide`, `toggle`, `backdrop`, `escape` | user, page, transitions, timers | calls in the middle of transitions | at rest, the page agrees with `isShown` |
| Carousel (`bootstrap.js`) | active item, interval, waiting calls | `cycle`, `pause`, `next`, `prev`, `to`, `slide` | user, page, interval, transitions | calls during a slide, lost intervals | one item, one interval, no call forgotten |
| Tooltip (`bootstrap.js`) | hover state, timeout, callbacks | `enter`, `leave`, `show`, `hide`, `destroy` | mouse, focus, timers | late timeouts, a user who comes back | a tip nobody wants goes away |
| Collapse (`bootstrap.js`) | classes, data and triggers of panels | `show`, `hide`, `toggle` | clicks, transitions | clicks while panels move, objects dropped | one panel open, triggers agree |
| Alert, button, dropdown, popover, scrollspy, tab, affix; cookies, workarounds, translations | - | - | - | layout, strings | not modelled |
| Rights and feedback services, entities, mappers, JVM demonstrations, Mockito examples | - | - | - | read-only queries, data carriers | not modelled |

`PROJECT.json` lists every part with its sources, and every hazard with the
line where it bites and the property that watches it.

## Modules

Each module names the source it follows in its header, and `PROJECT.json`
("map") gives the source lines of every definition. Operators named "Mutant
of" are faulty variants of an action; each shows that some property notices
the fault.

### ActionQueue, SerialExecutor

`queue` is the linked list. A thread's `pc` is `idle`, `submit` (outside the
lock, about to call `executor.execute`), `run` (inside `execute()`) or
`finally`; `held` is its local `action` or `nextAction`; `submitted` is what
waits in the pool. The two synchronized blocks are the actions `Enqueue` and
`Dequeue`; the hand-over after each of them is `Submit`. `ExecuteThrows` is
the exceptional path of `Action.run`. The pool is modelled from its use: it
may start any waiting task on any idle thread. `clear` has no caller in the
repository, so it is only part of `SpecWithClear`.

`SerialExecutor` is what the pipelines rely on: actions run one at a time, in
the order of submission, each once. `ActionQueue` implements it: `running` is
what workers are executing, `pending` the list without a head that has been
started. The pool could run five downloads at once; that it never does is a
consequence of the queue alone.

### CouponGrab

A request walks through the statements of `getIphone8Coupon`; `pc` names the
next one, or the answer. Redis commands act at once; the update of the table
takes effect at `Commit`, because the method is `@Transactional`, and `Fail`
may happen at any statement: it gives up the row lock and leaves the Redis
keys. The mapper is in another artifact, so whether its select locks the row
is the constant `LockingSelect`; what depends on it says so. `ticket` is the
value the request got from INCR. The orderid is whatever the client sends, and
nothing checks whose it is: `OrderOf` may give several requests, of several
users, one order, whose key line 98 then writes over. So `OneOwnerPerCode` lets
table and answer agree on one owner, but asks of an order's key only that it
names a code which one of the order's own requests got, is about to get or gave
back.

### RiskControl

A test is named by the request that takes it. `stored` and `valid` are the
rows of `RC_UserTestRecord` and those with flag 1, `cache` the Redis key of
each user, `investors` the registrations inserted. There is no transaction in
this service, so every statement is a step of its own and `Fail` undoes
nothing. A record, in Redis or in a request's `found`, is about a test and has
all that `saveTest` knows, or is the row of the table, which has no rank
(`BaseResultMap`), or has the rank and nothing else: that is what
`getUserRecord` makes of a row and puts back (lines 332 to 337). A userid may be
null or empty (`NullId`, `EmptyId`), since no code of the repository tests it
(the service's interface has no controller here): the select of the tests then
has no condition and finds anybody's (`Matching`), while the update compares the
userid as it is; the select of investors drops a null userid, not an empty one.
`rankColumn` is the type of column `risk_rank_value`, which no script
of the repository declares, so an initial state chooses it: the code casts it
to `Integer` where it saves a test (line 249) and to `String` where it falls
back to the table (line 336), so for each type one of the two paths
always throws. `LoseKey` is Redis without the key. `ClientOf` groups requests
that one client sends one after another; `MaxSent` bounds how many are sent.

### BoundedQueue, BoundedFifo

The ring buffer with its two conditions. What a thread does between getting
the lock and giving it up is one action; a waiter that is signalled goes back
to the lock and tests its condition again. `BoundedFifo` is a bounded buffer
with a put and a take; `Contents`, the items from head to tail, is the
refinement mapping.

### Seckill

A buyer does WATCH, GET, MULTI/INCRBY/EXEC and SETNX. `touched` is the set of
connections whose watch is broken. MULTI and INCRBY only queue on the server,
so they take place with EXEC. `ExecReplyLost` is an EXEC that Redis ran and
whose answer did not arrive.

### Calendar, DateTimePicker

`Calendar` is the picker's arithmetic. An instant is a number of minutes, a
month a number counted from the first year; the setters of `Date`, which carry
what overflows, are external, and `moveMonth`, `formatDate`, `parseDate` and
the first cell of a panel are translated from the code. `MonthDay` is the
first day of a month in closed form, `MonthTable` the same as a table that TLC
fills once. The loops that pull an overflowed day back are written out for
three turns, which is as far as a 31st can be from the end of a month (proved:
`ResetDayIs`, `ParseDateIs`), and the loop of `moveMonth` as its twelve or 120
turns. `MonthsLater` is the reference `moveMonth` is compared with.

Three assumptions say what a page may set: texts have the parts of a date; the
format of the field shows days, hours or minutes, whatever the views that the
options name, and the start date is written in it (with a format of days, a
start at noon would enable a day that is read back as before it); the clock
and what `viewDate` may reach are in the calendar, ten years from its ends.

The widget is the record `picker`, a method an operator from record to record,
and a handler the composition of the methods it calls, in their order. `drawn`
is what the last `fill` drew the cells from: whether a cell can be clicked
(`DayEnabled` ... `YearEnabled`) is decided by it, what the click does by
`viewDate`. JavaScript dates are mutable, and `_setDate`, `setUTCDate` and the
button for today let two or three fields hold one object: `shared` names the
fields that hold the object of `viewDate`, and `Mutate` is a setter called on
it. `picked` and `dragged` are history: the view in which the date was chosen,
if it was, and whether a click has moved the date or a limit since by the
shared object. `ChosenIsShownAndInRange` asks of every choice that the text says
it and that its cell meets the limits (`CellInRange`: some minute of its minute,
hour or day does, or its month or year is not outside theirs), and of the date
itself where it was chosen by minute, hour or day and the format shows nothing
finer.

### Modal, Carousel, Tooltip, Collapse, Page

The four widgets of `bootstrap.js` with states that last: between a call and
the end of its transition anything else may be called. Each is a record as
above. A callback of `emulateTransitionEnd` is an element of a sequence per
element of the page. An end of transition moves all that wait on its element
to `ending`, and they run one by one in their order, with nothing between them
(`RunCallback`, `TipRun`); a callback that hides or shows again may then append
to the element's sequence.

* `Modal` numbers the backdrops of the page and names the handlers that are
  bound, so that a key or a click is possible only while its handler is there.
  Timers count ticks, because the code needs the backdrop (150 ms) to come
  before the dialog (300 ms).
* `Carousel` numbers the browser's intervals, of which the object remembers
  one. `queue` holds the calls of `to()` that wait for the event `slid`;
  `heard` those the event is making, one by one, with nothing in between.
* `Tooltip` keeps `hoverState`, the timeout and the tip's callbacks. History:
  `wanted` is what mouse, focus or page asked for last, and FALSE after
  `destroy` and for a user who leaves a destroyed tooltip; `abandoned` says
  that the callback of `destroy` ran while the user was there. What such a
  tooltip leaves behind (a tip, callbacks, a timeout) goes on running; the
  plugin is called again (`TipAgain`) only after one that leaves nothing.
* `Collapse` is an accordion: one record per panel, with its class, its
  trigger and the callbacks that wait on it. `data` is the object of a panel, made on its
  first use, and `own` tells whether a waiting callback belongs to the object
  the panel still has. History: `lost`, a panel opened after line 590 dropped
  the object of one that moves; `misread`, a constructor that read the class of
  a moving panel.
* `Page` puts them on one page. They share no state, so a behaviour uses one
  of them.

## Runs

| Run | Instance | Question |
|---|---|---|
| `ActionQueue` | 2 producers, 2 pool threads, 4 actions | serial, ordered, nothing lost, refinement with liveness |
| `ActionQueueClear` | the same with `clear` | does the list still drain? |
| `CouponGrab` | 4 requests of 2 users for 2 orders, one of them named by three requests of both users, 2 coupons, 3 codes, locking select | quota, owners, messages, refusals, answers |
| `CouponGrabShort` | 1 code, select without lock | the null entity and overwritten owners: does every request still end? |
| `CouponGrabTwice` | as `CouponGrab` | finding: two coupons for one user |
| `RiskControl` | any 4 of 9 requests, of a user with 1 client, a user with 2, a null and an empty userid, both column types | records shown are of stored tests, gaps have a cause, table and key agree for requests in turn |
| `RiskControlFallback` | the same | finding: the fallback ends in a cast error |
| `BoundedQueue` | 3 threads, 2 items, ring of 2 | refinement, ring, takers; deadlock is checked |
| `BoundedQueueStranded` | the same | finding: a put sleeps although there is room |
| `Seckill` | 4 buyers, 2 items | stock, records, "sold out", end |
| `DateTimePicker` | 1990 to 2034, 9 instants of `viewDate` around the end of February, two configurations, limits or none | panel, text, limits and calendar agree |
| `Page` | 3 items, 3 panels, every configuration of carousel and tooltip, seven of the modal | calls and clicks in the midst of transitions |

Why the bounds are enough. Two pool threads suffice for an overlap, two
producers for a race of enqueues, and four actions for one running, one handed
over and two behind it. Four requests of two users give a user who asks twice,
more requests than coupons, and two transactions on one row with a third
behind; three requests of both users for one order let each key be written over
by the same and by another user. In the risk control instance two clients of
one user let tests overlap, another user has a row to replace or to fall back
to, and callers without a userid find the tests of both; four requests are
enough for a registration, two overlapping tests and a reader, and for a
test, a failure, a lost key and a comparison of one user in turn. A ring
of two slots wraps after two items, and with three threads
waiters of both conditions meet. Four buyers for two items conflict, lose and
come too late. The picker's `viewDate` may stand on 9 instants: the end of
January, the first and the last of February and the first of March of a leap
year, at midnight, five past and one o'clock, and days of the year after and ten
years on, so that overflow of a day, of a month and of a leap year, each view
and each unit of the keys occur. The limits, the last of February and the first
of March, leave out what a month or a year sets (1 February, which lies in the
month of the start), and one of the two configurations selects months and
years in a format of hours; the user also types 30 February. Dates, texts and limits follow
from them and are not bounded by it; a step whose `viewDate` would leave `Reach`
is not taken. Three items give a carousel a neighbour on each side, three
panels a first, a middle and a last active one. A modal may have two backdrops,
what a show during a hide leaves behind; two calls of `to()`, two callbacks on a
panel and three on a tip wait together, and a modal is shown or hidden while one
callback at most waits on each element (`MaxPending`). A key computes
dates inside the years of the calendar. The runs use no symmetry and no state constraints; every
bound is the size of a constant. Deadlock checking is off where all requests
end, and on for the blocking queue, whose callers never run out (a stranded
put is not a TLC deadlock there, since it may still be interrupted; it is
checked as an invariant of its own).

### Findings

* Overlapping requests of one user get several coupons
  (`OuterCouponServiceImpl`, lines 69 and 97).
* The fallback of `getUserRecord` always ends in a cast error when tests can
  be saved at all.
* `BlockingQueue.take` signals the wrong condition.

The web widgets have corners that their properties name and exclude, since no
text of the repository says how they should behave:

* After `reset` the picker has no date and `fill` returns at once (line 566):
  navigation then moves the view under cells that stay, and a click picks
  another day than it shows. `DrawnIsCurrent` is about pickers with a date.
* A click on a month, year, hour or day changes `viewDate` in place (lines 925
  to 966, 1013); where it is also the date or a limit (after today has been
  clamped to it), that moves too (`dragged`).
* Where months or years set the date (`viewSelect` 3 or 4), a month or a year
  that overlaps the limits sets a day that may lie outside them (lines 933 and
  944): with a start on 29 February, February sets the first. A day, or an hour, sets
  the time of `viewDate`, which a format of hours or minutes shows, and
  which may lie outside the limits on that day. The months after the end are
  disabled one too early (line 727), and a click on a year keeps the day, so 29
  February becomes 1 March (line 936).
* A modal shown while its hide is in transition leaves a backdrop behind or is
  hidden again (`hurried`). A hide during a show settles, but for the class
  `in` and the focus handler, which the late callback of the show sets again.
* The first opening beside a panel that the page came with drops the objects of
  the active panels (line 590), those that move too; a click then opens a
  second panel (`lost`).
* A tooltip entered while it fades out stays in the page, invisible, until the
  user leaves; and `hide()` called without animation on a tip that has been
  entered again does not take it away (so `hide()` ends what was `wanted` only
  where the user is not there).
* `destroy()` takes the handlers away when the tip has faded out (line 1684). A
  user who enters before that keeps the tip in the page (line 1541), or is
  promised one by a timeout that still fires (line 1370), and leaving it has no
  effect any more: the tip stays (`abandoned`).

More weaknesses are visible in the Java models and have no run of their own,
because no text of the repository promises otherwise or because nothing
triggers them yet: `clear` while an action runs leads `dequeue` into the
states it logs as errors; a coupon request that fails after the INCR uses up a
coupon; overlapping calls of `addInvestorInfo` insert two rows; after two
overlapping tests the Redis key may hold the one whose row was invalidated; an
order submitted twice, or by two users, has a key with the code of the last
one to write it, which may have failed; a record put back by the fallback has
the rank only, so that `lastTestInfo` answers without a date until the next
test; and a null or empty userid is shown the rank of anybody's test, and a
null one leaves all its tests valid. The properties that hold say where the border is (`OneClientIsConsistent`,
`AmountIsAvailable`).

## Fairness

Liveness is checked under weak fairness of steps a scheduler owes. A pool
thread or a producer that can go on does (`execute()` ends because the
connection has connect and read timeouts of 5 s); nobody owes an `enqueue` or
a `clear`. A coupon request that has begun goes on, since each has a server
thread; no fairness is assumed of arrival or failure. A buyer is a task of a
pool that runs its tasks to the end. Of the widgets only the tooltip has a
liveness property: its timeouts run, and every callback that waits has a
timeout of its own (`emulateTransitionEnd`), so both are weakly fair, as is the
loop over the handlers of one event (`TipRun`); nobody owes a call or a
movement of the mouse. Blocking queue and risk control have no
liveness property: the calls of the first depend on other callers, and in the
second nothing waits.

## Proofs

The theorems hold for any number of threads, requests, users, buyers, for any
capacity, issue and stock, under the named assumptions on the constants (sets
disjoint from null, counts natural numbers, capacity positive; for the risk
control at most one valid old row per user; orders may be shared in any way), and, for the web page, for any
options, limits, texts, years, number of items and of panels, and any durations
of which the backdrop's is the shorter. Each safety invariant a passing run
checks is proved.

* `ActionQueueProofs`. The invariant `IInv` says that there is exactly one
  token while the list is not empty, carried by a thread or a pool task, and
  that it carries the head of the list. `OneToken` alone is not inductive: an
  enqueue on an empty list makes a token, so one has to know that there was
  none, which follows only from "no token while the list is empty". That the
  head of a list is always in someone's hands is part of it: a hand-over that
  is lost would stop the downloads for good. The same
  invariant gives the refinement of `SerialExecutor`: a hand-over is a
  stutter, `Start` is the abstract start, `ExecuteReturns` the abstract finish.
* `CouponGrabProofs`. The tickets INCR hands out are distinct, never above the
  counter, and only tickets up to `IssueCount` let a request go on; winners
  map one to one into `1..IssueCount`, hence the quota. The amount shown and
  the emptiness of the table follow from the same map and from "an owned row
  names a winner". With a locking select `Rows` adds that a request between
  its select and its commit holds the lock of a row nobody owns, and that an
  order's key names the code of one of its requests that is past line 98
  (`Wrote`): the last to write it, which later writers replace and which a
  failure leaves there.
* `BoundedQueueProofs`. The ring invariant relates indexes, count and
  occupied slots for every capacity; the refinement shows how the sequence of
  items changes when the head moves or a slot at the tail is filled.
* `SeckillProofs`. A buyer about to EXEC whose watch is not broken read the
  present stock; the numbers the served buyers got are exactly the numbers
  from the stock up to the total, so they can be counted.
* `RiskControlProofs`. Two invariants: `IInv`, for overlapping requests, and
  `TurnInv`, which adds for a named user with one client that only one request
  of the user is at work and what its next statement may rely on. Callers
  without a userid change neither that user's rows nor key, which the proof
  says of every step of another user.
* `DateTimePickerProofs`. That the panel is never stale is inductive for a
  picker with a date only when each method is looked at as a whole: several
  change the limits or the view before they draw. The proof says of every
  method what it does to `Fresh(q)` ("without a date, or drawn from the present
  view and limits"): `Update`, `SetPickerDate` and what ends in `Fill` establish
  it whatever the picker was, `Show`, `Hide`, `ShowMode` and `SetValue` keep it.
  Each handler is then a composition.

  The calendar comes before it, for any first year and any number of years.
  From the leap years counted in closed form: months follow each other without
  a gap and are 28 to 31 days long; so the month that `Month` chooses exists
  and is the only one; so an instant is what its month, day and minute make it
  (`InstantParts`). Then the code: a day too many lands in the next month of
  the same year, which has 31 days, and one turn of the loop takes one day back
  (`BackIs`), so that `moveMonth` is `MonthsLater` for one month, for twelve and
  for 120, a text is read as its parts, and a text that was written is read back
  less what its format does not show. `ArithmeticAgrees` follows.

  For `ChosenIsShownAndInRange` the record carries `Typed` (every date in the
  calendar, every text one that `parseDate` reads), `SharesView` (a shared field
  has the value of `viewDate`), `LimitsSet` (until a click drags one, the start
  is a date of the page and not after the end) and `Honest`, which is the
  property with the date itself, as far as a choice in its view is in the limits
  (`Inside`). The property alone is not inductive: `hide`
  writes the text again from the date, and a click on a cell that changes
  `viewDate` in place may change a limit. The step that needs the calendar is
  rounding: a cell is enabled by its own time, and the text shows less of it;
  since the start has no more than the format shows, what is read back is
  still after it (`ShownInRange`), and so is the cell of a finer view
  (`ShownInside`), its month and its year (`ShownMonth`, `YearIs`).
* `CarouselProofs`. `OneItemOneSlide`, `OneInterval` and `QueueIsHeard` are not
  inductive together. `CarouselInv` adds that during a slide exactly one
  callback waits, from the active item to another, at which the indicator
  already stands, that none waits and the indicator agrees at rest, and that a
  paused carousel, or one without the option, holds no interval: without it
  `pause`, which may start the interval that it clears, could lose one.
* `PageProofs`. `PageInv` is the conjunction of the widgets' invariants; a step
  of the page is a step of one widget and leaves the records of the others, and
  the carousel's part is cited from `CarouselProofs`.
  * Modal. Types need that a backdrop number is free whenever one is made: the
    backdrops of the page and the callbacks of hide that may still make one are
    never more than there are numbers while it is shown (`Room`), and the rest
    is a pigeonhole.
    `ModalSettles` speaks of rest, so the invariant describes the way there:
    a modal that has not been `hurried` is in one of four phases (shown, hiding
    its dialog, hiding its backdrop, hidden), with at most one callback on
    each element (`Slots`), one backdrop, the one it holds (`Held`), and the
    show of a backdrop due before the hide that was asked for later
    (`Ordered`). The last is where the durations come in: it holds because the
    backdrop's is the shorter.
  * Collapse. A panel is at rest or in one transition that its object knows of
    (`Settled`), at most one is open or opening, and the triggers say so
    (`Orderly`); a step that is not covered says so in `lost` or `misread`
    (`Keeps`). Opening a panel asks only the first active one whether it moves.
    As long as no object has been dropped that is enough: if it does not, it is
    at rest and so the one panel that is open, and the other active ones are
    closing already.
  * Tooltip. No user is there for a tip that is not wanted or whose tooltip is
    destroyed (`TipCalm`), so that no timeout will show it; a destroyed
    tooltip has no tip in the page (`Gone`); and one that is there and not wanted
    has a timeout or a callback that takes it away (`SeenOff`). Each part says
    `~abandoned`. `TipIsSeenOff` is the safety half of `TipGoesAway`.
  * Carousel. Its types follow from `CarouselInv` and `CarouselFlagged`.

Only model-checked: the liveness properties (`SerialFairness`, `Drains`,
`EveryRequestAnswered`, `EveryBuyerEnds`, `TipGoesAway`), since liveness under
fairness is out of the prover's reach; the instances with `clear`, of which
nothing is promised; and the three findings, which are counterexamples.

## What the models leave out

The bytes a download writes and the http clients it leaves open; the text of
answers and messages; the thread pools of the message service; the scoring of
a risk test, of which only the outcome (a result or an exception) matters to
the order of steps; parameter checks of the coupon controller, which answer
before anything is read; the expiry of keys, which the code never sets.

Of the picker: the mouse wheel, `remove()`, `setFormat`, weekdays, hours and
minutes that are disabled, the meridian views, texts relative to today ("+1d"),
seconds, the place of the widget, and options that switch off keys or the
forced parse. Of the other widgets: events that a page prevents, remote content
and the focus after a modal, where a tip is placed, calls for a panel that was
never initialised, a panel with several triggers. Alert, button, dropdown and
tab change classes at once or at the end of one transition, the popover is a
tooltip, scrollspy and affix compute with the layout of the page, and
`jquery.cookie.js`, the browser workarounds and the translations keep no state.

## Plan

The widgets of the web pages, which the first plan left out, have come first,
since they are the largest body of code with a state of its own here. Next:

1. `Crawler`: index, list and detail pages, the scheduler queue, the three
   tables and the files, composed with `ActionQueue` (`INSTANCE`); abstract
   specification: every picture of the site gets one row and, unless its
   download failed, a file of its own. Runs with a clock that may stand still
   between two images.
2. `RequestCount`: increments as read and write steps, the flush, two
   processes; abstract specification: a counter of requests.
3. `Messaging`: producer, broker and consumers of `hzRabbitMQ`, with crashes
   before the acknowledgement and redelivery; the transacted session and the
   receive loop of `ActiveMQ`.
4. `Hello`: server handler and client of `netty`, connections that open, send
   lines and close in any order.
5. `LockLab`: the read-write lock of `CacheDemo` and `Queue3`, the four
   counters of `volatileTest`, the lock order of `DeadLockTest`.
6. `Sorting`: both sorts as operators over bounded arrays against a reference
   definition; the bubble sort also as a state machine whose invariant can be
   proved.
7. Proofs: the pages of the crawl are scheduled once; the counter never
   exceeds the number of requests; an acknowledged message was handled; the
   loop invariant of the bubble sort.
