------------------------------- MODULE Carousel -------------------------------
(***************************************************************************)
(* The carousel of bootstrap.js.  A slide with a transition takes time:    *)
(* next() and prev() are dropped meanwhile and to(pos) waits for the event *)
(* `slid`, which a timeout of zero triggers after the slide.  Intervals of *)
(* the browser are numbered; the object holds the one it has set last.     *)
(***************************************************************************)
EXTENDS Integers, Sequences, FiniteSets

CONSTANTS Items,         \* number of items
          MaxQueue,      \* bound: calls of to() that wait
          SlideOptions   \* what the page configures

ASSUME CarouselAssumption ==
    /\ Items \in Nat \ {0, 1} /\ MaxQueue \in Nat
    /\ \A o \in SlideOptions : /\ o.wrap \in BOOLEAN /\ o.animate \in BOOLEAN
                               /\ o.interval \in BOOLEAN

VARIABLES slideOptions, carousel

carouselVars == <<slideOptions, carousel>>

Positions == 0..(Items - 1)
NoInterval == 0
IntervalIds == 1..3

TheActive(q) == CHOOSE i \in Positions : i \in q.active

-------------------------------------------------------------------------------
ClearInterval(q) ==
    [q EXCEPT !.intervals = @ \ {q.interval}, !.interval = NoInterval]

SetInterval(q) ==
    LET id == CHOOSE i \in IntervalIds : i \notin q.intervals
    IN [q EXCEPT !.intervals = @ \cup {id}, !.interval = id]

\* Mutant of Cycle: the interval that runs is not cleared.
CycleAgain(q, byEvent) ==
    LET unpaused == IF byEvent THEN q ELSE [q EXCEPT !.paused = FALSE]
    IN IF q.cycles /\ ~unpaused.paused THEN SetInterval(unpaused) ELSE unpaused

\* cycle(e)
Cycle(q, byEvent) ==
    LET unpaused == IF byEvent THEN q ELSE [q EXCEPT !.paused = FALSE]
        cleared == [unpaused EXCEPT !.intervals = @ \ {q.interval}]
    IN IF q.cycles /\ ~unpaused.paused THEN SetInterval(cleared) ELSE cleared

\* pause(e): during a slide it triggers an end of transition too, but on the
\* carousel, and what waits is on an item.
Pause(q, byEvent) ==
    LET paused == IF byEvent THEN q ELSE [q EXCEPT !.paused = TRUE]
    IN ClearInterval(IF q.waiting # << >> THEN Cycle(paused, TRUE) ELSE paused)

\* Mutant of ItemForDirection: the item after the last is not the first.
ItemUnwrapped(type, active) ==
    LET next == active + (IF type = "prev" THEN -1 ELSE 1)
    IN IF next \notin Positions /\ ~slideOptions.wrap THEN active ELSE next

\* getItemForDirection
ItemForDirection(type, active) ==
    LET delta == IF type = "prev" THEN -1 ELSE 1
        willWrap == active + delta \notin Positions
    IN IF willWrap /\ ~slideOptions.wrap THEN active ELSE (active + delta) % Items

\* slide(type, next), from next(), prev() and to().
Slide(q, next) ==
    LET isCycling == q.interval # NoInterval
        paused == IF isCycling THEN Pause([q EXCEPT !.sliding = TRUE], FALSE)
                  ELSE [q EXCEPT !.sliding = TRUE]
        shown == [paused EXCEPT !.indicator = next]
        slid == IF slideOptions.animate
                THEN [shown EXCEPT !.waiting = Append(@, [from |-> TheActive(q), to |-> next])]
                ELSE [shown EXCEPT !.active = (@ \ {TheActive(q)}) \cup {next},
                                   !.sliding = FALSE]
    IN IF next \in q.active THEN [q EXCEPT !.sliding = FALSE]
       ELSE IF isCycling THEN Cycle(slid, FALSE) ELSE slid

\* next() and prev()
Step(q, type) ==
    IF q.sliding THEN q ELSE Slide(q, ItemForDirection(type, TheActive(q)))

\* to(pos)
To(q, pos) ==
    IF pos \notin Positions THEN q
    ELSE IF q.sliding THEN [q EXCEPT !.queue = Append(@, pos)]
    ELSE IF pos \in q.active THEN Cycle(Pause(q, FALSE), FALSE)
    ELSE Slide(q, pos)

\* The transition of an item ends, or its timer is up.
EndOfSlide(q) ==
    LET slide == Head(q.waiting)
    IN [q EXCEPT !.waiting = Tail(@),
                 !.active = (@ \cup {slide.to}) \ {slide.from},
                 !.sliding = FALSE, !.slid = TRUE]

\* The event takes the calls that wait off the queue and makes them, one by
\* one in their order; one that finds a slide under way waits for the next.
SlidEvent(q) == [q EXCEPT !.heard = q.queue, !.queue = << >>, !.slid = FALSE]

Hear(q) == To([q EXCEPT !.heard = Tail(@)], Head(q.heard))

\* The constructor; the page's options may have no interval.
Construct(q, cycles) == [q EXCEPT !.made = TRUE, !.cycles = cycles]

-------------------------------------------------------------------------------
\* Nothing comes between the calls that an event makes.
SlidesTo(q) == carousel.heard = << >> /\ carousel' = q /\ UNCHANGED slideOptions

Made == IF carousel.made THEN carousel ELSE Construct(carousel, slideOptions.interval)

\* data-ride at the load of the page, or carousel(options).
Ride == SlidesTo(IF slideOptions.interval THEN Cycle(Pause(Made, FALSE), FALSE) ELSE Made)

\* Calls, arrow keys, and clicks on the arrows.
CallStep == \E type \in {"next", "prev"} : SlidesTo(Step(Made, type))

CallPause == SlidesTo(Pause(Made, FALSE))

CallCycle == SlidesTo(Cycle(Made, FALSE))

CallTo == /\ Len(carousel.queue) < MaxQueue
          /\ \E pos \in Positions \cup {Items} : SlidesTo(To(Made, pos))

\* A click on an indicator: a carousel it constructs has no interval.
ClickIndicator ==
    /\ Len(carousel.queue) < MaxQueue
    /\ \E pos \in Positions :
         SlidesTo(To(IF carousel.made THEN carousel ELSE Construct(carousel, FALSE), pos))

MouseEnter == carousel.made /\ SlidesTo(Pause(carousel, TRUE))

MouseLeave == carousel.made /\ SlidesTo(Cycle(carousel, TRUE))

\* An interval of the browser: each that runs calls next().
IntervalFires == carousel.intervals # {} /\ SlidesTo(Step(carousel, "next"))

\* A timeout of zero is over before a slide of 600 ms is.
EndSlide == /\ carousel.waiting # << >> /\ ~carousel.slid
            /\ SlidesTo(EndOfSlide(carousel))

Slid == carousel.slid /\ SlidesTo(SlidEvent(carousel))

HearCall == /\ carousel.heard # << >>
            /\ carousel' = Hear(carousel) /\ UNCHANGED slideOptions

CarouselInit ==
    /\ slideOptions \in SlideOptions
    /\ carousel = [made |-> FALSE, cycles |-> FALSE, active |-> {0}, indicator |-> 0,
                   sliding |-> FALSE, waiting |-> << >>, slid |-> FALSE, queue |-> << >>,
                   heard |-> << >>, paused |-> FALSE, interval |-> NoInterval, intervals |-> {}]

CarouselNext == \/ Ride \/ CallStep \/ CallPause \/ CallCycle \/ CallTo \/ ClickIndicator
                \/ MouseEnter \/ MouseLeave \/ IntervalFires \/ EndSlide \/ Slid
                \/ HearCall

CarouselSpec == CarouselInit /\ [][CarouselNext]_carouselVars

-------------------------------------------------------------------------------
CarouselTypeOK ==
    /\ slideOptions \in SlideOptions
    /\ {carousel.made, carousel.cycles, carousel.sliding, carousel.slid, carousel.paused}
         \subseteq BOOLEAN
    /\ carousel.active \subseteq Positions /\ carousel.indicator \in Positions
    /\ carousel.interval \in {NoInterval} \cup IntervalIds
    /\ carousel.intervals \subseteq IntervalIds
    /\ carousel.queue \in Seq(Positions) /\ carousel.heard \in Seq(Positions)

\* The carousel never shows two items nor none, its indicator is on the item
\* shown or on the one that comes, and it slides once at a time and only while
\* a callback waits that will end it;
OneItemOneSlide ==
    /\ Cardinality(carousel.active) = 1
    /\ IF carousel.sliding
       THEN \E i \in Positions :
              /\ carousel.waiting = <<[from |-> TheActive(carousel), to |-> i]>>
              /\ carousel.indicator = i /\ i \notin carousel.active
       ELSE carousel.waiting = << >> /\ carousel.active = {carousel.indicator}

\* no interval runs but the one the object can clear, so that the carousel
\* moves one item in an interval;
OneInterval == carousel.intervals = {carousel.interval} \ {NoInterval}

\* and a call of to() that waits is not forgotten: a slide under way, or the
\* event it has triggered, will make it.
QueueIsHeard == carousel.queue # << >> => carousel.sliding \/ carousel.slid

\* Whatever the order of calls, clicks, hovering, intervals and ends of slides
\* (lines 345 to 460).
CarouselKeepsStep == OneItemOneSlide /\ OneInterval /\ QueueIsHeard
===============================================================================
