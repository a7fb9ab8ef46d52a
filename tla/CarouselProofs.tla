---------------------------- MODULE CarouselProofs ----------------------------
(***************************************************************************)
(* The carousel keeps step for any number of items and any options.  The   *)
(* methods are operators on the record of the widget, so that what each of *)
(* them keeps is a lemma on the record, and an action is a composition.    *)
(***************************************************************************)
EXTENDS Carousel, FiniteSetTheorems, TLAPS

Fields == {"made", "cycles", "active", "indicator", "sliding", "waiting", "slid", "queue",
           "heard", "paused", "interval", "intervals"}

\* A record with the fields of the widget.
IsCarousel(q) == q = [f \in Fields |-> q[f]]

\* One item, one indicator, one slide at most.
Slides(q) ==
    \E a \in Positions :
      /\ q.active = {a}
      /\ IF q.sliding
         THEN \E b \in Positions : /\ b # a /\ q.indicator = b
                                   /\ q.waiting = <<[from |-> a, to |-> b]>>
         ELSE q.waiting = << >> /\ q.indicator = a

Queues(q) == /\ q.queue \in Seq(Positions) /\ q.heard \in Seq(Positions)
             /\ q.queue # << >> => q.sliding \/ q.slid

\* The interval held is the one that runs; while cycle has a stale one, none.
Tight(q) == /\ q.interval \in {NoInterval} \cup IntervalIds
            /\ q.intervals = {q.interval} \ {NoInterval}

Loose(q) == q.intervals \subseteq {q.interval}

\* A carousel that is paused, or has no interval in its options, holds none:
\* pause leaves none behind, and slide does not resume.
Quiet(q) == /\ q.paused \/ ~q.cycles => q.interval = NoInterval
            /\ q.cycles => q.made

\* The inductive invariant.
Well(q) == IsCarousel(q) /\ Slides(q) /\ Queues(q) /\ Tight(q) /\ Quiet(q)

\* What cycle and pause leave alone.
SameSlide(q, r) == /\ r.made = q.made /\ r.cycles = q.cycles /\ r.active = q.active
                   /\ r.indicator = q.indicator /\ r.sliding = q.sliding
                   /\ r.waiting = q.waiting /\ r.slid = q.slid
                   /\ r.queue = q.queue /\ r.heard = q.heard

-------------------------------------------------------------------------------
LEMMA SameSlideKeeps ==
    ASSUME NEW q, NEW r, SameSlide(q, r), Slides(q), Queues(q)
    PROVE  Slides(r) /\ Queues(r)
  BY DEF SameSlide, Slides, Queues

LEMMA SlidesAlike ==
    ASSUME NEW q, NEW r, Slides(q),
           r.active = q.active, r.indicator = q.indicator,
           r.sliding = q.sliding, r.waiting = q.waiting
    PROVE  Slides(r)
  BY DEF Slides

\* getItemIndex finds the one item that is active.
LEMMA OneActive ==
    ASSUME NEW q, NEW a \in Positions, q.active = {a}
    PROVE  TheActive(q) = a
  BY DEF TheActive

\* setInterval finds a number that is free.
LEMMA SetIntervalTight ==
    ASSUME NEW q, IsCarousel(q), q.intervals = {}
    PROVE  LET r == SetInterval(q)
           IN /\ IsCarousel(r) /\ SameSlide(q, r) /\ Tight(r)
              /\ r.paused = q.paused
  <1> DEFINE id == CHOOSE i \in IntervalIds : i \notin q.intervals
             r == [q EXCEPT !.intervals = @ \cup {id}, !.interval = id]
  <1>1. SetInterval(q) = r
    BY DEF SetInterval
  <1>2. id \in IntervalIds /\ id # NoInterval
    <2>1. 1 \in IntervalIds /\ 1 \notin q.intervals
      BY DEF IntervalIds
    <2>2. id \in IntervalIds
      BY <2>1
    <2> QED BY <2>2 DEF IntervalIds, NoInterval
  <1> HIDE DEF id
  <1>3. IsCarousel(r) /\ SameSlide(q, r) /\ r.paused = q.paused
        /\ r.interval = id /\ r.intervals = {id}
    BY DEF IsCarousel, Fields, SameSlide
  <1> HIDE DEF r
  <1> QED BY <1>1, <1>2, <1>3 DEF Tight

\* r is what cycle makes of q, when q holds no more than the interval it clears.
Cycled(q, r, byEvent) ==
    /\ IsCarousel(r) /\ SameSlide(q, r) /\ Loose(r)
    /\ r.paused = IF byEvent THEN q.paused ELSE FALSE
    /\ \/ r.cycles /\ ~r.paused /\ Tight(r)
       \/ (r.paused \/ ~r.cycles) /\ r.interval = q.interval /\ r.intervals = {}

\* cycle clears what runs and, unless paused or without an interval in the
\* options, sets one anew; else it keeps the number it has cleared.
LEMMA CycleKeeps ==
    ASSUME NEW q, IsCarousel(q), Loose(q), NEW byEvent \in BOOLEAN
    PROVE  Cycled(q, Cycle(q, byEvent), byEvent)
  <1> DEFINE unpaused == IF byEvent THEN q ELSE [q EXCEPT !.paused = FALSE]
             cleared == [unpaused EXCEPT !.intervals = @ \ {q.interval}]
             r == Cycle(q, byEvent)
  <1>1. /\ IsCarousel(unpaused) /\ SameSlide(q, unpaused)
        /\ unpaused.paused = IF byEvent THEN q.paused ELSE FALSE
        /\ unpaused.interval = q.interval /\ unpaused.intervals = q.intervals
    BY DEF IsCarousel, Fields, SameSlide
  <1>2. r = IF q.cycles /\ ~unpaused.paused THEN SetInterval(cleared) ELSE cleared
    BY DEF Cycle
  <1> HIDE DEF unpaused, r
  <1>3. /\ IsCarousel(cleared) /\ SameSlide(unpaused, cleared)
        /\ cleared.paused = unpaused.paused
        /\ cleared.interval = q.interval /\ cleared.intervals = {}
    BY <1>1 DEF IsCarousel, Fields, SameSlide, Loose
  <1> HIDE DEF cleared
  <1>4. CASE q.cycles /\ ~unpaused.paused
    <2>1. /\ IsCarousel(r) /\ SameSlide(cleared, r) /\ Tight(r)
          /\ r.paused = cleared.paused
      BY <1>2, <1>3, <1>4, SetIntervalTight
    <2> QED BY <1>1, <1>3, <1>4, <2>1 DEF Cycled, SameSlide, Tight, Loose, r
  <1>5. CASE ~(q.cycles /\ ~unpaused.paused)
    BY <1>1, <1>2, <1>3, <1>5 DEF Cycled, SameSlide, Loose, r
  <1> QED BY <1>4, <1>5

\* pause leaves no interval, whether or not it cycles on the way.
LEMMA PauseKeeps ==
    ASSUME NEW q, IsCarousel(q), Loose(q), NEW byEvent \in BOOLEAN
    PROVE  LET r == Pause(q, byEvent)
           IN /\ IsCarousel(r) /\ SameSlide(q, r)
              /\ r.paused = IF byEvent THEN q.paused ELSE TRUE
              /\ r.interval = NoInterval /\ r.intervals = {}
  <1> DEFINE paused == IF byEvent THEN q ELSE [q EXCEPT !.paused = TRUE]
             last == IF q.waiting # << >> THEN Cycle(paused, TRUE) ELSE paused
             r == Pause(q, byEvent)
  <1>1. /\ IsCarousel(paused) /\ SameSlide(q, paused) /\ Loose(paused)
        /\ paused.paused = IF byEvent THEN q.paused ELSE TRUE
    BY DEF IsCarousel, Fields, SameSlide, Loose
  <1>2. r = ClearInterval(last)
    BY DEF Pause
  <1> HIDE DEF paused, r
  <1>3. /\ IsCarousel(last) /\ SameSlide(paused, last) /\ Loose(last)
        /\ last.paused = paused.paused
    BY <1>1, CycleKeeps DEF Cycled, SameSlide
  <1> HIDE DEF last
  <1>4. /\ IsCarousel(r) /\ SameSlide(last, r) /\ r.paused = last.paused
        /\ r.interval = NoInterval /\ r.intervals = {}
    BY <1>2, <1>3 DEF ClearInterval, IsCarousel, Fields, SameSlide, Loose
  <1> QED BY <1>1, <1>3, <1>4 DEF SameSlide, r
-------------------------------------------------------------------------------
\* The methods that move.
LEMMA WrapsAround ==
    ASSUME NEW type, NEW a \in Positions
    PROVE  ItemForDirection(type, a) \in Positions
  <1> Items \in Nat /\ Items > 0
    BY CarouselAssumption
  <1> QED BY DEF ItemForDirection, Positions

LEMMA SlideKeeps ==
    ASSUME NEW q, Well(q), ~q.sliding, NEW next \in Positions
    PROVE  Well(Slide(q, next))
  <1> PICK a \in Positions : q.active = {a} /\ q.waiting = << >> /\ q.indicator = a
    BY DEF Well, Slides
  <1> IsCarousel(q) /\ TheActive(q) = a
    BY OneActive DEF Well
  <1>1. CASE next \in q.active
    <2> DEFINE r == [q EXCEPT !.sliding = FALSE]
    <2>1. /\ IsCarousel(r) /\ r.active = {a} /\ r.waiting = << >> /\ r.indicator = a
          /\ ~r.sliding /\ r.queue = q.queue /\ r.heard = q.heard /\ r.slid = q.slid
          /\ r.interval = q.interval /\ r.intervals = q.intervals
          /\ r.paused = q.paused /\ r.cycles = q.cycles /\ r.made = q.made
      BY DEF IsCarousel, Fields
    <2>2. Slide(q, next) = r
      BY <1>1 DEF Slide
    <2> HIDE DEF r
    <2>3. Slides(r)
      BY <2>1 DEF Slides
    <2> QED BY <2>1, <2>2, <2>3 DEF Well, Queues, Tight, Quiet
  <1>2. CASE next \notin q.active
    <2> DEFINE isCycling == q.interval # NoInterval
               start == [q EXCEPT !.sliding = TRUE]
               paused == IF isCycling THEN Pause(start, FALSE) ELSE start
               shown == [paused EXCEPT !.indicator = next]
               pair == [from |-> a, to |-> next]
               waits == [shown EXCEPT !.waiting = Append(@, pair)]
               done == [shown EXCEPT !.active = (@ \ {a}) \cup {next}, !.sliding = FALSE]
               slid == IF slideOptions.animate THEN waits ELSE done
               r == Slide(q, next)
    <2>1. /\ IsCarousel(start) /\ Loose(start) /\ start.sliding = TRUE
          /\ start.made = q.made /\ start.cycles = q.cycles /\ start.active = q.active
          /\ start.waiting = q.waiting /\ start.slid = q.slid
          /\ start.queue = q.queue /\ start.heard = q.heard /\ start.paused = q.paused
          /\ start.interval = q.interval /\ start.intervals = q.intervals
      BY DEF IsCarousel, Fields, Loose, Well, Tight
    <2> HIDE DEF start
    <2>2. /\ IsCarousel(paused) /\ SameSlide(start, paused)
          /\ paused.interval = NoInterval /\ paused.intervals = {}
          /\ ~isCycling => paused.paused = q.paused
      <3>1. CASE isCycling
        <4> DEFINE p == Pause(start, FALSE)
        <4>1. /\ IsCarousel(p) /\ SameSlide(start, p)
              /\ p.interval = NoInterval /\ p.intervals = {}
          BY <2>1, PauseKeeps
        <4> HIDE DEF p
        <4> QED BY <3>1, <4>1 DEF p
      <3>2. CASE ~isCycling
        BY <2>1, <3>2 DEF SameSlide, Well, Tight
      <3> QED BY <3>1, <3>2
    <2>3. TheActive(paused) = a
      BY <2>1, <2>2, OneActive, ZenonT(60) DEF SameSlide
    <2> HIDE DEF paused
    <2>4. /\ IsCarousel(shown) /\ shown.indicator = next /\ shown.sliding = TRUE
          /\ shown.made = q.made /\ shown.cycles = q.cycles /\ shown.active = q.active
          /\ shown.waiting = q.waiting /\ shown.slid = q.slid
          /\ shown.queue = q.queue /\ shown.heard = q.heard
          /\ shown.interval = NoInterval /\ shown.intervals = {}
          /\ ~isCycling => shown.paused = q.paused
      BY <2>1, <2>2 DEF IsCarousel, Fields, SameSlide
    <2>5. r = IF isCycling THEN Cycle(slid, FALSE) ELSE slid
      BY <1>2 DEF Slide, paused, start
    <2> HIDE DEF shown, r, isCycling
    <2>6. /\ IsCarousel(slid) /\ slid.made = q.made /\ slid.cycles = q.cycles
          /\ slid.slid = q.slid /\ slid.queue = q.queue /\ slid.heard = q.heard
          /\ slid.interval = NoInterval /\ slid.intervals = {}
          /\ ~isCycling => slid.paused = q.paused
      BY <2>4 DEF IsCarousel, Fields
    <2>7. Slides(slid)
      <3>1. CASE slideOptions.animate
        <4>1. /\ slid.active = {a} /\ slid.sliding = TRUE /\ slid.indicator = next
              /\ slid.waiting = Append(<< >>, pair)
          BY <2>4, <3>1 DEF IsCarousel, Fields
        <4>2. Append(<< >>, pair) = <<pair>>
          OBVIOUS
        <4> HIDE DEF slid
        <4> QED BY <4>1, <4>2, <1>2 DEF Slides
      <3>2. CASE ~slideOptions.animate
        <4>1. /\ slid.active = (q.active \ {a}) \cup {next} /\ slid.sliding = FALSE
              /\ slid.indicator = next /\ slid.waiting = << >>
          BY <2>4, <3>2 DEF IsCarousel, Fields
        <4> HIDE DEF slid
        <4> QED BY <4>1 DEF Slides
      <3> QED BY <3>1, <3>2
    <2> HIDE DEF slid
    <2>8. Queues(slid)
      BY <2>6 DEF Well, Queues
    <2>9. CASE isCycling
      <3>1. q.cycles
        BY <2>9 DEF Well, Quiet, isCycling
      <3>2. Loose(slid)
        BY <2>6 DEF Loose
      <3>3. /\ IsCarousel(r) /\ SameSlide(slid, r) /\ Tight(r) /\ ~r.paused
        BY <2>5, <2>6, <2>9, <3>1, <3>2, CycleKeeps DEF Cycled, SameSlide
      <3> QED BY <2>6, <2>7, <2>8, <3>1, <3>3, SameSlideKeeps DEF Well, Quiet, SameSlide, r
    <2>10. CASE ~isCycling
      BY <2>5, <2>6, <2>7, <2>8, <2>10 DEF Well, Tight, Quiet, r
    <2> QED BY <2>9, <2>10
  <1> QED BY <1>1, <1>2

LEMMA StepKeeps ==
    ASSUME NEW q, Well(q), NEW type
    PROVE  Well(Step(q, type))
  <1> PICK a \in Positions : q.active = {a}
    BY DEF Well, Slides
  <1> ItemForDirection(type, TheActive(q)) \in Positions
    BY OneActive, WrapsAround
  <1> QED BY SlideKeeps DEF Step

LEMMA PauseWell ==
    ASSUME NEW q, Well(q), NEW byEvent \in BOOLEAN
    PROVE  Well(Pause(q, byEvent))
  <1> DEFINE r == Pause(q, byEvent)
  <1>1. IsCarousel(q) /\ Loose(q)
    BY DEF Well, Tight, Loose
  <1>2. /\ IsCarousel(r) /\ SameSlide(q, r)
        /\ r.interval = NoInterval /\ r.intervals = {}
    BY <1>1, PauseKeeps
  <1> HIDE DEF r
  <1>3. Slides(r) /\ Queues(r)
    BY <1>2, SameSlideKeeps DEF Well
  <1>4. Tight(r) /\ Quiet(r)
    BY <1>2 DEF Well, Tight, Quiet, SameSlide
  <1> QED BY <1>2, <1>3, <1>4 DEF Well, r

LEMMA CycleWell ==
    ASSUME NEW q, Well(q), NEW byEvent \in BOOLEAN
    PROVE  Well(Cycle(q, byEvent))
  <1> DEFINE r == Cycle(q, byEvent)
  <1>1. Loose(q)
    BY DEF Well, Tight, Loose
  <1>2. Cycled(q, r, byEvent)
    BY <1>1, CycleKeeps DEF Well
  <1> HIDE DEF r
  <1>3. Slides(r) /\ Queues(r)
    BY <1>2, SameSlideKeeps DEF Cycled, Well
  <1>4. Tight(r) /\ Quiet(r)
    BY <1>2 DEF Cycled, Well, Tight, Quiet, SameSlide
  <1> QED BY <1>2, <1>3, <1>4 DEF Cycled, Well, r

LEMMA ToKeeps ==
    ASSUME NEW q, Well(q), NEW pos
    PROVE  Well(To(q, pos))
  <1>1. CASE pos \notin Positions
    BY <1>1 DEF To
  <1>2. CASE pos \in Positions /\ q.sliding
    <2> DEFINE r == [q EXCEPT !.queue = Append(@, pos)]
    <2>1. /\ IsCarousel(r) /\ r.queue = Append(q.queue, pos) /\ r.heard = q.heard
          /\ r.active = q.active /\ r.indicator = q.indicator /\ r.sliding = q.sliding
          /\ r.waiting = q.waiting /\ r.slid = q.slid /\ r.paused = q.paused
          /\ r.interval = q.interval /\ r.intervals = q.intervals
          /\ r.cycles = q.cycles /\ r.made = q.made
      BY DEF Well, IsCarousel, Fields
    <2>2. To(q, pos) = r
      BY <1>2 DEF To
    <2> HIDE DEF r
    <2>3. Queues(r)
      BY <1>2, <2>1 DEF Well, Queues
    <2>4. Slides(r)
      BY <2>1 DEF Well, Slides
    <2> QED BY <2>1, <2>2, <2>3, <2>4 DEF Well, Tight, Quiet
  <1>3. CASE pos \in Positions /\ ~q.sliding /\ pos \in q.active
    <2>1. Well(Pause(q, FALSE))
      BY PauseWell
    <2> QED BY <1>3, <2>1, CycleWell DEF To
  <1>4. CASE pos \in Positions /\ ~q.sliding /\ pos \notin q.active
    BY <1>4, SlideKeeps DEF To
  <1> QED BY <1>1, <1>2, <1>3, <1>4
\* The constructor gives a carousel that has no interval yet an option.
LEMMA ConstructKeeps ==
    ASSUME NEW q, Well(q), ~q.made, NEW cycles
    PROVE  Well(Construct(q, cycles))
  <1> DEFINE r == [q EXCEPT !.made = TRUE, !.cycles = cycles]
  <1>1. /\ IsCarousel(r) /\ r.queue = q.queue /\ r.heard = q.heard
        /\ r.active = q.active /\ r.indicator = q.indicator /\ r.sliding = q.sliding
        /\ r.waiting = q.waiting /\ r.slid = q.slid /\ r.made = TRUE
        /\ r.interval = q.interval /\ r.intervals = q.intervals
    BY DEF Well, IsCarousel, Fields
  <1>2. Construct(q, cycles) = r
    BY DEF Construct
  <1> HIDE DEF r
  <1>3. Slides(r) /\ Queues(r)
    BY <1>1 DEF Well, Slides, Queues
  <1> QED BY <1>1, <1>2, <1>3 DEF Well, Tight, Quiet

\* The end of a slide leaves the item that has come, and an event to be heard.
LEMMA EndOfSlideKeeps ==
    ASSUME NEW q, Well(q), q.waiting # << >>
    PROVE  Well(EndOfSlide(q))
  <1> PICK a \in Positions, b \in Positions :
        /\ q.active = {a} /\ q.sliding /\ b # a /\ q.indicator = b
        /\ q.waiting = <<[from |-> a, to |-> b]>>
    BY DEF Well, Slides
  <1> DEFINE slide == Head(q.waiting)
             r == EndOfSlide(q)
  <1>1. slide.from = a /\ slide.to = b /\ Tail(q.waiting) = << >>
    OBVIOUS
  <1> HIDE DEF slide
  <1>2. r = [q EXCEPT !.waiting = Tail(@), !.active = (@ \cup {slide.to}) \ {slide.from},
                      !.sliding = FALSE, !.slid = TRUE]
    BY DEF EndOfSlide, slide
  <1> HIDE DEF r
  <1>3. /\ IsCarousel(r) /\ r.queue = q.queue /\ r.heard = q.heard
        /\ r.active = (q.active \cup {slide.to}) \ {slide.from} /\ r.indicator = b
        /\ ~r.sliding /\ r.waiting = Tail(q.waiting) /\ r.slid = TRUE
        /\ r.made = q.made /\ r.cycles = q.cycles /\ r.paused = q.paused
        /\ r.interval = q.interval /\ r.intervals = q.intervals
    BY <1>2 DEF Well, IsCarousel, Fields
  <1>4. r.active = {b} /\ r.waiting = << >>
    BY <1>1, <1>3
  <1>5. Slides(r)
    BY <1>3, <1>4 DEF Slides
  <1>6. Queues(r)
    BY <1>3 DEF Well, Queues
  <1> QED BY <1>3, <1>5, <1>6 DEF Well, Tight, Quiet, r

\* The event takes over every call that waits.
LEMMA SlidEventKeeps ==
    ASSUME NEW q, Well(q)
    PROVE  Well(SlidEvent(q))
  <1> DEFINE r == SlidEvent(q)
  <1>1. /\ IsCarousel(r) /\ r.queue = << >> /\ r.heard = q.queue
        /\ r.active = q.active /\ r.indicator = q.indicator /\ r.sliding = q.sliding
        /\ r.waiting = q.waiting /\ r.made = q.made /\ r.cycles = q.cycles
        /\ r.paused = q.paused /\ r.interval = q.interval /\ r.intervals = q.intervals
    BY DEF SlidEvent, Well, IsCarousel, Fields
  <1> HIDE DEF r
  <1>2. Slides(r)
    BY <1>1, SlidesAlike DEF Well
  <1>3. Queues(r)
    BY <1>1 DEF Well, Queues
  <1> QED BY <1>1, <1>2, <1>3 DEF Well, Tight, Quiet, r

LEMMA HearKeeps ==
    ASSUME NEW q, Well(q), q.heard # << >>
    PROVE  Well(Hear(q))
  <1> DEFINE r == [q EXCEPT !.heard = Tail(@)]
  <1>1. /\ IsCarousel(r) /\ r.queue = q.queue /\ r.heard = Tail(q.heard)
        /\ r.active = q.active /\ r.indicator = q.indicator /\ r.sliding = q.sliding
        /\ r.waiting = q.waiting /\ r.slid = q.slid /\ r.made = q.made
        /\ r.cycles = q.cycles /\ r.paused = q.paused
        /\ r.interval = q.interval /\ r.intervals = q.intervals
    BY DEF Well, IsCarousel, Fields
  <1>2. Hear(q) = To(r, Head(q.heard))
    BY DEF Hear
  <1> HIDE DEF r
  <1>3. Slides(r)
    BY <1>1, SlidesAlike DEF Well
  <1>4. Tail(q.heard) \in Seq(Positions)
    BY DEF Well, Queues
  <1>5. Queues(r)
    BY <1>1, <1>4 DEF Well, Queues
  <1>6. Well(r)
    BY <1>1, <1>3, <1>5 DEF Well, Tight, Quiet
  <1> QED BY <1>2, <1>6, ToKeeps

-------------------------------------------------------------------------------
\* Well as a state predicate.
CarouselInv == Well(carousel)

LEMMA InitWell == CarouselInit => CarouselInv
  <1> SUFFICES ASSUME CarouselInit PROVE Well(carousel)
    BY DEF CarouselInv
  <1>1. 0 \in Positions
    BY CarouselAssumption DEF Positions
  <1>2. IsCarousel(carousel)
    BY DEF CarouselInit, IsCarousel, Fields
  <1>3. Slides(carousel) /\ Queues(carousel)
    BY <1>1 DEF CarouselInit, Slides, Queues
  <1>4. Tight(carousel) /\ Quiet(carousel)
    BY DEF CarouselInit, Tight, Quiet, NoInterval
  <1> QED BY <1>2, <1>3, <1>4 DEF Well

LEMMA MadeWell ==
    ASSUME CarouselInv
    PROVE  Well(Made)
  BY ConstructKeeps DEF CarouselInv, Made

LEMMA NextWell == CarouselInv /\ [CarouselNext]_carouselVars => CarouselInv'
  <1> SUFFICES ASSUME CarouselInv, [CarouselNext]_carouselVars
               PROVE  Well(carousel')
    BY DEF CarouselInv
  <1> Well(carousel) /\ Well(Made)
    BY MadeWell DEF CarouselInv
  <1> USE DEF SlidesTo
  <1>1. CASE Ride
    <2>1. Well(Cycle(Pause(Made, FALSE), FALSE))
      BY PauseWell, CycleWell
    <2> QED BY <1>1, <2>1 DEF Ride
  <1>2. CASE CallStep
    BY <1>2, StepKeeps DEF CallStep
  <1>3. CASE CallPause
    BY <1>3, PauseWell DEF CallPause
  <1>4. CASE CallCycle
    BY <1>4, CycleWell DEF CallCycle
  <1>5. CASE CallTo
    BY <1>5, ToKeeps DEF CallTo
  <1>6. CASE ClickIndicator
    <2> DEFINE made == IF carousel.made THEN carousel ELSE Construct(carousel, FALSE)
    <2>1. Well(made)
      BY ConstructKeeps
    <2> QED BY <1>6, <2>1, ToKeeps DEF ClickIndicator
  <1>7. CASE MouseEnter
    BY <1>7, PauseWell DEF MouseEnter
  <1>8. CASE MouseLeave
    BY <1>8, CycleWell DEF MouseLeave
  <1>9. CASE IntervalFires
    BY <1>9, StepKeeps DEF IntervalFires
  <1>10. CASE EndSlide
    BY <1>10, EndOfSlideKeeps DEF EndSlide
  <1>11. CASE Slid
    BY <1>11, SlidEventKeeps DEF Slid
  <1>12. CASE HearCall
    BY <1>12, HearKeeps DEF HearCall
  <1>13. CASE UNCHANGED carouselVars
    BY <1>13 DEF carouselVars
  <1> QED BY <1>1, <1>2, <1>3, <1>4, <1>5, <1>6, <1>7, <1>8, <1>9, <1>10, <1>11, <1>12,
             <1>13 DEF CarouselNext

LEMMA WellKeepsStep == CarouselInv => CarouselKeepsStep
  <1> SUFFICES ASSUME Well(carousel) PROVE CarouselKeepsStep
    BY DEF CarouselInv
  <1>1. OneItemOneSlide
    <2> PICK a \in Positions :
          /\ carousel.active = {a}
          /\ IF carousel.sliding
             THEN \E b \in Positions : /\ b # a /\ carousel.indicator = b
                                       /\ carousel.waiting = <<[from |-> a, to |-> b]>>
             ELSE carousel.waiting = << >> /\ carousel.indicator = a
      BY DEF Well, Slides
    <2>1. Cardinality(carousel.active) = 1
      BY FS_Singleton
    <2>2. TheActive(carousel) = a
      BY OneActive
    <2> QED BY <2>1, <2>2 DEF OneItemOneSlide
  <1>2. OneInterval /\ QueueIsHeard
    BY DEF Well, Tight, Queues, OneInterval, QueueIsHeard
  <1> QED BY <1>1, <1>2 DEF CarouselKeepsStep

\* Whatever the order of calls, clicks, hovering, intervals and ends of slides
\* (lines 345 to 460), for any number of items: one item is shown, the
\* indicator is on it or on the one that comes, no interval runs but the one
\* the carousel can clear, and no call of to() is forgotten.
THEOREM CarouselNeverLosesStep == CarouselSpec => []CarouselKeepsStep
  <1> QED BY InitWell, NextWell, WellKeepsStep, PTL DEF CarouselSpec

-------------------------------------------------------------------------------
\* The flags of the carousel are flags, whatever it does; with Well that is
\* its type.
Flagged(q) == /\ IsCarousel(q)
              /\ {q.made, q.cycles, q.sliding, q.slid, q.paused} \subseteq BOOLEAN

LEMMA IntervalFlagged ==
    ASSUME NEW q, Flagged(q)
    PROVE  Flagged(SetInterval(q)) /\ Flagged(ClearInterval(q))
  <1>1. \A id : LET r == [q EXCEPT !.intervals = @ \cup {id}, !.interval = id]
                IN Flagged(r)
    BY DEF Flagged, IsCarousel, Fields
  <1>2. Flagged(SetInterval(q))
    BY <1>1 DEF SetInterval
  <1>3. Flagged(ClearInterval(q))
    BY DEF ClearInterval, Flagged, IsCarousel, Fields
  <1> QED BY <1>2, <1>3

LEMMA CycleFlagged ==
    ASSUME NEW q, Flagged(q), NEW byEvent
    PROVE  Flagged(Cycle(q, byEvent))
  <1> DEFINE unpaused == IF byEvent THEN q ELSE [q EXCEPT !.paused = FALSE]
             cleared == [unpaused EXCEPT !.intervals = @ \ {q.interval}]
  <1>1. Flagged(unpaused)
    BY DEF Flagged, IsCarousel, Fields
  <1> HIDE DEF unpaused
  <1>2. Flagged(cleared)
    BY <1>1 DEF Flagged, IsCarousel, Fields
  <1>3. Cycle(q, byEvent) = IF q.cycles /\ ~unpaused.paused THEN SetInterval(cleared)
                            ELSE cleared
    BY DEF Cycle, unpaused
  <1> HIDE DEF cleared
  <1> QED BY <1>2, <1>3, IntervalFlagged

LEMMA PauseFlagged ==
    ASSUME NEW q, Flagged(q), NEW byEvent
    PROVE  Flagged(Pause(q, byEvent))
  <1> DEFINE paused == IF byEvent THEN q ELSE [q EXCEPT !.paused = TRUE]
  <1>1. Flagged(paused)
    BY DEF Flagged, IsCarousel, Fields
  <1>2. Pause(q, byEvent) = ClearInterval(IF q.waiting # << >> THEN Cycle(paused, TRUE)
                                          ELSE paused)
    BY DEF Pause
  <1> HIDE DEF paused
  <1> QED BY <1>1, <1>2, CycleFlagged, IntervalFlagged

LEMMA SlideFlagged ==
    ASSUME NEW q, Flagged(q), NEW next
    PROVE  Flagged(Slide(q, next))
  <1> DEFINE isCycling == q.interval # NoInterval
             sliding == [q EXCEPT !.sliding = TRUE]
             paused == IF isCycling THEN Pause(sliding, FALSE) ELSE sliding
             shown == [paused EXCEPT !.indicator = next]
             slid == IF slideOptions.animate
                     THEN [shown EXCEPT !.waiting =
                             Append(@, [from |-> TheActive(q), to |-> next])]
                     ELSE [shown EXCEPT !.active = (@ \ {TheActive(q)}) \cup {next},
                                        !.sliding = FALSE]
             still == [q EXCEPT !.sliding = FALSE]
  <1>1. Slide(q, next) = IF next \in q.active THEN still
                         ELSE IF isCycling THEN Cycle(slid, FALSE) ELSE slid
    BY DEF Slide
  <1>2. Flagged(sliding) /\ Flagged(still)
    BY DEF Flagged, IsCarousel, Fields
  <1> HIDE DEF sliding, still
  <1>3. Flagged(paused)
    BY <1>2, PauseFlagged
  <1> HIDE DEF paused
  <1>4. Flagged(shown)
    BY <1>3 DEF Flagged, IsCarousel, Fields
  <1> HIDE DEF shown
  <1>5. Flagged(slid)
    <2>1. \A w : Flagged([shown EXCEPT !.waiting = w])
      BY <1>4 DEF Flagged, IsCarousel, Fields
    <2>2. \A a : Flagged([shown EXCEPT !.active = a, !.sliding = FALSE])
      BY <1>4 DEF Flagged, IsCarousel, Fields
    <2> QED BY <2>1, <2>2
  <1> HIDE DEF slid
  <1> QED BY <1>1, <1>2, <1>5, CycleFlagged

LEMMA StepFlagged ==
    ASSUME NEW q, Flagged(q), NEW type
    PROVE  Flagged(Step(q, type))
  BY SlideFlagged DEF Step

LEMMA ToFlagged ==
    ASSUME NEW q, Flagged(q), NEW pos
    PROVE  Flagged(To(q, pos))
  <1>1. Flagged([q EXCEPT !.queue = Append(@, pos)])
    BY DEF Flagged, IsCarousel, Fields
  <1>2. Flagged(Cycle(Pause(q, FALSE), FALSE))
    BY PauseFlagged, CycleFlagged
  <1> QED BY <1>1, <1>2, SlideFlagged DEF To

LEMMA EventsFlagged ==
    ASSUME NEW q, Flagged(q)
    PROVE  Flagged(EndOfSlide(q)) /\ Flagged(SlidEvent(q)) /\ Flagged(Hear(q))
  <1>1. ASSUME NEW w, NEW a
        PROVE  Flagged([q EXCEPT !.waiting = w, !.active = a, !.sliding = FALSE, !.slid = TRUE])
    <2> DEFINE r == [q EXCEPT !.waiting = w, !.active = a, !.sliding = FALSE, !.slid = TRUE]
    <2>1. IsCarousel(r)
      BY DEF Flagged, IsCarousel, Fields
    <2>2. /\ r.made = q.made /\ r.cycles = q.cycles /\ r.paused = q.paused
          /\ r.sliding = FALSE /\ r.slid = TRUE
      BY DEF Flagged, IsCarousel, Fields
    <2> QED BY <2>1, <2>2 DEF Flagged
  <1>2. Flagged(EndOfSlide(q))
    BY <1>1 DEF EndOfSlide
  <1>3. Flagged(SlidEvent(q))
    BY DEF SlidEvent, Flagged, IsCarousel, Fields
  <1>4. Flagged([q EXCEPT !.heard = Tail(@)])
    BY DEF Flagged, IsCarousel, Fields
  <1> QED BY <1>2, <1>3, <1>4, ToFlagged DEF Hear

LEMMA ConstructFlagged ==
    ASSUME NEW q, Flagged(q), NEW cycles \in BOOLEAN
    PROVE  Flagged(Construct(q, cycles))
  BY DEF Construct, Flagged, IsCarousel, Fields

CarouselFlagged == slideOptions \in SlideOptions /\ Flagged(carousel)

LEMMA InitFlagged == CarouselInit => CarouselFlagged
  <1> SUFFICES ASSUME CarouselInit PROVE CarouselFlagged
    OBVIOUS
  <1>1. IsCarousel(carousel)
    BY DEF CarouselInit, IsCarousel, Fields
  <1> QED BY <1>1 DEF CarouselInit, CarouselFlagged, Flagged

LEMMA NextFlagged == CarouselFlagged /\ [CarouselNext]_carouselVars => CarouselFlagged'
  <1> SUFFICES ASSUME CarouselFlagged, [CarouselNext]_carouselVars
               PROVE  slideOptions' = slideOptions /\ Flagged(carousel')
    BY DEF CarouselFlagged
  <1>1. Flagged(carousel)
    BY DEF CarouselFlagged
  <1>2. slideOptions.interval \in BOOLEAN
    BY CarouselAssumption DEF CarouselFlagged
  <1>3. Flagged(Made)
    BY <1>1, <1>2, ConstructFlagged DEF Made
  <1>4. SUFFICES ASSUME NEW q, slideOptions' = slideOptions, carousel' = q
                 PROVE  Flagged(q)
    <2>1. slideOptions' = slideOptions
      BY DEF CarouselNext, Ride, CallStep, CallPause, CallCycle, CallTo, ClickIndicator,
             MouseEnter, MouseLeave, IntervalFires, EndSlide, Slid, HearCall, SlidesTo,
             carouselVars
    <2> QED BY <1>4, <2>1
  <1> USE DEF SlidesTo
  <1>5. CASE Ride
    BY <1>3, <1>4, <1>5, PauseFlagged, CycleFlagged DEF Ride
  <1>6. CASE CallStep
    BY <1>3, <1>4, <1>6, StepFlagged DEF CallStep
  <1>7. CASE CallPause \/ CallCycle
    BY <1>3, <1>4, <1>7, PauseFlagged, CycleFlagged DEF CallPause, CallCycle
  <1>8. CASE CallTo
    BY <1>3, <1>4, <1>8, ToFlagged DEF CallTo
  <1>9. CASE ClickIndicator
    BY <1>1, <1>4, <1>9, ConstructFlagged, ToFlagged DEF ClickIndicator
  <1>10. CASE MouseEnter \/ MouseLeave
    BY <1>1, <1>4, <1>10, PauseFlagged, CycleFlagged DEF MouseEnter, MouseLeave
  <1>11. CASE IntervalFires
    BY <1>1, <1>4, <1>11, StepFlagged DEF IntervalFires
  <1>12. CASE EndSlide \/ Slid \/ HearCall
    BY <1>1, <1>4, <1>12, EventsFlagged DEF EndSlide, Slid, HearCall
  <1>13. CASE UNCHANGED carouselVars
    BY <1>1, <1>4, <1>13 DEF carouselVars
  <1> QED BY <1>5, <1>6, <1>7, <1>8, <1>9, <1>10, <1>11, <1>12, <1>13 DEF CarouselNext

LEMMA WellTyped == CarouselInv /\ CarouselFlagged => CarouselTypeOK
  <1> SUFFICES ASSUME Well(carousel), Flagged(carousel), slideOptions \in SlideOptions
               PROVE  CarouselTypeOK
    BY DEF CarouselInv, CarouselFlagged
  <1>1. carousel.active \subseteq Positions /\ carousel.indicator \in Positions
    BY DEF Well, Slides
  <1>2. /\ carousel.interval \in {NoInterval} \cup IntervalIds
        /\ carousel.intervals \subseteq IntervalIds
        /\ carousel.queue \in Seq(Positions) /\ carousel.heard \in Seq(Positions)
    BY DEF Well, Tight, Queues
  <1> QED BY <1>1, <1>2 DEF CarouselTypeOK, Flagged
===============================================================================
