------------------------------ MODULE Carousel -----------------------------
(***************************************************************************)
(* Bootstrap's carousel: the interval that calls next(), the slide and its *)
(* transition, to(), which waits for the end of a slide, and the pause     *)
(* while the pointer is on it.  Items are numbered from 0.                 *)
(***************************************************************************)
EXTENDS Transitions, SequencesExt

CONSTANTS NumItems, MaxCarouselOps  \* bound: clicks, keys and pointer events

VARIABLES carousel,    \* the Carousel object and its items
          hovered,     \* the pointer is on the carousel
          resumed,     \* ghost: to() found its item shown already while hovered
          carouselOps

carouselVars == <<carousel, hovered, resumed, carouselOps>>

\* cycles is options.interval; queued holds the to() calls that wait for the slid event, slids
\* counts the slid events to come, and indicator is the indicator that is active.
NewCarousel(cycles, slides) ==
  [active |-> 0, indicator |-> 0, next |-> 0, sliding |-> FALSE, interval |-> FALSE, paused |-> FALSE,
   queued |-> <<>>, slids |-> 0, waits |-> <<>>, cycles |-> cycles, slides |-> slides]

CarouselInit ==
  /\ carousel \in {NewCarousel(c, s) : c, s \in BOOLEAN}
  /\ hovered = FALSE /\ resumed = FALSE /\ carouselOps = 0
-----------------------------------------------------------------------------
\* cycle(e) and pause(e): an event does not change paused.  The transition end that pause()
\* triggers is on the carousel, where no slide waits for it.
cycle(c, e) ==
  LET p == c.paused /\ e IN [c EXCEPT !.paused = p, !.interval = IF c.cycles /\ ~p THEN TRUE ELSE @]
pause(c, e) == [c EXCEPT !.paused = @ \/ ~e, !.interval = FALSE]

\* eq(-1) is the last item, so that the carousel wraps in both directions.
getItemForDirection(c, type) ==
  IF type = "prev" THEN (c.active + NumItems - 1) % NumItems ELSE (c.active + 1) % NumItems

slideEnds(c) == [c EXCEPT !.active = c.next, !.sliding = FALSE]

\* A carousel that was cycling starts a new interval.
slide(c, next) ==
  LET s == [c EXCEPT !.next = next, !.indicator = next, !.sliding = TRUE]
      p == IF c.interval THEN pause(s, FALSE) ELSE s
      t == IF c.slides THEN [p EXCEPT !.waits = Await(@, c.active, "slide", 4)] ELSE slideEnds(p)
  IN  IF next = c.active THEN [c EXCEPT !.sliding = FALSE]
      ELSE IF c.interval THEN cycle(t, FALSE) ELSE t

to(c, pos) ==
  IF pos \notin 0 .. (NumItems - 1) THEN c
  ELSE IF c.sliding THEN [c EXCEPT !.queued = Append(@, pos)]
  ELSE IF c.active = pos THEN cycle(pause(c, FALSE), FALSE)
  ELSE slide(c, pos)

nextOrPrev(c, type) == IF c.sliding THEN c ELSE slide(c, getItemForDirection(c, type))
-----------------------------------------------------------------------------
CarouselOp == carouselOps < MaxCarouselOps /\ carouselOps' = carouselOps + 1

\* $.fn.carousel() without an action starts the interval.
Ride ==
  /\ CarouselOp /\ carousel.cycles /\ ~hovered
  /\ carousel' = cycle(pause(carousel, FALSE), FALSE)
  /\ UNCHANGED <<hovered, resumed>>

Control(type) ==
  /\ CarouselOp
  /\ carousel' = nextOrPrev(carousel, type)
  /\ UNCHANGED <<hovered, resumed>>

SlideTo(pos) ==
  /\ CarouselOp
  /\ carousel' = to(carousel, pos)
  /\ resumed' = (resumed \/ (hovered /\ ~carousel.sliding /\ carousel.active = pos))
  /\ UNCHANGED hovered

Hover ==
  /\ CarouselOp
  /\ hovered' = ~hovered
  /\ carousel' = IF hovered THEN cycle(carousel, TRUE) ELSE pause(carousel, TRUE)
  /\ UNCHANGED resumed

\* The interval (5 s) is longer than a transition and its slid event.
IntervalFires ==
  /\ carousel.interval /\ carousel.slids = 0 /\ carousel.waits = <<>>
  /\ carousel' = nextOrPrev(carousel, "next")
  /\ UNCHANGED <<hovered, resumed, carouselOps>>

SlideTransitionEnds ==
  /\ DueOn(carousel.waits) # {}
  /\ carousel' = [slideEnds(carousel) EXCEPT !.waits = <<>>, !.slids = @ + 1]
  /\ UNCHANGED <<hovered, resumed, carouselOps>>

CarouselTime ==
  /\ TimePasses(carousel.waits) /\ carousel.slids = 0
  /\ carousel' = [carousel EXCEPT !.waits = Aged(@)]
  /\ UNCHANGED <<hovered, resumed, carouselOps>>

\* The slid event runs the to() calls that wait for it; all but the first wait again.
Slid ==
  /\ carousel.slids > 0
  /\ carousel' = FoldLeft(to, [carousel EXCEPT !.slids = @ - 1, !.queued = <<>>], carousel.queued)
  /\ resumed' = (resumed \/ (hovered /\ carousel.queued # <<>>))
  /\ UNCHANGED <<hovered, carouselOps>>

CarouselNext ==
  \/ Ride \/ Hover \/ (\E type \in {"next", "prev"} : Control(type))
  \/ (\E pos \in 0 .. NumItems : SlideTo(pos))
  \/ IntervalFires \/ SlideTransitionEnds \/ CarouselTime \/ Slid

\* The browser's clock runs.
CarouselFairness ==
  WF_carouselVars(SlideTransitionEnds) /\ WF_carouselVars(CarouselTime) /\ WF_carouselVars(Slid)
-----------------------------------------------------------------------------
\* The carousel is sliding exactly during a transition, of the item that is shown; at other
\* times the indicator is that of the item shown.  While the pointer is on it, it does not
\* cycle (unless to() restarted it).
CarouselIsSteady ==
  /\ carousel.sliding <=> carousel.waits # <<>>
  /\ \A i \in DOMAIN carousel.waits : carousel.waits[i].on = carousel.active
  /\ ~carousel.sliding => carousel.indicator = carousel.active
  /\ hovered /\ ~resumed => ~carousel.interval

\* A to() made during a slide waits for its end, which must not last.
ToWaits == carousel.queued # <<>>
=============================================================================
