----------------------------- MODULE ScrollSpy -----------------------------
(***************************************************************************)
(* Bootstrap's scrollspy and affix, which follow the scroll position, and  *)
(* its buttons.  Positions are in one unit; the layout of the page decides *)
(* where the targets are and how high the page is.                         *)
(***************************************************************************)
EXTENDS Integers, Sequences, FiniteSets, FiniteSetsExt

CONSTANTS Layouts,                 \* each [height, offsets]: offsets of the targets, sorted
          SpyOffset, Viewport,     \* options.offset, and the height of the window
          OffsetTop, OffsetBottom, \* options.offset of the affix
          AffixHeight, FixedTops,  \* its height; the values of top of its class affix
          MaxPageEvents            \* bound: scrolls, new layouts and clicks

VARIABLES layout, scroll, spy,     \* spy: offsets, activeTarget (0: null), scrollHeight, and the ghost fresh
          affix, button, pageEvents

spyVars == <<layout, scroll, spy, affix, button, pageEvents>>
-----------------------------------------------------------------------------
Refresh(s) == [s EXCEPT !.offsets = layout.offsets, !.scrollHeight = layout.height]

\* The targets that the loop of process() activates; it counts down, so that the least wins.
ReachedTarget(s, offsets, top) ==
  {i \in DOMAIN offsets : /\ s.activeTarget # i
                          /\ top >= offsets[i]
                          /\ i = Len(offsets) \/ top <= offsets[i + 1]}

\* process() decides with the offsets it read before the refresh.
process(s, y) ==
  LET top == y + SpyOffset
      on == ReachedTarget(s, s.offsets, top)
      r == IF s.scrollHeight # layout.height THEN Refresh(s) ELSE s
      f == [r EXCEPT !.fresh = (s.offsets = layout.offsets)]
  IN  IF top >= SpyOffset + layout.height - Viewport THEN [f EXCEPT !.activeTarget = Len(s.offsets)]
      ELSE IF s.activeTarget # 0 /\ top < s.offsets[1] THEN [f EXCEPT !.activeTarget = 0]
      ELSE [f EXCEPT !.activeTarget = IF on = {} THEN @ ELSE Min(on)]
-----------------------------------------------------------------------------
\* Where the element is: in the flow at OffsetTop, at the bottom where the last check put it.
PositionTop(a, y) ==
  CASE a.affixed = "affix"  -> y + a.fixedTop
    [] a.affixed = "bottom" -> a.offsetSet
    [] OTHER                -> OffsetTop

getState(a, y, height) ==
  LET init == a.affixed = "null"
      pos  == PositionTop(a, y)
      top  == IF init THEN y ELSE pos
      tall == IF init THEN Viewport ELSE AffixHeight
  IN  IF a.affixed = "top" THEN IF y < OffsetTop THEN "top" ELSE "affix"
      ELSE IF a.affixed = "bottom" THEN IF y + a.unpin <= pos THEN "affix" ELSE "bottom"
      ELSE IF top <= OffsetTop THEN "top"
      ELSE IF top + tall >= height - OffsetBottom THEN "bottom" ELSE "affix"

\* getPinnedOffset() measures the element while it has the class affix.
checkPosition(a, y, height) ==
  LET s == getState(a, y, height)
      c == IF s = a.affixed THEN a
           ELSE [a EXCEPT !.affixed = s, !.unpin = IF s = "bottom" THEN a.fixedTop ELSE 0]
  IN  [c EXCEPT !.offsetSet = IF s = "bottom" THEN height - AffixHeight - OffsetBottom ELSE 0]
-----------------------------------------------------------------------------
\* Button.setState(state): the text changes in a timeout; states are reset, loading or another.
setState(b, s) ==
  [b EXCEPT !.resetText = IF @ = "none" THEN b.text ELSE @, !.timeouts = Append(@, s), !.last = s]

ButtonText(b, s) == IF s = "reset" THEN b.resetText ELSE s
ButtonTimeoutRuns(b) ==
  LET s == Head(b.timeouts) IN
  [b EXCEPT !.text = ButtonText(b, s), !.timeouts = Tail(@), !.isLoading = (s = "loading"),
            !.disabled = IF s = "loading" THEN TRUE ELSE IF b.isLoading THEN FALSE ELSE @]
-----------------------------------------------------------------------------
\* The page as it is loaded, with the spy and the affix made by the load event.
NewSpy == [offsets |-> <<>>, activeTarget |-> 0, scrollHeight |-> 0, fresh |-> TRUE]
NewAffix(fixedTop) == [affixed |-> "null", unpin |-> 0, fixedTop |-> fixedTop, offsetSet |-> 0]
NewButton ==
  [text |-> "label", resetText |-> "none", timeouts |-> <<>>, isLoading |-> FALSE, disabled |-> FALSE,
   last |-> "none"]

ScrollInit ==
  /\ layout \in Layouts /\ scroll = 0
  /\ spy = process(Refresh(NewSpy), 0)
  /\ affix \in {checkPosition(NewAffix(t), 0, layout.height) : t \in FixedTops}
  /\ button = NewButton /\ pageEvents = 0

PageEvent == pageEvents < MaxPageEvents /\ pageEvents' = pageEvents + 1

Scroll(y) ==
  /\ PageEvent
  /\ y \in 0 .. (layout.height - Viewport)
  /\ scroll' = y
  /\ spy' = process(spy, y)
  /\ affix' = checkPosition(affix, y, layout.height)
  /\ UNCHANGED <<layout, button>>

\* Content is added or removed; no event says so.
Relayout(l) ==
  /\ PageEvent
  /\ l # layout /\ scroll <= l.height - Viewport
  /\ layout' = l
  /\ UNCHANGED <<scroll, spy, affix, button>>

\* A click checks the position again, 1 ms later.
ClickTarget ==
  /\ PageEvent
  /\ affix' = checkPosition(affix, scroll, layout.height)
  /\ UNCHANGED <<layout, scroll, spy, button>>

SetButton(s) ==
  /\ PageEvent
  /\ button' = setState(button, s)
  /\ UNCHANGED <<layout, scroll, spy, affix>>

ButtonTimeout ==
  /\ button.timeouts # <<>>
  /\ button' = ButtonTimeoutRuns(button)
  /\ UNCHANGED <<layout, scroll, spy, affix, pageEvents>>

ScrollNext ==
  \/ \E l \in Layouts : Relayout(l) \/ \E y \in 0 .. (l.height - Viewport) : Scroll(y)
  \/ ClickTarget
  \/ \E s \in {"reset", "loading", "done"} : SetButton(s)
  \/ ButtonTimeout
-----------------------------------------------------------------------------
\* The highlighted target is one that the scroll position is in (at a border, either), unless
\* the page changed since the offsets were read; above the first none is, and at the end of the
\* page the last is.
SpyMatchesScroll ==
  LET top == scroll + SpyOffset
      t   == spy.activeTarget
  IN  spy.fresh /\ spy.offsets = layout.offsets =>
        IF scroll >= layout.height - Viewport THEN t = Len(layout.offsets)
        ELSE IF t = 0 THEN top < layout.offsets[1]
        ELSE top >= layout.offsets[t] /\ (t = Len(layout.offsets) \/ top <= layout.offsets[t + 1])

\* Where the element turns between affix and bottom, and, without a distance to the top,
\* between top and affix, checks at the same place alternate.
AffixBorder ==
  \/ scroll + affix.fixedTop = layout.height - AffixHeight - OffsetBottom
  \/ scroll = OffsetTop /\ affix.fixedTop = 0

\* After two checks at the same place further ones change nothing, except exactly at a border.
\* (The first may read where the element was put before the page changed, and an element in
\* the flow is pinned before it comes to rest at the bottom.)
AffixIsSettled ==
  LET check(a) == checkPosition(a, scroll, layout.height)
      twice    == check(check(affix))
  IN  ~AffixBorder => check(twice) = twice

\* When no timeout is pending the button shows the state that was set last, and its first
\* text after a reset; it is disabled exactly while it is loading.
ButtonShowsLast ==
  button.timeouts = <<>> /\ button.last # "none" =>
    /\ button.text = IF button.last = "reset" THEN "label" ELSE button.last
    /\ button.disabled = (button.last = "loading") /\ button.isLoading = button.disabled
=============================================================================
