------------------------------ MODULE Tooltip ------------------------------
(***************************************************************************)
(* Bootstrap's tooltip, and the popover built on it, of one element: the   *)
(* delays of its trigger events, the transitions of the tip, disable() and *)
(* destroy(), and where the tip is put.                                    *)
(*                                                                         *)
(* Lengths are in units of which the tip's size is a multiple of two.  The *)
(* viewport is the body; along the edge the tip is moved on it begins at   *)
(* `scroll` and is ViewSize long.                                          *)
(***************************************************************************)
EXTENDS Transitions, SequencesExt

CONSTANTS Delays,     \* the values of the delay option, in ticks
          TipSize, ViewSize, Padding, ElementPlaces, Scrolls,
          MaxTipOps   \* bound: trigger events and method calls

VARIABLES tip,        \* the Tooltip object and its $tip
          pointed,    \* the pointer is on the element
          interfered, \* ghost: entered during a transition, or disabled
          tipOps

tipVars == <<tip, pointed, interfered, tipOps>>

\* inDom and in: $tip is in the page, and has the class; timer is what the timeout is for and
\* bound says that the element has the handlers of the tooltip.  The tip is animated from
\* the first show on.
NewTooltip(delay, fade) ==
  [enabled |-> TRUE, hoverState |-> "none", timer |-> "none", left |-> 0, inDom |-> FALSE,
   in |-> FALSE, at |-> Padding, waits |-> <<>>, bound |-> TRUE, delay |-> delay, fade |-> fade,
   animated |-> FALSE]

TipInit ==
  /\ tip \in {NewTooltip(d, f) : d \in [{"show", "hide"} -> Delays], f \in BOOLEAN}
  /\ pointed = FALSE /\ interfered = FALSE /\ tipOps = 0
-----------------------------------------------------------------------------
\* Along the edge the tip is centred on the element, whose middle is at `place` ...
getCalculatedOffset(place) == place - TipSize \div 2

\* ... and moved into the viewport: an overflow at the near end comes first.
getViewportAdjustedDelta(offset, scroll) ==
  LET nearEdge == offset - Padding - scroll
      farEdge == offset + Padding - scroll + TipSize
  IN  IF nearEdge < 0 THEN - nearEdge
      ELSE IF farEdge > ViewSize THEN ViewSize - farEdge ELSE 0

applyPlacement(place, scroll) ==
  LET offset == getCalculatedOffset(place) IN offset + getViewportAdjustedDelta(offset, scroll) - scroll
-----------------------------------------------------------------------------
\* A method that arms the timeout clears the one before.
Arm(t, what) == [t EXCEPT !.timer = what, !.left = IF what = "none" THEN 0 ELSE t.delay[what]]

\* The end of hide: the tip stays if the element was entered meanwhile.
hideComplete(t) == [t EXCEPT !.inDom = @ /\ t.hoverState = "in"]

hideTip(t) ==
  LET h == [t EXCEPT !.in = FALSE] IN
  [(IF t.animated THEN [h EXCEPT !.waits = Await(@, "tip", "hide", 1)] ELSE hideComplete(h))
     EXCEPT !.hoverState = "none"]

leave(t) ==
  LET l == [Arm(t, "none") EXCEPT !.hoverState = "out"] IN
  IF t.delay["hide"] = 0 THEN hideTip(l) ELSE Arm(l, "hide")

\* The end of show: a leave() that came too early for it is repeated.
showComplete(t) ==
  LET s == [t EXCEPT !.hoverState = "none"] IN IF t.hoverState = "out" THEN leave(s) ELSE s

showTip(t, at) ==
  LET s == [t EXCEPT !.inDom = TRUE, !.in = TRUE, !.at = at, !.animated = t.fade] IN
  IF ~t.enabled THEN t
  ELSE IF t.fade THEN [s EXCEPT !.waits = Await(@, "tip", "show", 1)] ELSE showComplete(s)

enter(t, at) ==
  LET e == [Arm(t, "none") EXCEPT !.hoverState = "in"] IN
  IF t.inDom THEN [t EXCEPT !.hoverState = "in"]
  ELSE IF t.delay["show"] = 0 THEN showTip(e, at) ELSE Arm(e, "show")

\* destroy() waits for the end of its hide.
TipEnds(t, run) ==
  CASE run = "show" -> showComplete(t)
    [] run = "hide" -> hideComplete(t)
    [] run = "destroy" -> [hideComplete(t) EXCEPT !.bound = FALSE]

destroy(t) ==
  LET h == [Arm(t, "none") EXCEPT !.in = FALSE] IN
  IF t.animated THEN [h EXCEPT !.waits = Await(@, "tip", "destroy", 1), !.hoverState = "none"]
  ELSE [TipEnds(h, "destroy") EXCEPT !.hoverState = "none"]
-----------------------------------------------------------------------------
TipOp == tip.bound /\ tipOps < MaxTipOps /\ tipOps' = tipOps + 1
Places == {applyPlacement(p, s) : p \in ElementPlaces, s \in Scrolls}

PointerEnters ==
  /\ TipOp /\ ~pointed /\ pointed' = TRUE
  /\ \E at \in Places : tip' = enter(tip, at)
  /\ interfered' = (interfered \/ tip.waits # <<>>)

PointerLeaves ==
  /\ TipOp /\ pointed /\ pointed' = FALSE
  /\ tip' = leave(tip)
  /\ UNCHANGED interfered

\* A click, for the trigger of a popover.
Toggle ==
  /\ TipOp
  /\ IF tip.in THEN tip' = leave(tip) /\ pointed' = FALSE
     ELSE (\E at \in Places : tip' = enter(tip, at)) /\ pointed' = TRUE
  /\ interfered' = (interfered \/ tip.waits # <<>>)

ToggleEnabled ==
  /\ TipOp /\ tip' = [tip EXCEPT !.enabled = ~@] /\ interfered' = TRUE /\ UNCHANGED pointed

Destroy == TipOp /\ tip' = destroy(tip) /\ UNCHANGED <<pointed, interfered>>

TipTimeout ==
  /\ tip.timer # "none" /\ tip.left = 0
  /\ LET t == [tip EXCEPT !.timer = "none"] IN
       IF tip.timer = "show" /\ tip.hoverState = "in" THEN \E at \in Places : tip' = showTip(t, at)
       ELSE tip' = IF tip.timer = "hide" /\ tip.hoverState = "out" THEN hideTip(t) ELSE t
  /\ UNCHANGED <<pointed, interfered, tipOps>>

TipTransitionEnds ==
  /\ "tip" \in DueOn(tip.waits)
  /\ tip' = FoldLeft(LAMBDA t, e : TipEnds(t, e.run), [tip EXCEPT !.waits = <<>>], tip.waits)
  /\ UNCHANGED <<pointed, interfered, tipOps>>

TipTime ==
  /\ tip.waits # <<>> \/ tip.timer # "none"
  /\ DueOn(tip.waits) = {} /\ (tip.timer # "none" => tip.left > 0)
  /\ tip' = [tip EXCEPT !.waits = Aged(@), !.left = IF tip.timer = "none" THEN 0 ELSE @ - 1]
  /\ UNCHANGED <<pointed, interfered, tipOps>>

TipNext == \/ PointerEnters \/ PointerLeaves \/ Toggle \/ ToggleEnabled \/ Destroy
           \/ TipTimeout \/ TipTransitionEnds \/ TipTime

\* The browser's clock runs.
TipFairness == WF_tipVars(TipTimeout) /\ WF_tipVars(TipTransitionEnds) /\ WF_tipVars(TipTime)
-----------------------------------------------------------------------------
\* A tip that fits is inside the viewport, the padding included.
TipIsInView ==
  tip.inDom /\ TipSize + 2 * Padding <= ViewSize =>
    Padding <= tip.at /\ tip.at + TipSize <= ViewSize - Padding

\* When nothing is pending, a tip is in the page only while the element is pointed at, and
\* then it is there and visible, unless the tooltip was disabled at a time or the element
\* entered while the tip was fading.
TipFollowsPointer ==
  tip.waits = <<>> /\ tip.timer = "none" /\ tip.bound =>
    /\ tip.inDom => pointed
    /\ ~interfered => tip.inDom = pointed /\ tip.in = pointed

\* The tip is there although the pointer has left, which must not last.
LeftTipStays == tip.inDom /\ tip.bound /\ ~pointed
=============================================================================
