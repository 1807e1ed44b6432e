------------------------------- MODULE Canvas -------------------------------
(***************************************************************************)
(* The widgets of the canvas and the manager that hands them the mouse:    *)
(* the buttons that expand a span, the partition that is dragged between   *)
(* the tracer ids and the spans, and the time cursor.  The canvas is one   *)
(* row, positions are x coordinates; OffCanvas is outside of it, where     *)
(* its handlers do not hear of the mouse button.                           *)
(***************************************************************************)
EXTENDS Integers, Sequences, SequencesExt

CONSTANTS ViewX,        \* width of the canvas
          Width,        \* of the partition
          RoundsDown,   \* positions x where Math.floor(ViewX * (x / ViewX)) is x - 1, in floating point
          MaxListening, \* bound: gestures that ended outside of the canvas, and the one under way
          BoxOf         \* BoxOf[b][xB]: <<first, last>>, where button b is for a partition at xB

VARIABLES listeners,    \* of the manager: for mouseUp, mouseMove and mouseOut
          pressed,      \* `selected` of the buttons and of the partition
          partX,        \* x0 of the partition
          xB,           \* where render() puts the partition: processNameFraction
          mouse, held,  \* where the mouse is, and whether its button is down
          lastEvent,
          fired         \* the buttons whose callback the last event called
canvasVars == <<listeners, pressed, partX, xB, mouse, held, lastEvent, fired>>

OffCanvas == -1
CanvasButtons == DOMAIN BoxOf
WidgetTypes == {"mouseUp", "mouseMove", "mouseOut"}
xMin == ViewX \div 10
xMax == (9 * ViewX) \div 10

\* What setupWidgets() registers; a new manager for every render().
NewManager == [t \in WidgetTypes |-> IF t = "mouseMove" THEN <<"cursor">> ELSE <<>>]
Released == [w \in CanvasButtons \union {"partition"} |-> FALSE]

CanvasInit ==
  /\ listeners = NewManager /\ pressed = Released
  /\ xB = ViewX \div 5 /\ partX = xB
  /\ mouse = OffCanvas /\ held = FALSE /\ lastEvent = "none" /\ fired = <<>>

InBox(x, b) == BoxOf[b][xB][1] <= x /\ x <= BoxOf[b][xB][2]
InPartition(x) == partX <= x /\ x <= partX + Width
-----------------------------------------------------------------------------
\* mouseDown: the buttons come first and keep the event to themselves; the partition puts
\* itself before all others.
MouseDown ==
  /\ mouse # OffCanvas /\ ~held /\ held' = TRUE
  /\ Len(listeners["mouseUp"]) < MaxListening
  /\ LET hit == {b \in CanvasButtons : InBox(mouse, b)}
     IN  IF hit # {}
         THEN LET b == CHOOSE x \in hit : TRUE
              IN  /\ listeners' = [t \in WidgetTypes |-> Append(listeners[t], b)]
                  /\ pressed' = [pressed EXCEPT ![b] = TRUE]
         ELSE IF InPartition(mouse)
         THEN /\ listeners' = [t \in WidgetTypes |->
                                IF t = "mouseOut" THEN listeners[t] ELSE <<"partition">> \o listeners[t]]
              /\ pressed' = [pressed EXCEPT !["partition"] = TRUE]
         ELSE UNCHANGED <<listeners, pressed>>
  /\ lastEvent' = "mouseDown" /\ fired' = <<>>
  /\ UNCHANGED <<partX, xB, mouse>>

\* processNameFraction, and the place it gives the partition.
Fraction(x) == IF x \in RoundsDown THEN x - 1 ELSE x

\* mouseUp: the buttons that listen fire where they are selected, and stop listening.  The
\* partition ends the event and renders: a new manager, with new widgets.
ButtonsUp ==
  [t \in WidgetTypes |-> SelectSeq(listeners[t], LAMBDA w : w \notin Range(listeners["mouseUp"]))]
MouseUp ==
  /\ mouse # OffCanvas /\ held /\ held' = FALSE
  /\ IF Contains(listeners["mouseUp"], "partition")
     THEN /\ xB' = Fraction(partX) /\ partX' = xB'
          /\ listeners' = NewManager /\ pressed' = Released /\ fired' = <<>>
     ELSE /\ fired' = SetToSeq({b \in Range(listeners["mouseUp"]) : pressed[b]})
          /\ listeners' = ButtonsUp
          /\ pressed' = [b \in DOMAIN pressed |-> pressed[b] /\ ~Contains(listeners["mouseUp"], b)]
          /\ UNCHANGED <<xB, partX>>
  /\ lastEvent' = "mouseUp"
  /\ UNCHANGED mouse

\* Mutant: the partition goes wherever the mouse goes.
DragToUnclamped(x) == x - Width \div 2

\* mouseMove: a partition that is dragged follows, and ends the event; otherwise the buttons
\* that listen look whether the mouse is on them.
DragTo(x) == (IF x < xMin THEN xMin ELSE IF x > xMax THEN xMax ELSE x) - Width \div 2
MouseMove(x) ==
  /\ mouse' = x
  /\ IF Contains(listeners["mouseMove"], "partition")
     THEN partX' = DragTo(x) /\ UNCHANGED pressed
     ELSE /\ pressed' = [b \in DOMAIN pressed |->
                           IF Contains(listeners["mouseMove"], b) THEN InBox(x, b) ELSE pressed[b]]
          /\ UNCHANGED partX
  /\ lastEvent' = "mouseMove" /\ fired' = <<>>
  /\ UNCHANGED <<listeners, xB, held>>

MouseOut ==
  /\ mouse # OffCanvas /\ mouse' = OffCanvas
  /\ pressed' = [b \in DOMAIN pressed |-> pressed[b] /\ ~Contains(listeners["mouseOut"], b)]
  /\ lastEvent' = "mouseOut" /\ fired' = <<>>
  /\ UNCHANGED <<listeners, partX, xB, held>>

\* The canvas does not hear of a release outside of it.
ReleaseOutside ==
  /\ mouse = OffCanvas /\ held /\ held' = FALSE
  /\ UNCHANGED <<listeners, pressed, partX, xB, mouse, lastEvent, fired>>

\* render() for another reason: a resize, a search, a callback that came back.
Rerender ==
  /\ listeners' = NewManager /\ pressed' = Released /\ partX' = xB
  /\ lastEvent' = "render" /\ fired' = <<>>
  /\ UNCHANGED <<xB, mouse, held>>

CanvasNext ==
  \/ MouseDown \/ MouseUp \/ MouseOut \/ ReleaseOutside \/ Rerender
  \/ \E x \in 0 .. (ViewX - 1) : MouseMove(x)
-----------------------------------------------------------------------------
\* One release of the mouse expands one span at most, and only one whose button is under the
\* mouse, even when earlier gestures ended outside of the canvas.
FiresUnderTheMouse == Len(fired) <= 1 /\ \A b \in Range(fired) : InBox(mouse, b)

\* The partition stays on the canvas, with room for either side, wherever it is dragged and
\* however often: rounding does not carry it away.
PartitionStaysInView == 0 <= partX /\ partX + Width < ViewX

\* A release on the canvas ends every gesture that was under way: nothing listens for the
\* next one.
ReleaseEndsGestures == lastEvent = "mouseUp" => listeners = NewManager /\ pressed = Released
=============================================================================
