------------------------------- MODULE Modal -------------------------------
(***************************************************************************)
(* Bootstrap's modal, the way the web app uses it: one element, #modal,    *)
(* that is given new content and shown by htrace.showModal, and dismissed  *)
(* with a button, the backdrop, Escape or Enter.                           *)
(*                                                                         *)
(* A modal is a record; show, hide and the callbacks at the end of a       *)
(* transition are operators from modals to modals.  Its backdrops are in   *)
(* the element, and new content removes them with their handlers.          *)
(***************************************************************************)
EXTENDS Transitions, SequencesExt

CONSTANT MaxModalOps  \* bound: calls by the application and the user

VARIABLES modal,     \* the Modal object and its element
          hurried,   \* ghost: shown during a transition, and not shown from rest since
          modalOps

modalVars == <<modal, hurried, modalOps>>

\* A backdrop is a number, counted from 1.
Element == 0
Dialog == -1

\* ref is this.$backdrop (0: null), made the number of backdrops made, keys the number of
\* keypress handlers of showModal on the document; fading says that the element's opacity
\* is changing, which ends by itself.
NewModal(fade) ==
  [isShown |-> FALSE, display |-> FALSE, in |-> FALSE, open |-> FALSE, focusin |-> FALSE,
   fading |-> FALSE, backdrops |-> {}, ref |-> 0, made |-> 0, keys |-> 0, waits |-> <<>>, fade |-> fade]

ModalInit == modal \in {NewModal(f) : f \in BOOLEAN} /\ hurried = FALSE /\ modalOps = 0
-----------------------------------------------------------------------------
\* The callback of hideModal, and the one that removes the backdrop first.
hidden(m) == [m EXCEPT !.open = FALSE]
callbackRemove(m) == hidden([m EXCEPT !.backdrops = @ \ {m.ref}, !.ref = 0])

\* backdrop(callback): a modal that is shown gets a new one, another fades its own out.
BackdropOf(m) == [m EXCEPT !.made = @ + 1, !.ref = m.made + 1, !.backdrops = @ \union {m.made + 1}]

\* Mutant: the backdrop stays.
hideModalNoBackdrop(m) == [m EXCEPT !.display = FALSE]

hideModal(m) ==
  LET h == [m EXCEPT !.display = FALSE, !.fading = FALSE]
      b == BackdropOf(h)
  IN  IF m.isShown THEN [b EXCEPT !.waits = Await(@, b.ref, "hidden", 1)]
      ELSE IF m.ref = 0 THEN hidden(h)
      ELSE IF m.fade THEN [h EXCEPT !.waits = Await(@, m.ref, "remove", 1)]
      ELSE callbackRemove(h)

\* The callback of show: the element appears, and its dialog slides in.
displayed(m) ==
  [m EXCEPT !.display = TRUE, !.in = TRUE, !.focusin = TRUE, !.fading = m.fade /\ ~m.in,
            !.waits = IF m.fade THEN Await(@, Dialog, "focus", 2) ELSE @]

RunModal(m, run) ==
  CASE run = "display" -> displayed(m)
    [] run = "focus" -> m
    [] run = "hideModal" -> hideModal(m)
    [] run = "remove" -> callbackRemove(m)
    [] run = "hidden" -> hidden(m)

show(m) ==
  LET s == BackdropOf([m EXCEPT !.isShown = TRUE, !.open = TRUE]) IN
  IF m.isShown THEN m
  ELSE IF m.fade THEN [s EXCEPT !.waits = Await(@, s.ref, "display", 1)]
  ELSE displayed(s)

\* Mutant: nothing waits for the transition.
hideForgetting(m) == [m EXCEPT !.isShown = FALSE, !.in = FALSE, !.focusin = FALSE]

hide(m) ==
  LET h == [m EXCEPT !.isShown = FALSE, !.in = FALSE, !.focusin = FALSE] IN
  IF ~m.isShown THEN m
  ELSE IF m.fade THEN [h EXCEPT !.waits = Await(@, Element, "hideModal", 2), !.fading = m.in /\ m.display]
  ELSE hideModal(h)
-----------------------------------------------------------------------------
\* $("#modal").html(..) removes what is in the element, with its handlers.
NewContent(m) == [m EXCEPT !.backdrops = {}, !.waits = WaitsExcept(@, m.backdrops \union {Dialog})]

ModalOp == modalOps < MaxModalOps /\ modalOps' = modalOps + 1

\* htrace.showModal.
ShowModal ==
  /\ ModalOp
  /\ modal' = show([NewContent(modal) EXCEPT !.keys = @ + 1])
  /\ hurried' = (modal.waits # <<>> \/ (hurried /\ (modal.isShown \/ modal.display)))

\* The user dismisses the dialog that is on the screen.
Dismiss ==
  /\ ModalOp /\ modal.isShown /\ modal.display
  /\ modal' = hide(modal)
  /\ UNCHANGED hurried

\* Enter: every handler of showModal clicks the first button, which has a handler of the
\* modal while it is shown.
Enter ==
  /\ ModalOp /\ modal.keys > 0
  /\ modal' = hide([modal EXCEPT !.keys = 0])
  /\ UNCHANGED hurried

TransitionEnd(on) ==
  /\ modal' = FoldLeft(LAMBDA m, e : RunModal(m, e.run),
                       [modal EXCEPT !.waits = WaitsExcept(@, {on}),
                                     !.fading = modal.fading /\ on # Element],
                       HandlersOn(modal.waits, on))
  /\ UNCHANGED <<hurried, modalOps>>

\* The element's own transition ends, within 150 ms, and the browser says so or not.
ModalFaded == modal.fading /\ TransitionEnd(Element)

ModalTime ==
  /\ TimePasses(modal.waits)
  /\ modal' = [modal EXCEPT !.waits = Aged(@), !.fading = FALSE]
  /\ UNCHANGED <<hurried, modalOps>>

ModalTimeout == \E on \in DueOn(modal.waits) : TransitionEnd(on)

ModalNext == ShowModal \/ Dismiss \/ Enter \/ ModalFaded \/ ModalTime \/ ModalTimeout

\* The browser's clock runs.
ModalFairness == WF_modalVars(ModalTime) /\ WF_modalVars(ModalTimeout)
-----------------------------------------------------------------------------
\* Between transitions, unless it was shown again in the middle of one, the modal is on the
\* screen, the page behind it locked and a backdrop in the page only while isShown says so;
\* one that was shown too early is whole again once it is shown after a rest off the screen.
QuietModalIsWhole ==
  modal.waits = <<>> /\ ~hurried =>
    /\ modal.display = modal.isShown /\ modal.open = modal.isShown
    /\ modal.backdrops \subseteq (IF modal.isShown THEN {modal.ref} ELSE {})
    /\ modal.isShown <=> modal.ref # 0

\* "Dismiss the modal dialog box when enter is pressed": a modal that is shown has a key
\* handler, however it was shown and whatever was pressed before.
EnterCanDismiss == modal.isShown => modal.keys > 0

\* A modal that was hidden still locks the page, which must not last.
HiddenModalStays == ~modal.isShown /\ modal.open
=============================================================================
