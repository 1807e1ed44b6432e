---------------------------- MODULE Transitions ----------------------------
(***************************************************************************)
(* Bootstrap's CSS transitions: $el.one('bsTransitionEnd', run) followed   *)
(* by emulateTransitionEnd(duration).  A wait says which element it is on, *)
(* what runs at the end, and how many ticks of 150 ms its timeout has      *)
(* left.  The end of a transition, by the browser or by a timeout, runs    *)
(* every handler on its element, also those that were added later.         *)
(***************************************************************************)
EXTENDS Integers, Sequences

Await(waits, on, run, ticks) == Append(waits, [on |-> on, run |-> run, left |-> ticks])

\* The timeouts that fire now; those of handlers that have run do nothing.
DueOn(waits) == {waits[i].on : i \in {j \in DOMAIN waits : waits[j].left = 0}}

\* 150 ms pass when no timeout is due.
TimePasses(waits) == waits # <<>> /\ DueOn(waits) = {}
Aged(waits) == [i \in DOMAIN waits |-> [waits[i] EXCEPT !.left = @ - 1]]

HandlersOn(waits, on) == SelectSeq(waits, LAMBDA e : e.on = on)
WaitsExcept(waits, gone) == SelectSeq(waits, LAMBDA e : e.on \notin gone)
=============================================================================
