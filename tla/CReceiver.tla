----------------------------- MODULE CReceiver ------------------------------
(***************************************************************************)
(* The C htraced receiver: threads serialize spans into the active one of  *)
(* two buffers; the transmitter thread flips the buffers, and sends with   *)
(* the lock released; flush and free wait for it.                          *)
(*                                                                         *)
(* Work done while the mutex is held is one step.  The loop that looks for *)
(* space is left after one round whether or not there was space, because   *)
(* `continue` in do ... while (0) evaluates the condition: a thread that   *)
(* found none goes on, without the lock, with the buffer it looked at.     *)
(* Its unlock then releases the mutex even from under another thread,      *)
(* which changes nothing here, where work under the lock is one step.      *)
(***************************************************************************)
EXTENDS Integers, Sequences, Functions, FiniteSets

CONSTANTS CrSpans,        \* 1 .. n: spans in the order in which threads begin to add them
          CrLen,          \* the serialized length of a span
          CrBufLen,       \* of each buffer
          CrThreshold,    \* send_threshold
          CrInterval,     \* flush_interval_ms
          CrLastCall,     \* bound: the last millisecond in which a call begins
          CrMaxTime,      \* bound: of the clock
          MaxSendTries    \* HTRACED_MAX_SEND_TRIES

ASSUME CReceiverAssumption ==
  /\ CrSpans \subseteq Nat /\ CrLen \in Nat \ {0} /\ CrBufLen \in Nat /\ CrThreshold \in Nat
  /\ CrInterval \in Nat /\ CrLastCall \in Nat /\ CrMaxTime \in Nat

Other(b) == 1 - b
LongAgo == -(CrInterval + 1)  \* last_send_ms = 0: the monotonic clock is far from 0

VARIABLES sbuf,           \* by buffer 0 and 1: off and the spans in it (num_spans is their number)
          active,         \* active_buf
          adder,          \* by span: pc, and the buffer it looked at
          xmit,           \* the transmitter: pc, now, tries, and the buffer it sends
          lastSend,       \* last_send_ms
          shutdown, flusher, msec,
          addedAt, handled  \* ghosts: when a span was added, spans that were sent or given up

crVars == <<sbuf, active, adder, xmit, lastSend, shutdown, flusher, msec, addedAt, handled>>

CReceiverInit ==
  /\ sbuf = [b \in {0, 1} |-> [off |-> 0, spans |-> <<>>]]
  /\ active = 0
  /\ adder = [s \in CrSpans |-> [pc |-> "new", buf |-> 0]]
  /\ xmit = [pc |-> "check", now |-> 0, tries |-> 0, buf |-> 0]
  /\ lastSend = 0 /\ shutdown = FALSE /\ flusher = [pc |-> "none", now |-> 0] /\ msec = 0
  /\ addedAt = [s \in CrSpans |-> -1] /\ handled = {}

ClockTicks ==
  /\ msec < CrMaxTime /\ msec' = msec + 1
  /\ UNCHANGED <<sbuf, active, adder, xmit, lastSend, shutdown, flusher, addedAt, handled>>

\* The span is written at the buffer's offset.
WriteTo(b, s) ==
  /\ sbuf' = [sbuf EXCEPT ![b].off = @ + CrLen, ![b].spans = Append(@, s)]
  /\ addedAt' = [addedAt EXCEPT ![s] = msec]

\* htraced_sbuf_remaining, which is unsigned: a buffer that was overrun has space again.
HasSpace(b) == sbuf[b].off > CrBufLen \/ sbuf[b].off + CrLen <= CrBufLen

\* htraced_rcv_add_span: with space, the span is written under the lock; a signal that the
\* threshold is passed is part of what wakes the transmitter at any time.
AddSpan(s) ==
  /\ adder[s].pc = "new" /\ msec <= CrLastCall /\ ~shutdown
  /\ \A r \in CrSpans : r < s => adder[r].pc # "new"
  /\ IF HasSpace(active)
     THEN WriteTo(active, s) /\ adder' = [adder EXCEPT ![s].pc = "added"]
     ELSE adder' = [adder EXCEPT ![s] = [pc |-> "continue", buf |-> active]] /\ UNCHANGED <<sbuf, addedAt>>
  /\ UNCHANGED <<active, xmit, lastSend, shutdown, flusher, msec, handled>>

\* ... and without, it is written all the same, without the lock.
AddSpanUnlocked(s) ==
  /\ adder[s].pc = "continue"
  /\ WriteTo(adder[s].buf, s) /\ adder' = [adder EXCEPT ![s].pc = "overran"]
  /\ UNCHANGED <<active, xmit, lastSend, shutdown, flusher, msec, handled>>

should_xmit(now) ==
  \/ sbuf[active].off > CrThreshold
  \/ now - lastSend > CrInterval /\ sbuf[active].off > 0
sbufs_empty == sbuf[0].off = 0 /\ sbuf[1].off = 0

\* The buffers are flipped before the lock is released.
Flip(now) == xmit' = [pc |-> "send", now |-> now, tries |-> 0, buf |-> active] /\ active' = Other(active)

\* run_htraced_xmit_manager at the top of its loop, with the time it reads there ...
XmitCheck ==
  /\ xmit.pc = "check"
  /\ \/ (should_xmit(msec) \/ (shutdown /\ ~sbufs_empty)) /\ Flip(msec)
     \/ ~should_xmit(msec) /\ shutdown /\ sbufs_empty /\ xmit' = [xmit EXCEPT !.pc = "done"] /\ UNCHANGED active
     \/ ~should_xmit(msec) /\ ~shutdown /\ xmit' = [xmit EXCEPT !.pc = "wait"] /\ UNCHANGED active
  /\ UNCHANGED <<sbuf, adder, lastSend, shutdown, flusher, msec, addedAt, handled>>

\* ... and in its inner loops, with the time it has.
XmitAgain ==
  /\ xmit.pc = "again"
  /\ \/ (should_xmit(xmit.now) \/ (shutdown /\ ~sbufs_empty)) /\ Flip(xmit.now)
     \/ ~should_xmit(xmit.now) /\ shutdown /\ sbufs_empty /\ xmit' = [xmit EXCEPT !.pc = "done"] /\ UNCHANGED active
     \/ ~should_xmit(xmit.now) /\ ~shutdown /\ xmit' = [xmit EXCEPT !.pc = "wait"] /\ UNCHANGED active
  /\ UNCHANGED <<sbuf, adder, lastSend, shutdown, flusher, msec, addedAt, handled>>

\* pthread_cond_timedwait returns: signalled, at its time, or for no reason.
XmitWakes ==
  /\ xmit.pc = "wait" /\ xmit' = [xmit EXCEPT !.pc = "check"]
  /\ UNCHANGED <<sbuf, active, adder, lastSend, shutdown, flusher, msec, addedAt, handled>>

\* hrpc_client_call fails, and not for the last time.
XmitFails ==
  /\ xmit.pc = "send" /\ xmit.tries + 1 < MaxSendTries
  /\ xmit' = [xmit EXCEPT !.tries = @ + 1]
  /\ UNCHANGED <<sbuf, active, adder, lastSend, shutdown, flusher, msec, addedAt, handled>>

\* The spans were sent, or given up; the buffer is emptied without the lock.
XmitDone ==
  /\ xmit.pc = "send"
  /\ handled' = handled \cup Range(sbuf[xmit.buf].spans)
  /\ sbuf' = [sbuf EXCEPT ![xmit.buf] = [off |-> 0, spans |-> <<>>]]
  /\ xmit' = [xmit EXCEPT !.pc = "lock"]
  /\ UNCHANGED <<active, adder, lastSend, shutdown, flusher, msec, addedAt>>

\* The lock is taken again, and the flushing threads are woken.
XmitEnds ==
  /\ xmit.pc = "lock"
  /\ lastSend' = xmit.now
  /\ xmit' = [xmit EXCEPT !.pc = "again"]
  /\ flusher' = IF flusher.pc = "wait" THEN [flusher EXCEPT !.pc = "check"] ELSE flusher
  /\ UNCHANGED <<sbuf, active, adder, shutdown, msec, addedAt, handled>>

\* htraced_rcv_flush.
FlushBegins ==
  /\ flusher.pc = "none" /\ msec <= CrLastCall /\ ~shutdown
  /\ flusher' = [pc |-> "check", now |-> msec]
  /\ UNCHANGED <<sbuf, active, adder, xmit, lastSend, shutdown, msec, addedAt, handled>>
FlushChecks ==
  /\ flusher.pc = "check"
  /\ IF lastSend >= flusher.now \/ sbufs_empty
     THEN flusher' = [flusher EXCEPT !.pc = "done"] /\ UNCHANGED lastSend
     ELSE flusher' = [flusher EXCEPT !.pc = "wait"] /\ lastSend' = LongAgo
  /\ UNCHANGED <<sbuf, active, adder, xmit, shutdown, msec, addedAt, handled>>

\* htraced_rcv_free, which waits for the transmitter.
Free ==
  /\ ~shutdown /\ shutdown' = TRUE
  /\ \A s \in CrSpans : adder[s].pc # "continue"
  /\ flusher.pc \in {"none", "done"}
  /\ UNCHANGED <<sbuf, active, adder, xmit, lastSend, flusher, msec, addedAt, handled>>

XmitStep == XmitCheck \/ XmitAgain \/ XmitWakes \/ XmitDone \/ XmitEnds

CReceiverNext ==
  \/ ClockTicks \/ XmitStep \/ XmitFails \/ FlushBegins \/ FlushChecks \/ Free
  \/ \E s \in CrSpans : AddSpan(s) \/ AddSpanUnlocked(s)
-----------------------------------------------------------------------------
\* htraced.c:639 "OK, now we have the lock, and we know that there is enough space in the current
\* buffer."
AddersHaveSpace == \A s \in CrSpans : adder[s].pc # "continue"

\* No thread has met a full buffer.
NeverFull == \A s \in CrSpans : adder[s].pc \notin {"continue", "overran"}
WasAdded(s) == adder[s].pc = "added"

\* As long as no thread has met a full buffer: a buffer holds its spans one after another within
\* its length, a span is in one buffer until it is handled, and what is being sent does not
\* change, since only the active buffer is written to.
BuffersAreApart ==
  NeverFull =>
    /\ \A b \in {0, 1} : sbuf[b].off = CrLen * Len(sbuf[b].spans) /\ sbuf[b].off <= CrBufLen
    /\ \A s \in CrSpans : WasAdded(s) =>
         Cardinality({b \in {0, 1} : s \in Range(sbuf[b].spans)}) = IF s \in handled THEN 0 ELSE 1
    /\ IF xmit.pc = "send" THEN xmit.buf # active ELSE sbuf[Other(active)].off = 0

\* When flush returns, the spans of earlier milliseconds have been sent or given up.
FlushCoversEarlier ==
  NeverFull /\ flusher.pc = "done" =>
    \A s \in CrSpans : WasAdded(s) /\ addedAt[s] < flusher.now => s \in handled

\* A span in a buffer is sent or given up.
SpansAreHandled == \A s \in CrSpans : WasAdded(s) ~> (s \in handled \/ ~NeverFull)

\* htraced_rcv_flush() returns.
FlushEnds == flusher.pc = "check" ~> (flusher.pc = "done" \/ ~NeverFull)

\* htraced_rcv_free() can join the transmitter, which has emptied both buffers.
FreeEnds == shutdown ~> (xmit.pc = "done" /\ sbufs_empty)
=============================================================================
