------------------------------ MODULE Effects ------------------------------
(***************************************************************************)
(* jQuery's "fx" queue of one element, delay(), and the animations with    *)
(* the interval that drives them.                                          *)
(*                                                                         *)
(* A call nests others: the end of an animation calls its complete         *)
(* callback, which may call any of the element's methods, and then         *)
(* dequeue(), which starts the next animation, which ends at once when it  *)
(* takes no time.  `work` is what the running call has still to do; the    *)
(* browser only acts when it is empty, the user also in a callback.  The   *)
(* other callbacks of an animation (start, progress, done, fail, always)   *)
(* are left out.                                                           *)
(***************************************************************************)
EXTENDS Integers, Sequences, SequencesExt, FiniteSets

CONSTANTS MaxItems,        \* bound: calls of animate() and delay()
          MaxCallbackOps,  \* bound: calls in one complete callback
          Durations        \* how many ticks an animation takes

VARIABLES queue,      \* the fx queue: item numbers, and Sentinel for "inprogress"
          hookStop,   \* the delay whose timeout hooks.stop clears, or NoItem
          timers,     \* jQuery.timers
          interval,   \* the interval of jQuery.fx.start() is running
          finishing,  \* the "finish" flag in the element's data
          items,      \* every item made so far
          completes,  \* how often an item's complete callback was called
          work,
          disturbed,  \* the queue was cleared, or a callback called what OneAtATime leaves out
          nested      \* a callback called stop() or finish() within one of these

effectsVars == <<queue, hookStop, timers, interval, finishing, items, completes, work, disturbed, nested>>

Sentinel == 0
NoItem == 0

\* status: "queued", "running", "resolved" or "rejected"; a delay is "running" while its
\* timeout is pending and "resolved" once it has fired or was cleared.
Item(kind, ticks) == [kind |-> kind, ticks |-> ticks, status |-> "queued"]

EffectsInit ==
  /\ queue = <<>> /\ hookStop = NoItem /\ timers = <<>> /\ interval = FALSE
  /\ finishing = FALSE /\ items = <<>> /\ completes = <<>> /\ work = <<>>
  /\ disturbed = FALSE /\ nested = FALSE

Job(do) == [do |-> do]
ItemJob(do, i) == [do |-> do, i |-> i]

Doing(do) == work # <<>> /\ work[1].do = do
\* The first job is done and these come in its place.
Instead(jobs) == work' = jobs \o Tail(work)

Idle == work = <<>>
Running(i) == items[i].status = "running"
SetStatus(i, s) == [items EXCEPT ![i].status = s]

\* The complete callback that runs may call these many methods more.
Callback(n) == [do |-> "callback", left |-> n]

InCallback == Doing("callback")

\* A method is called, by the page or by a callback, and does this.
Calls(jobs) ==
  \/ Idle /\ work' = jobs
  \/ InCallback /\ work[1].left > 0 /\ Instead(jobs \o <<Callback(work[1].left - 1)>>)
-----------------------------------------------------------------------------
\* animate() and delay() append to the queue, and start it if nothing is in progress.
Enqueue(kind, ticks) ==
  /\ Len(items) < MaxItems
  /\ items' = Append(items, Item(kind, ticks))
  /\ completes' = Append(completes, 0)
  /\ queue' = Append(queue, Len(items) + 1)
  /\ Calls(IF queue # <<>> /\ queue[1] = Sentinel THEN <<>> ELSE <<Job("dequeue")>>)
  /\ disturbed' = (disturbed \/ (InCallback /\ finishing))
  /\ UNCHANGED <<hookStop, timers, interval, finishing, nested>>

Animate(ticks) == Enqueue("anim", ticks)

Delay == Enqueue("delay", 0)

\* dequeue(): drops the sentinel, and puts it back when there is something to run; an empty
\* queue is removed with its hooks.
Dequeue ==
  /\ Doing("dequeue")
  /\ LET rest == IF queue # <<>> /\ queue[1] = Sentinel THEN Tail(queue) ELSE queue
     IN  IF rest = <<>>
         THEN queue' = <<>> /\ hookStop' = NoItem /\ Instead(<<>>)
         ELSE /\ queue' = <<Sentinel>> \o Tail(rest)
              /\ hookStop' = NoItem
              /\ Instead(<<ItemJob("start", rest[1])>>)
  /\ UNCHANGED <<timers, interval, finishing, items, completes, disturbed, nested>>

StartDelay ==
  /\ Doing("start") /\ items[work[1].i].kind = "delay"
  /\ items' = SetStatus(work[1].i, "running")
  /\ hookStop' = work[1].i
  /\ Instead(<<>>)
  /\ UNCHANGED <<queue, timers, interval, finishing, completes, disturbed, nested>>

\* Animation() and fx.timer(): an animation that takes time stays on jQuery.timers and
\* starts the interval, one that takes none resolves and is popped.  Its complete callback
\* is attached last.  During finish() it is stopped at its end right away, and its timer
\* is left for the next tick to remove.
StartAnimation ==
  /\ Doing("start") /\ items[work[1].i].kind = "anim"
  /\ LET i == work[1].i
         lasts == items[i].ticks > 0
     IN  /\ timers' = IF lasts THEN Append(timers, i) ELSE timers
         /\ interval' = (interval \/ lasts)
         /\ IF lasts /\ ~finishing
            THEN items' = SetStatus(i, "running") /\ Instead(<<>>)
            ELSE items' = SetStatus(i, "resolved") /\ Instead(<<ItemJob("complete", i)>>)
  /\ UNCHANGED <<queue, hookStop, finishing, completes, disturbed, nested>>

\* opt.complete: the user's callback, then dequeue().
Complete ==
  /\ Doing("complete")
  /\ completes' = [completes EXCEPT ![work[1].i] = @ + 1]
  /\ Instead(<<Callback(MaxCallbackOps), Job("dequeue")>>)
  /\ UNCHANGED <<queue, hookStop, timers, interval, finishing, items, disturbed, nested>>

CallbackReturns ==
  /\ InCallback
  /\ Instead(<<>>)
  /\ UNCHANGED <<queue, hookStop, timers, interval, finishing, items, completes, disturbed, nested>>

\* The timeout of a delay() calls next().
DelayFires(i) ==
  /\ Idle /\ i \in DOMAIN items /\ items[i].kind = "delay" /\ Running(i)
  /\ items' = SetStatus(i, "resolved")
  /\ work' = <<Job("dequeue")>>
  /\ UNCHANGED <<queue, hookStop, timers, interval, finishing, completes, disturbed, nested>>
-----------------------------------------------------------------------------
\* The interval fires: one tick of time for every animation, then fx.tick() walks
\* jQuery.timers.
Tick ==
  /\ Idle /\ interval
  /\ items' = [i \in DOMAIN items |->
                 IF items[i].kind = "anim" /\ Running(i) THEN [items[i] EXCEPT !.ticks = @ - 1] ELSE items[i]]
  /\ work' = <<[do |-> "tick", at |-> 1]>>
  /\ UNCHANGED <<queue, hookStop, timers, interval, finishing, completes, disturbed, nested>>

TickTimer ==
  /\ Doing("tick") /\ work[1].at <= Len(timers)
  /\ LET k == work[1].at
         i == timers[k]
         next == [do |-> "tick", at |-> k + 1]
     IN  IF ~Running(i)
         THEN timers' = RemoveAt(timers, k) /\ UNCHANGED <<items, work>>
         ELSE IF items[i].ticks > 0
         THEN Instead(<<next>>) /\ UNCHANGED <<items, timers>>
         ELSE /\ items' = SetStatus(i, "resolved")
              /\ Instead(<<ItemJob("complete", i), [do |-> "ticked", at |-> k, i |-> i]>>)
              /\ UNCHANGED timers
  /\ UNCHANGED <<queue, hookStop, interval, finishing, completes, disturbed, nested>>

\* An animation that has ended is removed if it is where it was.
Ticked ==
  /\ Doing("ticked")
  /\ LET k == work[1].at
         stays == k <= Len(timers) /\ timers[k] = work[1].i
     IN  /\ timers' = IF stays THEN RemoveAt(timers, k) ELSE timers
         /\ Instead(<<[do |-> "tick", at |-> IF stays THEN k ELSE k + 1]>>)
  /\ UNCHANGED <<queue, hookStop, interval, finishing, items, completes, disturbed, nested>>

\* The interval is stopped when no timer is left.
TickEnds ==
  /\ Doing("tick") /\ work[1].at > Len(timers)
  /\ interval' = (timers # <<>>)
  /\ Instead(<<>>)
  /\ UNCHANGED <<queue, hookStop, timers, finishing, items, completes, disturbed, nested>>
-----------------------------------------------------------------------------
\* The loop of stop() and finish() over jQuery.timers, and its splice() at `at`.
StopJob(do, k, gotoEnd, dequeue) == [do |-> do, at |-> k, gotoEnd |-> gotoEnd, dequeue |-> dequeue]

InStopLoop == \E j \in DOMAIN work : work[j].do = "splice"

\* clearQueue(): the sentinel goes as well, so the queue is dequeued and found empty while
\* an animation may still be running.
ClearQueue ==
  /\ queue' = <<>>
  /\ Calls(<<Job("dequeue")>>)
  /\ disturbed' = TRUE
  /\ UNCHANGED <<hookStop, timers, interval, finishing, items, completes, nested>>

\* stop(clear, gotoEnd).
Stop(clear, gotoEnd) ==
  /\ queue' = IF clear THEN <<>> ELSE queue
  /\ Calls((IF clear THEN <<Job("dequeue")>> ELSE <<>>)
              \o <<[do |-> "stopHooks", gotoEnd |-> gotoEnd]>>)
  /\ disturbed' = (disturbed \/ clear \/ InCallback)
  /\ nested' = (nested \/ InStopLoop)
  /\ UNCHANGED <<hookStop, timers, interval, finishing, items, completes>>

\* A pending delay is cleared.  After stop(true) its hooks are gone and it is not.
StopHooks ==
  /\ Doing("stopHooks")
  /\ items' = IF hookStop # NoItem /\ Running(hookStop) THEN SetStatus(hookStop, "resolved") ELSE items
  /\ hookStop' = NoItem
  /\ Instead(<<StopJob("stop", Len(timers), work[1].gotoEnd, TRUE)>>)
  /\ UNCHANGED <<queue, timers, interval, finishing, completes, disturbed, nested>>

\* Mutant: an animation that is stopped half-way completes.
StopTimerCompletes ==
  /\ Doing("stop") /\ work[1].at \in DOMAIN timers
  /\ LET k == work[1].at
         i == timers[k]
         g == work[1].gotoEnd
     IN  IF ~Running(i)
         THEN Instead(<<[work[1] EXCEPT !.at = k - 1]>>) /\ UNCHANGED items
         ELSE /\ items' = SetStatus(i, IF g THEN "resolved" ELSE "rejected")
              /\ Instead(<<ItemJob("complete", i), StopJob("splice", k, g, FALSE)>>)
  /\ UNCHANGED <<queue, hookStop, timers, interval, finishing, completes, disturbed, nested>>

\* From the last timer to the first: a running animation is resolved at its end, and completes,
\* or is rejected.  The timers of animations that have ended no longer name the element.
StopTimer ==
  /\ Doing("stop") /\ work[1].at \in DOMAIN timers
  /\ LET k == work[1].at
         i == timers[k]
         g == work[1].gotoEnd
     IN  IF ~Running(i)
         THEN Instead(<<[work[1] EXCEPT !.at = k - 1]>>) /\ UNCHANGED items
         ELSE /\ items' = SetStatus(i, IF g THEN "resolved" ELSE "rejected")
              /\ Instead((IF g THEN <<ItemJob("complete", i)>> ELSE <<>>)
                        \o <<StopJob("splice", k, g, FALSE)>>)
  /\ UNCHANGED <<queue, hookStop, timers, interval, finishing, completes, disturbed, nested>>

\* The timer that is now at this place is removed, whichever it is.
Splice ==
  /\ Doing("splice")
  /\ LET k == work[1].at
     IN  /\ timers' = IF k \in DOMAIN timers THEN RemoveAt(timers, k) ELSE timers
         /\ Instead(<<[work[1] EXCEPT !.do = "stop", !.at = k - 1]>>)
  /\ UNCHANGED <<queue, hookStop, interval, finishing, items, completes, disturbed, nested>>

\* A nested loop has removed so many timers that timers[index] is undefined: a TypeError ends
\* all the calls.
StopThrows ==
  /\ Doing("stop") /\ work[1].at > Len(timers)
  /\ work' = <<>>
  /\ UNCHANGED <<queue, hookStop, timers, interval, finishing, items, completes, disturbed, nested>>

\* The next item starts unless the end of an animation has started it.
StopEnds ==
  /\ Doing("stop") /\ work[1].at = 0
  /\ Instead(IF work[1].dequeue \/ ~work[1].gotoEnd THEN <<Job("dequeue")>> ELSE <<>>)
  /\ UNCHANGED <<queue, hookStop, timers, interval, finishing, items, completes, disturbed, nested>>

\* finish(): empties the queue, clears a pending delay, ends the running animations, and
\* runs the queued ones to their end.
Finish ==
  /\ finishing' = TRUE
  /\ queue' = <<>>
  /\ items' = IF hookStop # NoItem /\ Running(hookStop) THEN SetStatus(hookStop, "resolved") ELSE items
  /\ LET old == SelectSeq(queue, LAMBDA i : i # Sentinel /\ items[i].kind = "anim")
     IN  Calls(<<StopJob("stop", Len(timers), TRUE, FALSE)>>
                 \o [j \in DOMAIN old |-> ItemJob("start", old[j])]
                 \o <<Job("finishEnds")>>)
  /\ disturbed' = (disturbed \/ InCallback)
  /\ nested' = (nested \/ InStopLoop)
  /\ UNCHANGED <<hookStop, timers, interval, completes>>

FinishEnds ==
  /\ Doing("finishEnds")
  /\ finishing' = FALSE
  /\ Instead(<<>>)
  /\ UNCHANGED <<queue, hookStop, timers, interval, items, completes, disturbed, nested>>

\* What the page or a callback may call.
Method ==
  \/ \E d \in Durations : Animate(d)
  \/ Delay \/ ClearQueue \/ Finish
  \/ \E clear, gotoEnd \in BOOLEAN : Stop(clear, gotoEnd)

\* The rest of a call that has begun.
Continue == \/ Dequeue \/ StartDelay \/ StartAnimation \/ Complete \/ CallbackReturns
            \/ TickTimer \/ Ticked \/ TickEnds
            \/ StopHooks \/ StopTimer \/ Splice \/ StopThrows \/ StopEnds \/ FinishEnds

EffectsNext ==
  \/ Method
  \/ Tick
  \/ \E i \in 1 .. MaxItems : DelayFires(i)
  \/ Continue

\* A call that has begun runs to its end, and the browser fires intervals and timeouts that
\* are due, whatever else happens on the page.
EffectsFairness == /\ WF_effectsVars(Continue)
                   /\ SF_effectsVars(Tick)
                   /\ SF_effectsVars(\E i \in 1 .. MaxItems : DelayFires(i))
-----------------------------------------------------------------------------
InProgress == {i \in DOMAIN items : Running(i)}

\* The complete callback of an animation is called once if it reached its end, by itself,
\* by stop(.., true) or by finish(), and never if it was stopped on the way.
CompletesOnce ==
  Idle => \A i \in DOMAIN items :
            completes[i] = IF items[i].kind = "anim" /\ items[i].status = "resolved" THEN 1 ELSE 0

\* A queue that holds anything has something in progress that will dequeue it.
QueueIsNeverStuck == Idle /\ queue # <<>> => queue[1] = Sentinel /\ InProgress # {}

\* Every running animation is on jQuery.timers and the interval is running.  A callback that calls
\* stop() or finish() within a stop() or finish() of several animations is left out: the splice of
\* the outer call then removes a timer that is not its own.
RunningAnimationsTick ==
  Idle /\ ~nested => \A i \in InProgress : items[i].kind = "anim" => interval /\ i \in Range(timers)

\* The items of the queue run one after the other, as long as the queue is not cleared under a
\* running one, a complete callback does not call stop() or finish() (they start the next item,
\* and so does the end of the animation), and a callback does not queue anything during finish().
OneAtATime == Idle /\ ~disturbed => Cardinality(InProgress) <= 1

\* An animation or a delay is running, which must not last, whatever else is called meanwhile (the
\* timers that nested calls of stop() and finish() lose are left out).
AnimationRuns(i) == i \in DOMAIN items /\ Running(i) /\ ~nested
=============================================================================
