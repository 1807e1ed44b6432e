------------------------------ MODULE Throttle -----------------------------
(***************************************************************************)
(* Underscore's throttle and debounce: a function that limits how often    *)
(* another one runs.  Timers never run early but may run late, and several *)
(* calls may come in one millisecond.                                      *)
(***************************************************************************)
EXTENDS Integers

CONSTANTS Wait,            \* milliseconds
          LastCall,        \* bound: no calls come later
          MaxTime          \* bound: the clock stops; timers set by then are due

Limiters == {"throttle", "noLeading", "noTrailing", "debounce", "immediate"}

VARIABLES limiter,         \* which function limits, and its options
          now,             \* _.now(), from 1 on
          timeout,         \* when the timer is due; 0 is null
          stamp,           \* throttle's previous, debounce's timestamp
          lastRun,         \* when the limited function ran last; 0 if never
          ran,             \* flips whenever it runs
          owed             \* the arguments of a call wait for their run, which must not last

throttleVars == <<limiter, now, timeout, stamp, lastRun, ran, owed>>

ThrottleInit ==
  /\ limiter \in Limiters /\ now = 1 /\ timeout = 0 /\ stamp = 0
  /\ lastRun = 0 /\ ran = FALSE /\ owed = FALSE

\* func.apply(context, args).
Run == lastRun' = now /\ ran' = ~ran

Throttles == {"throttle", "noLeading", "noTrailing"}

\* The function that throttle returns.
CallThrottled ==
  LET previous  == IF stamp = 0 /\ limiter = "noLeading" THEN now ELSE stamp
      remaining == Wait - (now - previous)
      runs      == remaining <= 0 \/ remaining > Wait
  IN  /\ limiter \in Throttles /\ now <= LastCall
      /\ stamp' = IF runs THEN now ELSE previous
      /\ IF runs THEN Run ELSE UNCHANGED <<lastRun, ran>>
      /\ owed' = (~runs /\ limiter # "noTrailing")
      /\ timeout' = IF runs THEN 0
                    ELSE IF timeout = 0 /\ limiter # "noTrailing" THEN now + remaining ELSE timeout
      /\ UNCHANGED <<limiter, now>>

\* The function that debounce returns.
CallDebounced ==
  LET callNow == limiter = "immediate" /\ timeout = 0 IN
  /\ limiter \notin Throttles /\ now <= LastCall
  /\ stamp' = now
  /\ timeout' = IF timeout = 0 THEN now + Wait ELSE timeout
  /\ IF callNow THEN Run ELSE UNCHANGED <<lastRun, ran>>
  /\ owed' = (limiter = "debounce")
  /\ UNCHANGED <<limiter, now>>

Due == timeout # 0 /\ timeout <= now

LaterThrottled ==
  /\ limiter \in Throttles /\ Due
  /\ stamp' = IF limiter = "noLeading" THEN 0 ELSE now
  /\ timeout' = 0 /\ Run /\ owed' = FALSE
  /\ UNCHANGED <<limiter, now>>

LaterDebounced ==
  LET last == now - stamp
      wait == last < Wait /\ last > 0
  IN  /\ limiter \notin Throttles /\ Due
      /\ timeout' = IF wait THEN now + (Wait - last) ELSE 0
      /\ IF ~wait /\ limiter = "debounce" THEN Run ELSE UNCHANGED <<lastRun, ran>>
      /\ owed' = (owed /\ wait)
      /\ UNCHANGED <<limiter, now, stamp>>

TimeGoesOn ==
  now < MaxTime /\ now' = now + 1 /\ UNCHANGED <<limiter, timeout, stamp, lastRun, ran, owed>>

ThrottleNext == CallThrottled \/ CallDebounced \/ LaterThrottled \/ LaterDebounced \/ TimeGoesOn
-----------------------------------------------------------------------------
\* Two runs of a throttled or debounced function are at least the wait apart, however its timers
\* and the calls meet.
RunsAreSpaced == [][ran' # ran => lastRun = 0 \/ now >= lastRun + Wait]_throttleVars
=============================================================================
