--------------------------- MODULE BackboneEvents ---------------------------
(***************************************************************************)
(* Backbone.Events of one object, and the objects that listen to it.       *)
(*                                                                         *)
(* trigger() takes the arrays of the event and of "all" first.  off() puts *)
(* a new array in the place of the old one and on() pushes to the array in *)
(* place, so what a callback changes shows in a trigger under way only     *)
(* when it adds to an "all" array whose turn has not come: `live` marks a  *)
(* taken array that is still the object's own.                             *)
(***************************************************************************)
EXTENDS Integers, Sequences, SequencesExt, FiniteSets

CONSTANTS Listeners,  \* objects that call listenTo
          MaxBBCalls  \* bound: calls by user code

VARIABLES bbEvents,     \* _events: the bindings of every name
          bbTriggers,   \* the triggers under way, innermost last
          listeningTo,  \* the listeners whose _listeningTo holds the object
          onceDone,     \* the once() wrappers that have run
          onceRuns,     \* how often the callback of a once() was called
          bbCalls

bbEventsVars == <<bbEvents, bbTriggers, listeningTo, onceDone, onceRuns, bbCalls>>

BBNames == {"a", "all"}
Nobody == "nobody"

BBEventsInit ==
  /\ bbEvents = [n \in BBNames |-> <<>>]
  /\ bbTriggers = <<>> /\ listeningTo = {} /\ onceDone = {}
  /\ onceRuns = [i \in 0 .. MaxBBCalls |-> 0]
  /\ bbCalls = 0

BBTop == Last(bbTriggers)
BBUserRuns == (bbTriggers # <<>> => BBTop.inCall) /\ bbCalls < MaxBBCalls /\ bbCalls' = bbCalls + 1

\* on(): the binding is also pushed to the "all" arrays that were taken and not replaced.
Bind(name, ev) ==
  /\ bbEvents' = [bbEvents EXCEPT ![name] = Append(@, ev)]
  /\ bbTriggers' = [i \in DOMAIN bbTriggers |->
                      IF name = "all" /\ bbTriggers[i].live
                      THEN [bbTriggers[i] EXCEPT !.all = Append(@, ev)] ELSE bbTriggers[i]]

BBOn(name, once, context) ==
  /\ BBUserRuns
  /\ Bind(name, [id |-> bbCalls, once |-> once, context |-> context])
  /\ UNCHANGED <<listeningTo, onceDone, onceRuns>>

\* listenTo() and listenToOnce().
ListenTo(l, name, once) ==
  /\ BBUserRuns
  /\ listeningTo' = listeningTo \union {l}
  /\ Bind(name, [id |-> bbCalls, once |-> once, context |-> l])
  /\ UNCHANGED <<onceDone, onceRuns>>

Bindings == UNION {ToSet(bbEvents[n]) : n \in BBNames}

\* off(): new arrays for the names, without the bindings that match.
Unbind(names, gone) ==
  /\ bbEvents' = [n \in BBNames |->
       IF n \in names THEN SelectSeq(bbEvents[n], LAMBDA ev : ev \notin gone) ELSE bbEvents[n]]
  /\ bbTriggers' = [i \in DOMAIN bbTriggers |->
                      [bbTriggers[i] EXCEPT !.live = @ /\ "all" \notin names]]

BBOff(names, ids) ==
  /\ BBUserRuns
  /\ Unbind(names, {ev \in Bindings : ids = {} \/ ev.id \in ids})
  /\ UNCHANGED <<listeningTo, onceDone, onceRuns>>

\* stopListening(obj, name): the object is forgotten when no name is given or nothing is
\* bound to it any more.
StopListening(l, names) ==
  /\ BBUserRuns
  /\ l \in listeningTo
  /\ Unbind(names, {ev \in Bindings : ev.context = l})
  /\ listeningTo' = IF names = BBNames \/ \A n \in BBNames : bbEvents'[n] = <<>>
                    THEN listeningTo \ {l} ELSE listeningTo
  /\ UNCHANGED <<onceDone, onceRuns>>

Trigger(name) ==
  /\ BBUserRuns
  /\ bbTriggers' = Append(bbTriggers,
       [queue |-> bbEvents[name], all |-> bbEvents["all"], live |-> bbEvents["all"] # <<>>,
        inCall |-> FALSE])
  /\ UNCHANGED <<bbEvents, listeningTo, onceDone, onceRuns>>
-----------------------------------------------------------------------------
BBPut(t) == Append(Front(bbTriggers), t)
BBRunning == bbTriggers # <<>> /\ ~BBTop.inCall

\* triggerEvents: the next binding.  A once() wrapper unbinds itself and calls its callback
\* the first time, and does nothing after that.
InvokeBinding ==
  /\ BBRunning /\ BBTop.queue # <<>>
  /\ LET ev == Head(BBTop.queue)
         again == ev.once /\ ev.id \in onceDone
         t == [BBTop EXCEPT !.queue = Tail(@), !.inCall = ~again]
         onAll == \E e \in Range(bbEvents["all"]) : e.id = ev.id
     IN  IF ev.once /\ ~again
         THEN /\ onceDone' = onceDone \union {ev.id}
              /\ onceRuns' = [onceRuns EXCEPT ![ev.id] = @ + 1]
              /\ bbEvents' = [n \in BBNames |-> SelectSeq(bbEvents[n], LAMBDA e : e.id # ev.id)]
              /\ bbTriggers' = [i \in DOMAIN bbTriggers |->
                   [(IF i = Len(bbTriggers) THEN t ELSE bbTriggers[i]) EXCEPT !.live = @ /\ ~onAll]]
         ELSE bbTriggers' = BBPut(t) /\ UNCHANGED <<bbEvents, onceDone, onceRuns>>
  /\ UNCHANGED <<listeningTo, bbCalls>>

BindingReturns ==
  /\ bbTriggers # <<>> /\ BBTop.inCall
  /\ bbTriggers' = BBPut([BBTop EXCEPT !.inCall = FALSE])
  /\ UNCHANGED <<bbEvents, listeningTo, onceDone, onceRuns, bbCalls>>

\* The event's own bindings are through: the ones of "all" follow, and then trigger() returns.
TriggerAll ==
  /\ BBRunning /\ BBTop.queue = <<>>
  /\ bbTriggers' = IF BBTop.all = <<>> THEN Front(bbTriggers)
                   ELSE BBPut([BBTop EXCEPT !.queue = BBTop.all, !.all = <<>>, !.live = FALSE])
  /\ UNCHANGED <<bbEvents, listeningTo, onceDone, onceRuns, bbCalls>>

BBEventsNext ==
  \/ \E n \in BBNames, once \in BOOLEAN :
       BBOn(n, once, Nobody) \/ \E l \in Listeners : ListenTo(l, n, once)
  \/ \E names \in {{"a"}, {"all"}, BBNames} : \E ids \in {{}} \union {{i} : i \in 0 .. (bbCalls - 1)} :
       BBOff(names, ids)
  \/ \E l \in Listeners, names \in {{"a"}, BBNames} : StopListening(l, names)
  \/ Trigger("a") \/ Trigger("all")
  \/ InvokeBinding \/ BindingReturns \/ TriggerAll
-----------------------------------------------------------------------------
\* The callback of once() runs at most once, also when the event is triggered again while
\* it is still in the array of an outer trigger.
OnceMeansOnce == \A i \in 0 .. MaxBBCalls : onceRuns[i] <= 1

\* As long as a listener has a callback on the object the object is in its _listeningTo, so
\* that stopListening() finds it: a view that was removed leaves no callback behind.
ListenersAreKnown ==
  \A n \in BBNames : \A ev \in Range(bbEvents[n]) : ev.context = Nobody \/ ev.context \in listeningTo
=============================================================================
