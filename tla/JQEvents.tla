----------------------------- MODULE JQEvents -----------------------------
(***************************************************************************)
(* jQuery.event: binding, delegation, dispatch and bubbling, the counted   *)
(* listener behind focusin, and what cloning or removing an element does   *)
(* to its events.                                                          *)
(*                                                                         *)
(* The page is a document with one child, and a clone of the child once    *)
(* clone() was called.  A handler may bind, unbind and trigger: `evFrames` *)
(* is the stack of events being dispatched, innermost last.                *)
(***************************************************************************)
EXTENDS Integers, Sequences, SequencesExt, FiniteSets

CONSTANT MaxEvOps  \* bound: calls of on, one, off, clone, html, and events

VARIABLES dom,       \* data_priv of the nodes, and the listeners the browser has
          evFrames,
          leaked,    \* setups of focusin that cleanData did not take back
          evOps

eventsVars == <<dom, evFrames, leaked, evOps>>

Nodes == {"child", "document", "copy"}
Types == {"click", "focus", "focusin"}
PathOf(n) == IF n = "child" THEN <<"child", "document">> ELSE <<n>>
\* The place of n on the way from target to the root.
Steps(target, n) == CHOOSE i \in DOMAIN PathOf(target) : PathOf(target)[i] = n

NoHandlers == [list |-> <<>>, delegateCount |-> 0]

EventsInit ==
  /\ dom = [events |-> [n \in Nodes |-> [t \in Types |-> NoHandlers]],
            native |-> {}, attaches |-> 0, capture |-> FALSE]
  /\ evFrames = <<>> /\ leaked = 0 /\ evOps = 0
-----------------------------------------------------------------------------
\* special[type].setup and teardown: the document's listener for focusin is counted.
Setup(d, n, t) ==
  IF t = "focusin" THEN [d EXCEPT !.attaches = @ + 1, !.capture = @ \/ d.attaches = 0]
  ELSE [d EXCEPT !.native = @ \union {<<n, t>>}]

\* Mutant: the last handler of one element takes the shared listener away.
TeardownAlways(d, n, t) ==
  IF t = "focusin" THEN [d EXCEPT !.attaches = @ - 1, !.capture = FALSE]
  ELSE [d EXCEPT !.native = @ \ {<<n, t>>}]

Teardown(d, n, t) ==
  IF t = "focusin" THEN [d EXCEPT !.attaches = @ - 1, !.capture = @ /\ d.attaches # 1]
  ELSE [d EXCEPT !.native = @ \ {<<n, t>>}]

\* The type a handler is stored under: a delegated focus handler listens to focusin.
StoredType(origType, sel) == IF sel # <<>> /\ origType = "focus" THEN "focusin" ELSE origType

\* Delegated handlers (sel is not empty) come before the others.
Insert(e, h) ==
  IF h.sel # <<>>
  THEN [list |-> InsertAt(e.list, e.delegateCount + 1, h), delegateCount |-> e.delegateCount + 1]
  ELSE [e EXCEPT !.list = Append(@, h)]

addHandler(d, n, h) ==
  LET t == StoredType(h.origType, h.sel)
      ready == IF d.events[n][t].list = <<>> THEN Setup(d, n, t) ELSE d
  IN  [ready EXCEPT !.events[n][t] = Insert(@, h)]

\* event.remove for the stored type t: origTypes are the types to remove, guids and sels the
\* functions and selectors, empty for any.
removeHandlers(d, n, t, origTypes, guids, sels) ==
  LET e == d.events[n][t]
      gone(h) == /\ h.origType \in origTypes
                 /\ guids = {} \/ h.guid \in guids
                 /\ sels = {} \/ h.sel \in sels
      rest == SelectSeq(e.list, LAMBDA h : ~gone(h))
      delegates == SelectSeq(e.list, LAMBDA h : gone(h) /\ h.sel # <<>>)
      removed == [d EXCEPT !.events[n][t] =
                    [list |-> rest, delegateCount |-> e.delegateCount - Len(delegates)]]
  IN  IF e.list # <<>> /\ rest = <<>> THEN Teardown(removed, n, t) ELSE removed

off(d, n, origType, guids, sel) ==
  removeHandlers(d, n, StoredType(origType, sel), {origType}, guids, IF sel = <<>> THEN {} ELSE {sel})

\* off() without arguments removes every handler of every type.
offAll(d, n) ==
  FoldLeft(LAMBDA acc, t : removeHandlers(acc, n, t, Types, {}, {}), d, <<"click", "focus", "focusin">>)

\* cleanData: the events of a removed node.  event.remove(elem, "focusin") does not match
\* the delegated handlers that were bound as focus, so their teardown does not run.
cleanData(d, n) ==
  LET step1 == removeHandlers(d, n, "click", {"click"}, {}, {})
      step2 == removeHandlers(step1, n, "focus", {"focus"}, {}, {})
      step3 == removeHandlers(step2, n, "focusin", {"focusin"}, {}, {})
  IN  [step3 EXCEPT !.events[n] = [t \in Types |-> NoHandlers]]

\* cloneCopyEvent: the clone's own handle, and its handlers added one by one.
cloneCopyEvent(d) ==
  LET all == d.events["child"]["click"].list \o d.events["child"]["focus"].list
               \o d.events["child"]["focusin"].list
  IN  FoldLeft(LAMBDA acc, h : addHandler(acc, "copy", h), d, all)
-----------------------------------------------------------------------------
\* event.handlers: the delegated handlers for every element from the target up to n, then
\* the direct ones.  The queue holds copies: later changes do not show.
HandlerQueue(d, n, t, target) ==
  LET e == d.events[n][t]
      group(i) == LET el == PathOf(target)[i]
                  IN  [elem |-> el,
                       handlers |-> SelectSeq(SubSeq(e.list, 1, e.delegateCount),
                                              LAMBDA h : h.sel = <<el>>)]
      direct == [elem |-> n, handlers |-> SubSeq(e.list, e.delegateCount + 1, Len(e.list))]
  IN  SelectSeq([i \in 1 .. (Steps(target, n) - 1) |-> group(i)] \o <<direct>>, LAMBDA g : g.handlers # <<>>)

\* An event on its way: the nodes it has still to visit, the queue at the present one, and
\* the log of the handlers it ran.
EventFrame(t, target, path, byBrowser) ==
  [type |-> t, target |-> target, path |-> path, byBrowser |-> byBrowser, node |-> target,
   queue |-> <<>>, inHandler |-> FALSE, stop |-> FALSE, log |-> <<>>]

Ev == Last(evFrames)
PutEv(f) == Append(Front(evFrames), f)
EvUserRuns == (evFrames # <<>> => Ev.inHandler) /\ evOps < MaxEvOps
EvCount == evOps' = evOps + 1

\* on() and one().
On(n, origType, sel, guid, one) ==
  /\ EvUserRuns /\ EvCount
  /\ dom' = addHandler(dom, n, [origType |-> origType, sel |-> sel, guid |-> guid, one |-> one])
  /\ UNCHANGED <<evFrames, leaked>>

Off(n, origType, guids, sel) ==
  /\ EvUserRuns /\ EvCount
  /\ dom' = off(dom, n, origType, guids, sel)
  /\ UNCHANGED <<evFrames, leaked>>

OffAll(n) ==
  /\ EvUserRuns /\ EvCount
  /\ dom' = offAll(dom, n)
  /\ UNCHANGED <<evFrames, leaked>>

\* html() puts a new child in the place of the old one, whose events are cleaned; events
\* under way find none.  A delegated focus handler on it leaks its focusin setup.
ReplaceChild ==
  /\ EvUserRuns /\ EvCount
  /\ dom' = cleanData(dom, "child")
  /\ leaked' = leaked + (IF \E i \in DOMAIN dom.events["child"]["focusin"].list :
                              dom.events["child"]["focusin"].list[i].origType = "focus"
                         THEN 1 ELSE 0)
  /\ evFrames' = [i \in DOMAIN evFrames |->
                    [evFrames[i] EXCEPT !.path = SelectSeq(@, LAMBDA n : n # "child")]]

CloneChild ==
  /\ EvUserRuns /\ EvCount
  /\ \A t \in Types : dom.events["copy"][t] = NoHandlers
  /\ dom' = cloneCopyEvent(dom)
  /\ UNCHANGED <<evFrames, leaked>>

\* A click by the user of the page, or trigger("click"); triggerHandler visits one node.
Click(target, byBrowser, path) ==
  /\ EvUserRuns /\ EvCount
  /\ byBrowser => evFrames = <<>>
  /\ evFrames' = Append(evFrames, EventFrame("click", target, path, byBrowser))
  /\ UNCHANGED <<dom, leaked>>

\* The focus event does not bubble; the document's capturing listener sees it first, and
\* simulates a focusin event that does.
Focus(target) ==
  /\ EvUserRuns /\ EvCount
  /\ LET focus == EventFrame("focus", target, <<target>>, TRUE)
         focusin == EventFrame("focusin", target, PathOf(target), FALSE)
     IN  evFrames' = evFrames \o (IF dom.capture /\ target # "copy" THEN <<focus, focusin>> ELSE <<focus>>)
  /\ UNCHANGED <<dom, leaked>>
-----------------------------------------------------------------------------
Dispatching == evFrames # <<>> /\ ~Ev.inHandler
\* Handlers of the queue are left: of this element unless stopped immediately, of the next
\* elements unless stopped.
DropEmpty(q) == IF q # <<>> /\ q[1].handlers = <<>> THEN Tail(q) ELSE q

\* The event reaches its next node: dispatch() makes the queue.
VisitNode ==
  /\ Dispatching /\ Ev.queue = <<>> /\ Ev.path # <<>> /\ ~Ev.stop
  /\ LET n == Head(Ev.path)
         heard == Ev.byBrowser => <<n, Ev.type>> \in dom.native
     IN  evFrames' = PutEv([Ev EXCEPT !.path = Tail(@), !.node = n,
                       !.queue = IF heard THEN HandlerQueue(dom, n, Ev.type, Ev.target) ELSE <<>>])
  /\ UNCHANGED <<dom, leaked, evOps>>

\* The next handler of the queue is called; one() unbinds first.
RunHandler ==
  /\ Dispatching /\ Ev.queue # <<>>
  /\ LET g == Head(Ev.queue)
         h == Head(g.handlers)
     IN  /\ evFrames' = PutEv([Ev EXCEPT !.inHandler = TRUE,
                !.queue[1].handlers = Tail(@),
                !.log = Append(@, [node |-> Ev.node, elem |-> g.elem, stop |-> "no"])])
         /\ dom' = IF h.one THEN off(dom, Ev.node, h.origType, {h.guid}, h.sel) ELSE dom
  /\ UNCHANGED <<leaked, evOps>>

\* It returns: false or stopPropagation() leaves the other handlers of this element,
\* stopImmediatePropagation() leaves none.
HandlerReturns(how) ==
  /\ evFrames # <<>> /\ Ev.inHandler
  /\ LET stop == Ev.stop \/ how # "no"
         rest == CASE how = "immediate" -> <<>>
                   [] stop /\ Ev.queue[1].handlers = <<>> -> <<>>
                   [] OTHER -> DropEmpty(Ev.queue)
     IN  evFrames' = PutEv([Ev EXCEPT !.inHandler = FALSE, !.stop = stop,
                       !.queue = rest,
                       !.log = Front(@) \o <<[Last(@) EXCEPT !.stop = how]>>])
  /\ UNCHANGED <<dom, leaked, evOps>>

EventEnds ==
  /\ Dispatching /\ Ev.queue = <<>> /\ (Ev.path = <<>> \/ Ev.stop)
  /\ evFrames' = Front(evFrames)
  /\ UNCHANGED <<dom, leaked, evOps>>

Selectors(n) == IF n = "document" THEN {<<>>, <<"child">>} ELSE {<<>>}

EventsNext ==
  \/ \E n \in {"child", "document"}, o \in {"click", "focus"} : \E s \in Selectors(n) :
       \/ On(n, o, s, "f", FALSE) \/ On(n, o, s, "g", TRUE)
       \/ \E guids \in {{}, {"f"}} : Off(n, o, guids, s)
  \/ OffAll("document") \/ ReplaceChild \/ CloneChild
  \/ On("child", "focus", <<"grandchild">>, "f", FALSE)
  \/ Click("child", TRUE, PathOf("child")) \/ Click("document", FALSE, <<"document">>)
  \/ Click("copy", TRUE, PathOf("copy"))
  \/ \E n \in {"child", "copy"} : Focus(n)
  \/ VisitNode \/ RunHandler \/ EventEnds
  \/ \E how \in {"no", "stop", "immediate"} : HandlerReturns(how)
-----------------------------------------------------------------------------
HasHandlers(n, t) == dom.events[n][t].list # <<>>

\* The browser has a listener for a node and a type exactly while jQuery has handlers for
\* them, and the document's focus listener is there as long as any node has focusin
\* handlers (for good, once the events of a removed node have leaked it).
ListenersMatchHandlers ==
  /\ dom.native = {p \in Nodes \X {"click", "focus"} : HasHandlers(p[1], p[2])}
  /\ dom.attaches = Cardinality({n \in Nodes : HasHandlers(n, "focusin")}) + leaked
  /\ dom.capture <=> dom.attaches > 0

\* delegateCount splits every list of handlers into the delegated and the direct ones.
DelegatesComeFirst ==
  \A n \in Nodes, t \in Types :
    LET e == dom.events[n][t] IN
    \A i \in DOMAIN e.list : e.list[i].sel # <<>> <=> i <= e.delegateCount

\* An event runs the handlers of one element after the other, outwards for every node that
\* listens, and goes no further than the element whose handler stopped it.
EventsStop ==
  \A f \in Range(evFrames) : \A i, j \in DOMAIN f.log : i < j =>
    LET at(n) == Steps(f.target, n) IN
    /\ at(f.log[i].node) <= at(f.log[j].node)
    /\ f.log[i].node = f.log[j].node => at(f.log[i].elem) <= at(f.log[j].elem)
    /\ f.log[i].stop # "immediate"
    /\ f.log[i].stop = "stop" => f.log[i].node = f.log[j].node /\ f.log[i].elem = f.log[j].elem
=============================================================================
