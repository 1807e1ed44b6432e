----------------------------- MODULE MCWebLive -----------------------------
(***************************************************************************)
(* The parts of the web application and its libraries that wait for the    *)
(* browser or the server, side by side: a behaviour is one of one part,    *)
(* and the other parts stay in an initial state.                           *)
(***************************************************************************)
EXTENDS Effects, Ajax, Throttle, WebRouter, SpanReify, Modal, Tooltip, Carousel

CONSTANT Parts             \* the parts that run

VARIABLE part

allVars == <<part, effectsVars, ajaxVars, throttleVars, routerVars, reifyVars, answer, modalVars, tipVars,
             carouselVars>>

AllParts == {"effects", "ajax", "throttle", "router", "reify", "rows", "modal", "tooltip", "carousel"}

Init ==
  /\ part \in Parts
  /\ EffectsInit /\ AjaxInit /\ SpanReifyInit /\ RowsInit
  /\ ThrottleInit /\ (part # "throttle" => limiter = "debounce")
  /\ WebRouterInit /\ (part # "router" => hash = "")
  /\ ModalInit /\ (part # "modal" => modal.fade)
  /\ TipInit /\ (part # "tooltip" => tip.fade /\ tip.delay = [s \in {"show", "hide"} |-> 0])
  /\ CarouselInit /\ (part # "carousel" => carousel.cycles /\ carousel.slides)

\* The other parts stand still.
Rest(p) ==
  /\ part = p /\ UNCHANGED part
  /\ p # "effects" => UNCHANGED effectsVars
  /\ p # "ajax" => UNCHANGED ajaxVars
  /\ p # "throttle" => UNCHANGED throttleVars
  /\ p # "router" => UNCHANGED routerVars
  /\ p # "reify" => UNCHANGED reifyVars
  /\ p # "rows" => UNCHANGED answer
  /\ p # "modal" => UNCHANGED modalVars
  /\ p # "tooltip" => UNCHANGED tipVars
  /\ p # "carousel" => UNCHANGED carouselVars

Next ==
  \/ Rest("effects") /\ EffectsNext
  \/ Rest("ajax") /\ AjaxNext
  \/ Rest("throttle") /\ ThrottleNext
  \/ Rest("router") /\ WebRouterNext
  \/ Rest("reify") /\ SpanReifyNext
  \/ Rest("rows") /\ RowsNext
  \/ Rest("modal") /\ ModalNext
  \/ Rest("tooltip") /\ TipNext
  \/ Rest("carousel") /\ CarouselNext

\* The browser runs due timers and delivers its events, time goes on, and a request is answered
\* or fails.
Fairness ==
  /\ EffectsFairness /\ AjaxFairness /\ SpanReifyFairness /\ ModalFairness /\ TipFairness /\ CarouselFairness
  /\ WF_throttleVars(Rest("throttle") /\ (TimeGoesOn \/ LaterThrottled \/ LaterDebounced))
  /\ WF_routerVars(Rest("router") /\ Start)
  /\ WF_routerVars(Rest("router") /\ HashChange)
  /\ WF_routerVars(Rest("router") /\ FetchEnds)

Spec == Init /\ [][Next]_allVars /\ Fairness
-----------------------------------------------------------------------------
\* Effects and limited functions: an animation completes once, the queue is never stuck, what
\* runs ticks, one at a time; and the runs of a limited function are spaced.
TimersAreOrderly ==
  RunsAreSpaced /\ [](part = "effects" => CompletesOnce /\ QueueIsNeverStuck /\ RunningAnimationsTick /\ OneAtATime)

\* Ajax: the outcome of a request is final, jQuery.active counts the requests, JSONP names are
\* not shared, and only a well-formed answer is a success.
RequestsAreOrderly ==
  AjaxOutcomeIsFinal /\ [](part = "ajax" => ActiveIsExact /\ JsonpNamesAreOwn /\ SuccessIsWellFormed)

\* The router: the page is that of the hash, server statistics are shown when they are there,
\* and views that are closed do nothing.
PagesFollowHash == part = "router" => ViewFollowsHash /\ ShownStatsAreFetched /\ ClosedViewsAreSilent

\* The trees of spans: parents and children know each other, an expansion of all goes all the
\* way down, and the HBase viewer's rows are the tree.
SpanTreesAreWhole ==
  /\ part = "reify" => TreeIsLinked /\ ExpandAllIsDeep
  /\ part = "rows" => RowsAreTheTree

\* Bootstrap's modal, tooltip and carousel between their transitions.
WidgetsAreWhole ==
  part \in {"modal", "tooltip", "carousel"} =>
    QuietModalIsWhole /\ EnterCanDismiss /\ TipIsInView /\ TipFollowsPointer /\ CarouselIsSteady

\* The n-th thing that the part has begun is not at its end.
Pending(n) ==
  \/ part = "effects" /\ AnimationRuns(n)
  \/ part = "ajax" /\ TimedRequestIsOpen(n)
  \/ part = "reify" /\ CallIsOut(n)
  \/ n = 1 /\ CASE part = "throttle" -> owed
                 [] part = "router" -> HashWaits
                 [] part = "modal" -> HiddenModalStays
                 [] part = "tooltip" -> LeftTipStays
                 [] part = "carousel" -> ToWaits
                 [] OTHER -> FALSE

\* What is begun comes to its end: animations, requests with a timeout, runs that are owed, a
\* new hash, calls for spans, a modal that is hidden, a tip that was left, a slide that waits.
BegunIsEnded == \A n \in 1 .. 3 : Pending(n) ~> ~Pending(n)
-----------------------------------------------------------------------------
Set(d, t, g) == [dataType |-> d, timeout |-> t, global |-> g]
AjaxSettings == {Set("json", TRUE, TRUE), Set("*", FALSE, TRUE), Set("jsonp", FALSE, TRUE),
                 Set("jsonp", TRUE, FALSE)}

ParentsC == <<<<5>>, <<1>>, <<1>>, <<2>>, <<>>>>
ChildrenC == <<<<3, 2>>, <<4>>, <<>>, <<>>, <<1>>>>
BeginC == <<2, 3, 4, 5, 1>>
=============================================================================
