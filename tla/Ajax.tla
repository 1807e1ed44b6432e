------------------------------- MODULE Ajax -------------------------------
(***************************************************************************)
(* jQuery.ajax with its XMLHttpRequest transport, timeouts, abort() and    *)
(* JSONP callbacks.                                                        *)
(*                                                                         *)
(* done() runs once per request, but for one that is aborted while ajax()  *)
(* is about to send it.  In the middle of it the success or error callback *)
(* of the user runs, which may start and abort requests, or throw:         *)
(* `inDone` is the stack of requests whose done() waits for that callback. *)
(* The browser delivers events and timeouts only between calls.            *)
(***************************************************************************)
EXTENDS Integers, Sequences, SequencesExt, FiniteSets

CONSTANTS Requests,  \* bound: the requests that are made
          Settings   \* [dataType, timeout, global] of a request

VARIABLES jqXHR,         \* the requests
          active,        \* jQuery.active
          inDone,
          started,       \* ajaxStart was triggered, and ajaxStop was not since
          freeNames,     \* oldCallbacks: JSONP callback names to use again
          nonce,         \* the next new name
          lost           \* global requests whose done() ended with an exception

ajaxVars == <<jqXHR, active, inDone, started, freeNames, nonce, lost>>

\* state is as in the code, with "unused" before; timer and xhr say whether the timeout is
\* set and whether onload and onerror are; outcome is what the callbacks were told and log the
\* callbacks that ran; resumes says that ajax() has yet to go on after done().
NewXHR == [state |-> "unused", set |-> [dataType |-> "*", timeout |-> FALSE, global |-> FALSE],
           timer |-> FALSE, xhr |-> FALSE, name |-> 0, outcome |-> "none", wellFormed |-> TRUE,
           log |-> <<>>, dones |-> 0, resumes |-> FALSE]

AjaxInit ==
  /\ jqXHR = [r \in Requests |-> NewXHR]
  /\ active = 0 /\ inDone = <<>> /\ started = FALSE
  /\ freeNames = <<>> /\ nonce = 1 /\ lost = 0
-----------------------------------------------------------------------------
\* The conversions of ajaxSettings.converters and of a JSONP request.
Converters == {<<"text", "html">>, <<"text", "json">>, <<"text", "xml">>,
               <<"text", "script">>, <<"script", "json">>}

\* The dataTypes of a request after its prefilters: JSONP is script, then json.
DataTypes(dataType) == IF dataType = "jsonp" THEN <<"script", "json">> ELSE <<dataType>>

\* The response is text: an automatic type becomes the known content type, and "text" comes
\* first in any case.
ajaxHandleResponses(types, contentType) ==
  LET named == IF types[1] = "*"
               THEN (IF contentType = "unknown" THEN <<>> ELSE <<contentType>>) \o Tail(types)
               ELSE types
  IN  IF named # <<>> /\ named[1] = "text" THEN named ELSE <<"text">> \o named

\* Every conversion on the way has to exist and must not throw.
ajaxConvert(types, wellFormed) ==
  IF /\ \A i \in 1 .. (Len(types) - 1) : <<types[i], types[i + 1]>> \in Converters
     /\ Len(types) > 1 => (wellFormed \/ types[Len(types)] = "html")
  THEN "success" ELSE "parsererror"

IsSuccess(status) == (status >= 200 /\ status < 300) \/ status = 304

\* What a response means for the request.
ResponseOutcome(set, status, contentType, wellFormed) ==
  CASE ~IsSuccess(status) -> "error"
    [] status = 204 -> "nocontent"
    [] status = 304 -> "notmodified"
    [] OTHER -> ajaxConvert(ajaxHandleResponses(DataTypes(set.dataType), contentType), wellFormed)

Succeeds(outcome) == outcome \in {"success", "nocontent", "notmodified"}
-----------------------------------------------------------------------------
Open(r) == jqXHR[r].state = "sent"
\* Requests are numbered in the order they are made.
Fresh(r) == \A q \in Requests : jqXHR[q].state = "unused" <=> q >= r
BrowserActs == inDone = <<>>

\* A request takes the last JSONP callback name given back, or a new one.
TakeName(set) ==
  IF set.dataType # "jsonp" THEN UNCHANGED <<freeNames, nonce>>
  ELSE IF freeNames # <<>> THEN freeNames' = Front(freeNames) /\ UNCHANGED nonce
  ELSE nonce' = nonce + 1 /\ UNCHANGED freeNames
NameOf(set) == IF set.dataType # "jsonp" THEN 0
               ELSE IF freeNames # <<>> THEN Last(freeNames) ELSE nonce

\* jQuery.active++ and ajaxStart.
CountStart(set) ==
  /\ active' = IF set.global THEN active + 1 ELSE active
  /\ started' = (started \/ (set.global /\ active = 0))

\* ajax() up to transport.send().
AjaxSend(r, set) ==
  /\ Fresh(r)
  /\ CountStart(set) /\ TakeName(set)
  /\ jqXHR' = [jqXHR EXCEPT ![r] = [NewXHR EXCEPT !.state = "sent", !.set = set,
                 !.timer = set.timeout, !.xhr = TRUE, !.name = NameOf(set)]]
  /\ UNCHANGED <<inDone, lost>>

\* done() up to the success or error callback of the user.  The callback is on a Deferred
\* and runs once, however often done() does.
Finished(x, outcome) ==
  [x EXCEPT !.state = "done", !.timer = FALSE, !.xhr = FALSE, !.dones = @ + 1,
            !.outcome = IF x.dones = 0 THEN outcome ELSE @,
            !.log = IF x.dones = 0 THEN <<IF Succeeds(outcome) THEN "success" ELSE "error">> ELSE @]

\* Mutant: nothing keeps a second answer away.
DoneAgain(r, x, outcome) ==
  /\ jqXHR' = [jqXHR EXCEPT ![r] = Finished(x, outcome)]
  /\ freeNames' = IF x.set.dataType = "jsonp" THEN Append(freeNames, x.name) ELSE freeNames
  /\ inDone' = Append(inDone, r)

\* The JSONP clean-up runs before the user's callbacks: the name may be used again.
Done(r, x, outcome) ==
  IF x.state = "done" THEN jqXHR' = [jqXHR EXCEPT ![r] = x] /\ UNCHANGED <<freeNames, inDone>>
  ELSE /\ jqXHR' = [jqXHR EXCEPT ![r] = Finished(x, outcome)]
       /\ freeNames' = IF x.set.dataType = "jsonp" THEN Append(freeNames, x.name) ELSE freeNames
       /\ inDone' = Append(inDone, r)

\* done() runs before ajax() returns.
EndsInAjax(r, set, outcome, resumes) ==
  /\ Fresh(r)
  /\ CountStart(set)
  /\ nonce' = IF set.dataType = "jsonp" /\ freeNames = <<>> THEN nonce + 1 ELSE nonce
  /\ jqXHR' = [jqXHR EXCEPT ![r] =
                 Finished([NewXHR EXCEPT !.set = set, !.name = NameOf(set), !.resumes = resumes], outcome)]
  /\ freeNames' = IF set.dataType = "jsonp" /\ freeNames = <<>> THEN <<nonce>> ELSE freeNames
  /\ inDone' = Append(inDone, r)
  /\ UNCHANGED lost

\* beforeSend returns false or aborts, or no transport accepts the request, or xhr.send() throws.
AjaxFails(r, set, outcome) == EndsInAjax(r, set, outcome, FALSE)

\* A handler of the global ajaxSend event calls abort(), after which ajax() goes on.
AjaxAbortedInSend(r, set) == set.global /\ EndsInAjax(r, set, "abort", TRUE)

\* onload: the callback removes itself, so neither a later event nor abort() finds it.
XhrLoad(r, status, contentType, wellFormed) ==
  /\ BrowserActs /\ jqXHR[r].xhr
  /\ Done(r, [jqXHR[r] EXCEPT !.xhr = FALSE, !.wellFormed = wellFormed],
          ResponseOutcome(jqXHR[r].set, status, contentType, wellFormed))
  /\ UNCHANGED <<active, started, nonce, lost>>

XhrError(r) ==
  /\ BrowserActs /\ jqXHR[r].xhr
  /\ Done(r, [jqXHR[r] EXCEPT !.xhr = FALSE], "error")
  /\ UNCHANGED <<active, started, nonce, lost>>

\* abort() by the user, also from a callback, and also after the request is done.
Abort(r) ==
  /\ jqXHR[r].state # "unused"
  /\ Done(r, [jqXHR[r] EXCEPT !.xhr = FALSE], "abort")
  /\ UNCHANGED <<active, started, nonce, lost>>

\* The timeout calls abort("timeout").
Timeout(r) ==
  /\ BrowserActs /\ jqXHR[r].timer
  /\ Done(r, [jqXHR[r] EXCEPT !.timer = FALSE, !.xhr = FALSE], "timeout")
  /\ UNCHANGED <<active, started, nonce, lost>>

\* The user's callback returns: the complete callbacks, and then the global counter.  If ajax()
\* goes on after this it sets state to 1 again, finds no transport to send with, and calls done()
\* once more.
DoneRest ==
  /\ inDone # <<>>
  /\ LET r == Last(inDone)
         x == [jqXHR[r] EXCEPT !.log = IF Contains(@, "complete") THEN @ ELSE Append(@, "complete")]
     IN  /\ jqXHR' = [jqXHR EXCEPT ![r] =
                         IF x.resumes THEN Finished([x EXCEPT !.resumes = FALSE], "error") ELSE x]
         /\ inDone' = IF x.resumes THEN inDone ELSE Front(inDone)
         /\ active' = IF x.set.global THEN active - 1 ELSE active
         /\ started' = (started /\ ~(x.set.global /\ active = 1))
  /\ UNCHANGED <<freeNames, nonce, lost>>

\* The user's callback throws: the exception ends every done() on the stack, and what they
\* had left to do is not done.
CallbackThrows ==
  /\ inDone # <<>>
  /\ lost' = lost + Len(SelectSeq(inDone, LAMBDA r : jqXHR[r].set.global))
  /\ inDone' = <<>>
  /\ UNCHANGED <<jqXHR, active, started, freeNames, nonce>>

\* The responses a server gives.
Responses == {200, 204, 304, 500} \X {"json", "unknown"} \X BOOLEAN

AjaxNext ==
  \/ \E r \in Requests, set \in Settings :
       \/ AjaxSend(r, set)
       \/ \E outcome \in {"canceled", "error"} : AjaxFails(r, set, outcome)
       \/ AjaxAbortedInSend(r, set)
  \/ \E r \in Requests :
       \/ \E p \in Responses : XhrLoad(r, p[1], p[2], p[3])
       \/ XhrError(r) \/ Abort(r) \/ Timeout(r)
  \/ DoneRest \/ CallbackThrows

\* The browser fires a timeout that is due, and a callback that was called returns or throws.
AjaxFairness ==
  /\ \A r \in Requests : WF_ajaxVars(Timeout(r))
  /\ WF_ajaxVars(DoneRest \/ CallbackThrows)
-----------------------------------------------------------------------------
\* A late answer, a timeout or an abort() changes nothing for a request that is done.
AjaxOutcomeIsFinal ==
  [][\A r \in Requests : jqXHR[r].state = "done" =>
       /\ jqXHR'[r].outcome = jqXHR[r].outcome
       /\ IsPrefix(jqXHR[r].log, jqXHR'[r].log)]_ajaxVars

AbortedInSend == {r \in Requests : jqXHR[r].dones = 2}
Counted == {r \in Requests : jqXHR[r].set.global /\ (Open(r) \/ Contains(inDone, r))}

\* jQuery.active is the number of requests under way, plus the ones whose callback threw,
\* and ajaxStart was the last event of the two exactly while it is positive.  (A request
\* aborted by an ajaxSend handler is counted down twice.)
ActiveIsExact ==
  /\ active = Cardinality(Counted) + lost - Cardinality(AbortedInSend)
  /\ AbortedInSend = {} => (started <=> active > 0)

\* JSONP requests under way at the same time have callback names of their own.
JsonpNamesAreOwn ==
  \A r, q \in Requests :
    r # q /\ Open(r) /\ Open(q) /\ jqXHR[r].name # 0 => jqXHR[r].name # jqXHR[q].name

\* A request that asks for JSON is never reported as a success when the body could not be
\* parsed.
SuccessIsWellFormed ==
  \A r \in Requests :
    jqXHR[r].outcome = "success" /\ jqXHR[r].set.dataType # "*" => jqXHR[r].wellFormed

\* A request with a timeout is open, which must not last, also when the server never answers.
TimedRequestIsOpen(r) == r \in Requests /\ Open(r) /\ jqXHR[r].set.timeout
=============================================================================
