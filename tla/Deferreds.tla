------------------------------ MODULE Deferreds -----------------------------
(***************************************************************************)
(* jQuery.Callbacks: the callback list under jQuery.Deferred, jQuery.ajax, *)
(* the animations and document ready.  A list is a record and every method *)
(* is an operator from lists to lists; invoking a callback is left to the  *)
(* actions that run lists, because a callback may call any method of the   *)
(* list it is on.  An optional value is a sequence of at most one element. *)
(* One list in use and jQuery.Deferred follow.                             *)
(***************************************************************************)
EXTENDS Integers, Sequences, SequencesExt

\* What the options string asks for.  A list without "once" has a stack of fire calls.
NewList(opts) ==
  [opts |-> opts, list |-> <<>>, gone |-> FALSE, memory |-> <<>>, fired |-> FALSE,
   firing |-> FALSE, data |-> 0, start |-> 0, idx |-> 0, len |-> 0,
   stack |-> <<>>, noStack |-> "once" \in opts]

disable(c) == [c EXCEPT !.list = <<>>, !.gone = TRUE, !.stack = <<>>, !.noStack = TRUE,
                        !.memory = <<>>]

lock(c) == LET l == [c EXCEPT !.stack = <<>>, !.noStack = TRUE]
           IN  IF l.memory = <<>> THEN disable(l) ELSE l

\* emptying a disabled list makes it a list again, as the code does
empty(c) == [c EXCEPT !.list = <<>>, !.gone = FALSE, !.len = 0]

has(c, f) == f \in Range(c.list)

\* fire(data) up to the first callback.
fire(c, data) ==
  [c EXCEPT !.memory = IF "memory" \in c.opts THEN <<data>> ELSE <<>>,
            !.data = data, !.fired = TRUE, !.idx = c.start, !.start = 0, !.len = Len(c.list),
            !.firing = TRUE]

\* The loop of fire has a callback left to invoke, and which one.
MoreToFire(c) == c.firing /\ ~c.gone /\ c.idx < c.len
Current(c) == c.list[c.idx + 1]

\* The callback at idx returned; `stopped` when it returned false.
Returned(c, stopped) ==
  IF stopped /\ "stopOnFalse" \in c.opts
  THEN [c EXCEPT !.memory = <<>>, !.idx = c.len]
  ELSE [c EXCEPT !.idx = @ + 1]

\* fire(data) after its loop; it may start the next fire of the stack.
FireDone(c) ==
  LET r == [c EXCEPT !.firing = FALSE] IN
  CASE r.gone -> r
    [] ~r.gone /\ ~r.noStack ->
         IF r.stack = <<>> THEN r
         ELSE fire([r EXCEPT !.stack = Tail(@)], Head(r.stack))
    [] ~r.gone /\ r.noStack -> IF r.memory # <<>> THEN [r EXCEPT !.list = <<>>] ELSE disable(r)

Pushes(c, f) == ~c.gone /\ ("unique" \in c.opts => ~has(c, f))

\* A list that is firing takes the new callback into the current batch; one with a
\* memory that is at rest fires it right away, from where it stands.
add(c, f) ==
  LET l == IF Pushes(c, f) THEN [c EXCEPT !.list = Append(@, f)] ELSE c IN
  CASE c.gone -> c
    [] ~c.gone /\ c.firing -> [l EXCEPT !.len = Len(l.list)]
    [] ~c.gone /\ ~c.firing /\ c.memory # <<>> ->
         fire([l EXCEPT !.start = Len(c.list)], c.memory[1])
    [] OTHER -> l

\* Mutant: the firing loop keeps its old length.
removeKeepLength(c, f) ==
  LET before == {i \in DOMAIN c.list : c.list[i] = f /\ i - 1 <= c.idx}
  IN  [c EXCEPT !.list = SelectSeq(@, LAMBDA g : g # f),
                !.idx = IF c.firing THEN @ - Cardinality(before) ELSE @]

\* remove(f): every occurrence, first to last; the indexes of a running fire follow.
remove(c, f) ==
  LET at == {i \in DOMAIN c.list : c.list[i] = f}
      \* the i-th entry has moved down by the occurrences before it when it is spliced out
      before == {i \in at : i - 1 <= c.idx}
  IN  [c EXCEPT !.list = SelectSeq(@, LAMBDA g : g # f),
                !.len = IF c.firing THEN @ - Cardinality(at) ELSE @,
                !.idx = IF c.firing THEN @ - Cardinality(before) ELSE @]

Accepts(c) == ~c.gone /\ (~c.fired \/ ~c.noStack)

fireWith(c, data) ==
  CASE ~Accepts(c) -> c
    [] Accepts(c) /\ c.firing -> [c EXCEPT !.stack = Append(@, data)]
    [] OTHER -> fire(c, data)
-----------------------------------------------------------------------------
(***************************************************************************)
(* One jQuery.Callbacks list and the code that uses it.  JavaScript runs   *)
(* one thing at a time, so a method called while the list is firing is     *)
(* called by the callback that is running, `inCall`, or comes after one    *)
(* that threw: the list then says for ever that it is firing.              *)
(*                                                                         *)
(* asked and begun are the values given to and taken up by fireWith,       *)
(* pushed and calls count how often a callback was put on the list and     *)
(* was invoked, and dropped holds the callbacks taken off the list again.  *)
(***************************************************************************)
CONSTANTS Fns,         \* the callbacks
          OptionSets,  \* the options a list is made with
          MaxCalls     \* bound: method calls

VARIABLES cb, inCall, threw, asked, begun, pushed, calls, dropped, cbCalls

callbacksVars == <<cb, inCall, threw, asked, begun, pushed, calls, dropped, cbCalls>>

CallbacksInit ==
  /\ \E o \in OptionSets : cb = NewList(o)
  /\ inCall = FALSE /\ threw = FALSE
  /\ asked = <<>> /\ begun = <<>>
  /\ pushed = [f \in Fns |-> 0]
  /\ calls = [f \in Fns |-> 0]
  /\ dropped = {}
  /\ cbCalls = 0

\* User code runs: nothing is firing, or a callback is running or has thrown.
UserRuns == (cb.firing => inCall \/ threw) /\ cbCalls < MaxCalls

Method(c) == UserRuns /\ cb' = c /\ cbCalls' = cbCalls + 1 /\ UNCHANGED <<inCall, threw, calls>>

CallAdd(f) ==
  /\ Method(add(cb, f))
  /\ pushed' = IF Pushes(cb, f) THEN [pushed EXCEPT ![f] = @ + 1] ELSE pushed
  /\ UNCHANGED <<asked, begun, dropped>>

CallRemove(f) ==
  /\ Method(IF cb.gone THEN cb ELSE remove(cb, f))
  /\ dropped' = dropped \union {f}
  /\ UNCHANGED <<asked, begun, pushed>>

CallEmpty ==
  /\ Method(empty(cb))
  /\ dropped' = Fns
  /\ UNCHANGED <<asked, begun, pushed>>

CallDisable == Method(disable(cb)) /\ dropped' = Fns /\ UNCHANGED <<asked, begun, pushed>>

CallLock ==
  /\ Method(lock(cb))
  /\ dropped' = IF lock(cb).gone THEN Fns ELSE dropped
  /\ UNCHANGED <<asked, begun, pushed>>

CallFireWith ==
  /\ Method(fireWith(cb, cbCalls))
  /\ asked' = IF Accepts(cb) THEN Append(asked, cbCalls) ELSE asked
  /\ begun' = IF fireWith(cb, cbCalls).firing /\ ~cb.firing THEN Append(begun, cbCalls) ELSE begun
  /\ UNCHANGED <<pushed, dropped>>

\* The loop of fire invokes the next callback ...
Invoke ==
  /\ MoreToFire(cb) /\ ~inCall /\ ~threw
  /\ inCall' = TRUE
  /\ calls' = [calls EXCEPT ![Current(cb)] = @ + 1]
  /\ UNCHANGED <<cb, threw, asked, begun, pushed, dropped, cbCalls>>

\* ... which returns false or something else ...
Return(r) ==
  /\ inCall
  /\ inCall' = FALSE
  /\ cb' = Returned(cb, r = "false")
  /\ UNCHANGED <<threw, asked, begun, pushed, calls, dropped, cbCalls>>

\* ... or throws, which abandons the loop and what fire does after it ...
Throw ==
  /\ inCall
  /\ inCall' = FALSE /\ threw' = TRUE
  /\ UNCHANGED <<cb, asked, begun, pushed, calls, dropped, cbCalls>>

\* ... and ends.
EndFire ==
  /\ cb.firing /\ ~inCall /\ ~threw /\ ~MoreToFire(cb)
  /\ cb' = FireDone(cb)
  /\ begun' = IF FireDone(cb).firing THEN Append(begun, FireDone(cb).data) ELSE begun
  /\ UNCHANGED <<inCall, threw, asked, pushed, calls, dropped, cbCalls>>

CallbacksNext ==
  \/ \E f \in Fns : CallAdd(f) \/ CallRemove(f)
  \/ CallEmpty \/ CallDisable \/ CallLock \/ CallFireWith
  \/ Invoke
  \/ \E r \in {"false", "other"} : Return(r)
  \/ Throw
  \/ EndFire
-----------------------------------------------------------------------------
\* Whatever callbacks do to the list they are running on, the loop of fire only reads
\* entries that are there.
LoopStaysInList == MoreToFire(cb) /\ ~inCall /\ ~threw => cb.idx \in 0 .. (Len(cb.list) - 1)

\* Fire calls made while the list is firing are neither lost, doubled nor reordered: they
\* are taken up in the order of the calls, all of them unless the list was locked.
FiresInOrder ==
  /\ IsPrefix(begun, asked)
  /\ ~cb.firing /\ ~cb.noStack => begun = asked

\* A "once" list is fired once, and by the end of it has invoked every callback that was
\* not taken off exactly as often as it was put on, before, during or after the fire.
OnceRunsEveryCallback ==
  "once" \in cb.opts =>
    /\ Len(begun) <= 1
    /\ cb.fired /\ ~cb.firing /\ "stopOnFalse" \notin cb.opts =>
         \A f \in Fns \ dropped : calls[f] = pushed[f]
-----------------------------------------------------------------------------
(***************************************************************************)
(* jQuery.Deferred and jQuery.when.  A Deferred is three callback lists;   *)
(* everything it promises comes from the callbacks it puts on its own      *)
(* lists: the first one sets its state, the next two disable the opposite  *)
(* list and lock the progress list.  then() and when() are callbacks too.  *)
(*                                                                         *)
(* JavaScript calls nest: a callback may resolve another Deferred, whose   *)
(* callbacks run before the first returns.  `frames` is the call stack: a  *)
(* "fire" frame runs a list, an "attach" frame is a method with several    *)
(* add() calls to go, and a "user" frame is a callback of the caller,      *)
(* which may call any method, and does not throw.                          *)
(***************************************************************************)
CONSTANTS Roots,      \* Deferreds that user code resolves
          Derived,    \* the ones that then() and when() make
          MaxUserOps  \* bound: method calls by user code

VARIABLES lists,       \* the three lists of every Deferred
          state,       \* "pending", "resolved" or "rejected"
          frames,      \* the call stack, innermost call last
          origin,      \* how a derived Deferred was made, "unused" before
          left,        \* when(): the count of uncompleted subordinates
          values,      \* when(): the values of the subordinates
          registered,  \* callbacks of the user, in the order given to a list
          ran,         \* the ones that were invoked, in that order
          userOps

deferredsVars == <<lists, state, frames, origin, left, values, registered, ran, userOps>>

AllDeferreds == Roots \union Derived
Kinds == {"done", "fail", "progress"}
AllLists == AllDeferreds \X Kinds

Opposite(k) == IF k = "done" THEN "fail" ELSE "done"
FinalState(k) == IF k = "done" THEN "resolved" ELSE "rejected"

\* The callbacks that Deferred() puts on a list of its own.
OwnCallbacks(d, k) ==
  IF k = "progress" THEN <<>>
  ELSE <<<<"state", d, k>>, <<"disable", d, Opposite(k)>>, <<"lock", d, k>>>>

NewDeferredList(d, k) ==
  [NewList(IF k = "progress" THEN {"memory"} ELSE {"once", "memory"})
     EXCEPT !.list = OwnCallbacks(d, k)]

DeferredsInit ==
  /\ lists = [l \in AllLists |-> NewDeferredList(l[1], l[2])]
  /\ state = [d \in AllDeferreds |-> "pending"]
  /\ frames = <<>>
  /\ origin = [d \in AllDeferreds |-> [by |-> IF d \in Roots THEN "new" ELSE "unused"]]
  /\ left = [d \in Derived |-> 0]
  /\ values = [d \in Derived |-> <<>>]
  /\ registered = [l \in AllLists |-> <<>>]
  /\ ran = [l \in AllLists |-> <<>>]
  /\ userOps = 0
-----------------------------------------------------------------------------
FireFrame(l) == [op |-> "fire", l |-> l]
AttachFrame(todo) == [op |-> "attach", todo |-> todo]
UserFrame == [op |-> "user"]

Attach(l, e) == [do |-> "add", l |-> l, e |-> e]

\* Calling add or fireWith of list l, whose new value is c, in the frames fs: when that
\* starts a fire, the fire is the next thing to run.
Calls(l, c, fs) ==
  /\ lists' = [lists EXCEPT ![l] = c]
  /\ frames' = IF c.firing /\ ~lists[l].firing THEN Append(fs, FireFrame(l)) ELSE fs

Top == Last(frames)
TopIs(op) == frames # <<>> /\ Top.op = op

UserMayCall == (frames = <<>> \/ TopIs("user")) /\ userOps < MaxUserOps
CountOp == userOps' = userOps + 1

Known(d) == origin[d].by # "unused"

\* done(), fail(), progress() and always() with a callback of the user.
AddCallback(d, ks) ==
  /\ UserMayCall /\ Known(d) /\ CountOp
  /\ frames' = Append(frames, AttachFrame([i \in DOMAIN ks |->
                       Attach(<<d, ks[i]>>, <<"user", userOps, 0>>)]))
  /\ UNCHANGED <<lists, state, origin, left, values, registered, ran>>

\* resolve(), reject() and notify() of a Deferred the user made.
Settle(d, k) ==
  /\ UserMayCall /\ CountOp
  /\ Calls(<<d, k>>, fireWith(lists[<<d, k>>], userOps), frames)
  /\ UNCHANGED <<state, origin, left, values, registered, ran>>

\* d.then(...) makes t.  `returns` is what its done and fail handlers return: "none" without
\* handlers, "value", or "promise" for the promise of the Deferred r.
Then(d, t, returns, r) ==
  /\ UserMayCall /\ Known(d) /\ ~Known(t) /\ CountOp
  /\ origin' = [origin EXCEPT ![t] = [by |-> "then", of |-> d, returns |-> returns, r |-> r]]
  /\ frames' = Append(frames, AttachFrame(
       <<Attach(<<d, "done">>, <<"then", t, "done">>),
         Attach(<<d, "fail">>, <<"then", t, "fail">>),
         Attach(<<d, "progress">>, <<"then", t, "progress">>)>>))
  /\ UNCHANGED <<lists, state, left, values, registered, ran>>

\* What when() does with its i-th argument: wait for a Deferred, count a plain value.
Subordinate(m, i, s) ==
  IF s = "plain" THEN <<[do |-> "count", m |-> m]>>
  ELSE <<Attach(<<s, "done">>, <<"update", m, i>>),
         Attach(<<s, "fail">>, <<"reject", m, i>>),
         Attach(<<s, "progress">>, <<"updateProgress", m, i>>)>>

\* when(s1, s2) makes m, the master Deferred.
When(m, s1, s2) ==
  /\ UserMayCall /\ ~Known(m) /\ CountOp
  /\ \A s \in {s1, s2} \ {"plain"} : Known(s)
  /\ origin' = [origin EXCEPT ![m] = [by |-> "when", of |-> <<s1, s2>>]]
  /\ left' = [left EXCEPT ![m] = 2]
  /\ values' = [values EXCEPT ![m] = <<0, 0>>]
  /\ frames' = Append(frames, AttachFrame(
       Subordinate(m, 1, s1) \o Subordinate(m, 2, s2) \o <<[do |-> "end", m |-> m]>>))
  /\ UNCHANGED <<lists, state, registered, ran>>
-----------------------------------------------------------------------------
\* The next add() of a method ...
AttachNext ==
  /\ TopIs("attach") /\ Top.todo # <<>>
  /\ LET job == Head(Top.todo)
         fs == Append(Front(frames), AttachFrame(Tail(Top.todo)))
     IN  CASE job.do = "add" ->
                /\ Calls(job.l, add(lists[job.l], job.e), fs)
                /\ registered' = IF job.e[1] = "user" /\ ~lists[job.l].gone
                                 THEN [registered EXCEPT ![job.l] = Append(@, job.e[2])]
                                 ELSE registered
                /\ UNCHANGED left
           [] job.do = "count" ->
                /\ left' = [left EXCEPT ![job.m] = @ - 1]
                /\ frames' = fs
                /\ UNCHANGED <<lists, registered>>
           [] job.do = "end" ->
                /\ IF left[job.m] = 0
                   THEN Calls(<<job.m, "done">>, fireWith(lists[<<job.m, "done">>], values[job.m]), fs)
                   ELSE frames' = fs /\ UNCHANGED lists
                /\ UNCHANGED <<left, registered>>
  /\ UNCHANGED <<state, origin, values, ran, userOps>>

\* ... and its return.
AttachReturns ==
  /\ TopIs("attach") /\ Top.todo = <<>>
  /\ frames' = Front(frames)
  /\ UNCHANGED <<lists, state, origin, left, values, registered, ran, userOps>>

UserReturns ==
  /\ TopIs("user")
  /\ frames' = Front(frames)
  /\ UNCHANGED <<lists, state, origin, left, values, registered, ran, userOps>>

\* The list of the innermost fire, and the callback its loop is at.  None of these
\* callbacks removes itself, so the loop's index may move on before the callback runs.
FiringList == lists[Top.l]
Callback == Current(FiringList)
AtCallback(kind) == TopIs("fire") /\ MoreToFire(FiringList) /\ Callback[1] = kind
Advanced == [lists EXCEPT ![Top.l] = Returned(@, FALSE)]

RunState ==
  /\ AtCallback("state")
  /\ state' = [state EXCEPT ![Callback[2]] = FinalState(Callback[3])]
  /\ lists' = Advanced
  /\ UNCHANGED <<frames, origin, left, values, registered, ran, userOps>>

RunDisable ==
  /\ AtCallback("disable")
  /\ lists' = [Advanced EXCEPT ![<<Callback[2], Callback[3]>>] = disable(@)]
  /\ UNCHANGED <<state, frames, origin, left, values, registered, ran, userOps>>

RunLock ==
  /\ AtCallback("lock")
  /\ lists' = [Advanced EXCEPT ![<<Callback[2], "progress">>] = lock(@)]
  /\ UNCHANGED <<state, frames, origin, left, values, registered, ran, userOps>>

RunUser ==
  /\ AtCallback("user")
  /\ lists' = Advanced
  /\ ran' = [ran EXCEPT ![Top.l] = Append(@, Callback[2])]
  /\ frames' = Append(frames, UserFrame)
  /\ UNCHANGED <<state, origin, left, values, registered, userOps>>

\* Firing list l from a callback of the innermost fire.
FiresNext(l, v) ==
  LET c == fireWith(lists[l], v) IN
  /\ lists' = [Advanced EXCEPT ![l] = c]
  /\ frames' = IF c.firing /\ ~lists[l].firing THEN Append(frames, FireFrame(l)) ELSE frames

Handled == 100  \* the value a handler of then() returns

\* The callback of then(): newDefer follows a returned promise, or is fired the way d was.
RunThen ==
  /\ AtCallback("then")
  /\ LET t == Callback[2]
         o == origin[t]
         returns == IF Callback[3] = "progress" THEN "none" ELSE o.returns
     IN  IF returns = "promise"
         THEN /\ lists' = Advanced
              /\ frames' = Append(frames, AttachFrame(
                   <<Attach(<<o.r, "done">>, <<"settle", t, "done">>),
                     Attach(<<o.r, "fail">>, <<"settle", t, "fail">>),
                     Attach(<<o.r, "progress">>, <<"settle", t, "progress">>)>>))
         ELSE FiresNext(<<t, Callback[3]>>,
                        IF returns = "value" THEN Handled ELSE FiringList.data)
  /\ UNCHANGED <<state, origin, left, values, registered, ran, userOps>>

RunSettle ==
  /\ AtCallback("settle")
  /\ FiresNext(<<Callback[2], Callback[3]>>, FiringList.data)
  /\ UNCHANGED <<state, origin, left, values, registered, ran, userOps>>

\* updateFunc of when(), for a resolved subordinate ...
RunUpdate ==
  /\ AtCallback("update")
  /\ LET m == Callback[2]
         vs == [values[m] EXCEPT ![Callback[3]] = FiringList.data]
     IN  /\ values' = [values EXCEPT ![m] = vs]
         /\ left' = [left EXCEPT ![m] = @ - 1]
         /\ IF left[m] = 1
            THEN FiresNext(<<m, "done">>, vs)
            ELSE lists' = Advanced /\ UNCHANGED frames
  /\ UNCHANGED <<state, origin, registered, ran, userOps>>

\* ... and for the progress of one.
RunUpdateProgress ==
  /\ AtCallback("updateProgress")
  /\ FiresNext(<<Callback[2], "progress">>, FiringList.data)
  /\ UNCHANGED <<state, origin, left, values, registered, ran, userOps>>

RunReject ==
  /\ AtCallback("reject")
  /\ FiresNext(<<Callback[2], "fail">>, FiringList.data)
  /\ UNCHANGED <<state, origin, left, values, registered, ran, userOps>>

EndOfFire ==
  /\ TopIs("fire") /\ ~MoreToFire(FiringList)
  /\ lists' = [lists EXCEPT ![Top.l] = FireDone(@)]
  /\ frames' = IF FireDone(FiringList).firing THEN frames ELSE Front(frames)
  /\ UNCHANGED <<state, origin, left, values, registered, ran, userOps>>

DeferredsNext ==
  \/ \E d \in AllDeferreds : \E ks \in {<<"done">>, <<"fail">>, <<"done", "fail">>} : AddCallback(d, ks)
  \/ \E d \in Roots, k \in Kinds : Settle(d, k)
  \/ \E d \in AllDeferreds, t \in Derived :
       \/ \E returns \in {"none", "value"} : Then(d, t, returns, d)
       \/ \E r \in Roots \ {d} : Then(d, t, "promise", r)
  \/ \E m \in Derived, s1 \in AllDeferreds, s2 \in AllDeferreds \union {"plain"} : When(m, s1, s2)
  \/ AttachNext \/ AttachReturns \/ UserReturns
  \/ RunState \/ RunDisable \/ RunLock \/ RunUser
  \/ RunThen \/ RunSettle \/ RunUpdate \/ RunUpdateProgress \/ RunReject
  \/ EndOfFire
-----------------------------------------------------------------------------
\* Once resolved or rejected, a Deferred stays so, whatever its callbacks call.
SettlesOnce == [][\A d \in AllDeferreds : state[d] # "pending" => state'[d] = state[d]]_deferredsVars

AtRest == frames = <<>>

\* The done callbacks of a Deferred run in the order they were added, also those added by
\* other callbacks; when all calls have returned each has run once if the Deferred was
\* resolved and none otherwise, and likewise for fail.
CallbacksRunOnceInOrder ==
  \A d \in AllDeferreds, k \in {"done", "fail"} :
    /\ IsPrefix(ran[<<d, k>>], registered[<<d, k>>])
    /\ AtRest => ran[<<d, k>>] = IF state[d] = FinalState(k) THEN registered[<<d, k>>] ELSE <<>>

Outcome(d) == [state |-> state[d],
               value |-> lists[<<d, "done">>].memory \o lists[<<d, "fail">>].memory]

\* When all calls have returned, the Deferred of then() has settled exactly if the one it
\* was called on has, the same way, and with a returned promise the way that one has.
ThenFollows ==
  AtRest =>
    \A t \in Derived : origin[t].by = "then" =>
      LET of == Outcome(origin[t].of) IN
      CASE of.state = "pending" -> state[t] = "pending"
        [] of.state # "pending" /\ origin[t].returns = "promise" -> Outcome(t) = Outcome(origin[t].r)
        [] of.state # "pending" /\ origin[t].returns = "none" -> Outcome(t) = of
        [] OTHER -> Outcome(t) = [of EXCEPT !.value = <<Handled>>]

\* when() is rejected as soon as one subordinate is, and resolved, with all their values,
\* exactly when all are.
WhenWaitsForAll ==
  AtRest =>
    \A m \in Derived : origin[m].by = "when" =>
      LET subs == {i \in 1 .. 2 : origin[m].of[i] # "plain"}
          of(i) == Outcome(origin[m].of[i])
      IN  CASE \E i \in subs : of(i).state = "rejected" -> state[m] = "rejected"
            [] \A i \in subs : of(i).state = "resolved" ->
                 /\ state[m] = "resolved"
                 /\ \A i \in subs : lists[<<m, "done">>].memory[1][i] = of(i).value[1]
            [] OTHER -> state[m] = "pending"
=============================================================================
