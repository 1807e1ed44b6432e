------------------------------ MODULE SpanReify ------------------------------
(***************************************************************************)
(* Expanding a search result: reifyParents, reifyChildren and their        *)
(* recursive forms, which fetch the spans around a span one by one, and    *)
(* the buttons on the canvas that call them.                               *)
(*                                                                         *)
(* A span may be fetched more than once, each time as a new model: models  *)
(* are numbered, number 1 is the result.  reifiedParents and               *)
(* reifiedChildren are Null or hold one list.  A call goes through the     *)
(* stages "ids" (the ids of the children), "spans" (the spans) and "below" *)
(* (the calls it made for the next level), and ends as "ok" or "error";    *)
(* or else it is "unanswered", since a fetch failed that nobody handles,   *)
(* or "thrown", its callback having thrown.                                *)
(***************************************************************************)
EXTENDS Integers, Sequences, SequencesExt, FiniteSets, TLC

CONSTANTS TheSpan,            \* the result
          ParentIds, ChildIds,  \* the ids of the parents and children of every span
          BeginTime,          \* of every span
          Limits,             \* what #children-lim may hold
          MaxClicks           \* bound

VARIABLES heap,      \* the models
          calls,     \* the calls of the recursive functions
          buttons,   \* <<model, direction>> of the buttons the last render() drew
          clicks
reifyVars == <<heap, calls, buttons, clicks>>

Null == <<>>
ExpandAllDepth == 100

\* Span.parse().
NewSpan(x) == [span |-> x, kids |-> Null, parents |-> IF ParentIds[x] = <<>> THEN <<<<>>>> ELSE Null]

Listed(list) == IF list = Null THEN {} ELSE Range(list[1])
RECURSIVE Reached(_, _, _)
Reached(h, o, dir) == {o} \union UNION {Reached(h, k, dir) :
                        k \in Listed(IF dir = "down" THEN h[o].kids ELSE h[o].parents)}

\* render(): the nodes above the result have a button for their parents, those below it one
\* for their children, and the result has both, as long as these are not known.
Buttons(h) ==
  {<<o, "up">> : o \in {x \in Reached(h, 1, "up") : h[x].parents = Null}}
    \union {<<o, "down">> : o \in {x \in Reached(h, 1, "down") : h[x].kids = Null}}

SpanReifyInit ==
  /\ heap = <<NewSpan(TheSpan)>> /\ calls = <<>>
  /\ buttons = Buttons(heap) /\ clicks = 0
-----------------------------------------------------------------------------
\* A call of reifyChildrenRecursive (down) or reifyParentsRecursive (up).  A span without
\* parents has no request to wait for.
NewCall(h, o, dir, depth, lim, caller) ==
  LET n == Len(ParentIds[h[o].span])
  IN  [obj |-> o, dir |-> dir, depth |-> depth, lim |-> lim, caller |-> caller, made |-> {},
       bad |-> FALSE, left |-> IF dir = "up" THEN n ELSE 1,
       stage |-> IF dir = "down" THEN "ids" ELSE IF n = 0 THEN "ok" ELSE "spans"]

\* What has become of call c.  One that made calls for the next level resolves when they
\* have: $.when().
RECURSIVE Outcome(_, _)
Outcome(cs, c) ==
  LET below == {Outcome(cs, d) : d \in {e \in DOMAIN cs : cs[e].caller = c}}
  IN  IF cs[c].stage # "below" THEN cs[c].stage
      ELSE IF ~(below \subseteq {"ok", "error"}) THEN "below"
      ELSE IF "error" \in below THEN "error" ELSE "ok"

\* A click whose call has resolved with "" renders; with an error, there is an alert.
ClicksDone(cs) == {c \in DOMAIN cs : cs[c].caller = 0 /\ Outcome(cs, c) = "ok"}
Redraw ==
  /\ buttons' = IF ClicksDone(calls') # ClicksDone(calls) THEN Buttons(heap') ELSE buttons
  /\ UNCHANGED clicks

\* The promise of reifyParents or reifyChildren resolves with an error string.  The callback
\* of reifyChildrenRecursive takes the length of reifiedChildren before it looks at the error.
Fails(c) ==
  /\ calls' = [calls EXCEPT ![c].stage =
                 IF calls[c].dir = "down" /\ heap[calls[c].obj].kids = Null THEN "thrown" ELSE "error"]
  /\ UNCHANGED heap /\ Redraw

\* Mutant: the new spans do not know where they came from.
LinkOneWay(c, list) ==
  LET o == calls[c].obj
      models == [i \in DOMAIN list |-> Len(heap) + i]
      all == heap \o [i \in DOMAIN list |-> NewSpan(list[i])]
  IN  IF calls[c].dir = "down" THEN [all EXCEPT ![o].kids = <<models>>]
      ELSE [all EXCEPT ![o].parents = <<models>>]

\* The spans have come: they are sorted, and linked with the span they belong to.
Link(c, list) ==
  LET o == calls[c].obj
      models == [i \in DOMAIN list |-> Len(heap) + i]
      all(back) == heap \o [i \in DOMAIN list |-> back @@ NewSpan(list[i])]
  IN  IF calls[c].dir = "down" THEN [all([parents |-> <<<<o>>>>]) EXCEPT ![o].kids = <<models>>]
      ELSE [all([kids |-> <<<<o>>>>]) EXCEPT ![o].parents = <<models>>]

\* ... and the promise resolves with "": the call ends, or calls the next level.
Reify(c, ids) ==
  LET list == SetToSortSeq(ids, LAMBDA x, y : BeginTime[x] < BeginTime[y])
      r == calls[c]
      lim == IF r.dir = "down" THEN r.lim - Len(list) ELSE r.lim
      deeper == r.depth > 0 /\ lim > 0
      next(i) == NewCall(heap', Len(heap) + i, r.dir, r.depth - 1, lim, c)
  IN  /\ heap' = Link(c, list)
      /\ calls' = [calls EXCEPT ![c].stage = IF deeper THEN "below" ELSE "ok",
                                ![c].made = {Len(heap) + i : i \in DOMAIN list}]
                   \o (IF deeper THEN [i \in DOMAIN list |-> next(i)] ELSE <<>>)
      /\ Redraw
-----------------------------------------------------------------------------
Click(o, dir, depth, lim) ==
  /\ clicks < MaxClicks /\ clicks' = clicks + 1
  /\ <<o, dir>> \in buttons
  /\ calls' = Append(calls, NewCall(heap, o, dir, depth, lim, 0))
  /\ UNCHANGED <<heap, buttons>>

\* The ids of the children that a call of reifyChildren asked for.
Asked(c) ==
  LET r == calls[c]
      x == heap[r.obj].span
      ids == IF r.dir = "up" THEN ParentIds[x] ELSE ChildIds[x]
  IN  IF r.dir = "down" /\ r.lim < Len(ids) THEN SubSeq(ids, 1, r.lim) ELSE ids

IdsArrive(c) ==
  /\ calls[c].stage = "ids"
  /\ IF Asked(c) = <<>> THEN Reify(c, {})
     ELSE /\ calls' = [calls EXCEPT ![c].stage = "spans", ![c].left = Len(Asked(c))]
          /\ UNCHANGED <<heap, buttons, clicks>>
IdsFail(c) == calls[c].stage = "ids" /\ Fails(c)

\* One of the spans has come, well formed or not.  The last one makes $.when() resolve.
SpanArrives(c, wellFormed) ==
  /\ calls[c].stage = "spans"
  /\ LET bad == calls[c].bad \/ ~wellFormed
     IN  IF calls[c].left > 1
         THEN /\ calls' = [calls EXCEPT ![c].left = @ - 1, ![c].bad = bad]
              /\ UNCHANGED <<heap, buttons, clicks>>
         ELSE IF bad THEN Fails(c) ELSE Reify(c, Range(Asked(c)))

\* One of the fetches fails: $.when() rejects, and nothing handles that.
SpanFails(c) ==
  /\ calls[c].stage = "spans"
  /\ calls' = [calls EXCEPT ![c].stage = "unanswered"]
  /\ UNCHANGED <<heap, buttons, clicks>>

ResponseArrives ==
  \E c \in DOMAIN calls :
    IdsArrive(c) \/ IdsFail(c) \/ SpanFails(c) \/ \E wellFormed \in BOOLEAN : SpanArrives(c, wellFormed)

SpanReifyNext ==
  \/ \E b \in buttons : \E depth \in {0, ExpandAllDepth} : \E lim \in Limits :
       Click(b[1], b[2], depth, lim)
  \/ ResponseArrives

\* Every request is answered or fails.
SpanReifyFairness == WF_reifyVars(ResponseArrives)
-----------------------------------------------------------------------------
\* On the canvas, a span and the spans listed under or above it know each other, and the
\* lists are sorted by time: clicks that overlap do not leave a mixture of two loads.
TreeIsLinked ==
  LET of(o, dir) == IF dir = "down" THEN heap[o].kids ELSE heap[o].parents
      back(o, dir) == IF dir = "down" THEN heap[o].parents ELSE heap[o].kids
      time(o) == BeginTime[heap[o].span]
  IN  \A dir \in {"up", "down"} : \A o \in Reached(heap, 1, dir) :
        of(o, dir) # Null =>
          LET list == of(o, dir)[1]
          IN  /\ \A i, j \in DOMAIN list : i < j => time(list[i]) < time(list[j])
              /\ \A k \in Range(list) : back(k, dir) = <<<<o>>>>

RECURSIVE CallTree(_)
CallTree(c) == {c} \union UNION {CallTree(d) : d \in {e \in DOMAIN calls : calls[e].caller = c}}

\* When "expand all" has resolved without an error and within its limit, every span it loaded
\* has been expanded: it does not end before the levels below it have.
ExpandAllIsDeep ==
  \A c \in DOMAIN calls :
    calls[c].caller = 0 /\ calls[c].depth > 0 /\ Outcome(calls, c) = "ok" =>
      \A d \in CallTree(c) : calls[d].dir = "up" \/ calls[d].lim > Cardinality(calls[d].made) =>
        \A k \in calls[d].made : (IF calls[c].dir = "down" THEN heap[k].kids ELSE heap[k].parents) # Null

Stage(c) == IF c \in DOMAIN calls THEN Outcome(calls, c) ELSE "none"
BrokenBelow(c) == c \in DOMAIN calls /\ \E d \in CallTree(c) : calls[d].stage \in {"unanswered", "thrown"}

\* A call is out, and no fetch that it, or a call below it, made has failed.  This must not last:
\* it comes back, and with it the click, with the spans or with an error.
CallIsOut(c) == Stage(c) \in {"ids", "spans", "below"} /\ ~BrokenBelow(c)
-----------------------------------------------------------------------------
(* The HBase viewer's page of one trace: the spans of the answer, in whatever order, become *)
(* the rows of a tree.                                                                      *)

CONSTANTS SpanIds,         \* positive numbers
          StartTimes

ROOT_SPAN_ID == 0

VARIABLE answer            \* the spans in the order of the answer

\* d3.nest() sorts the spans of a parent by their start; equal starts may come in any order,
\* here in that of their ids.
byparent(p) ==
  SortSeq(SelectSeq(answer, LAMBDA s : s.parent_id = p),
          LAMBDA a, b : a.start < b.start \/ (a.start = b.start /\ a.span_id < b.span_id))

\* addchildren and traverse go down the tree together; the page gets no rows at all when there
\* is no span under the root, as nodes is then undefined.
RECURSIVE traverse(_, _)
traverse(depth, children) ==
  FoldLeft(LAMBDA rows, e : Append(rows, [span |-> e, depth |-> depth]) \o traverse(depth + 1, byparent(e.span_id)),
           <<>>, children)
sortedspans == traverse(0, byparent(ROOT_SPAN_ID))
-----------------------------------------------------------------------------
RowIds == {answer[i].span_id : i \in DOMAIN answer}

RowsInit == answer = <<>>

ReceiveSpan ==
  \E id \in SpanIds \ RowIds, p \in SpanIds \cup {ROOT_SPAN_ID}, t \in StartTimes :
    answer' = Append(answer, [span_id |-> id, parent_id |-> p, start |-> t])

RowsNext == ReceiveSpan
-----------------------------------------------------------------------------
\* The spans that hang, over any number of parents, on the root.
RECURSIVE Rooted(_)
Rooted(ids) ==
  LET more == ids \cup {s.span_id : s \in {answer[i] : i \in {j \in DOMAIN answer : answer[j].parent_id \in ids}}}
  IN  IF more = ids THEN ids \ {ROOT_SPAN_ID} ELSE Rooted(more)

\* Every span that hangs on the root has one row and no other span has any, even if spans are
\* each other's parents; a row comes after its parent's, one step deeper, and siblings come by
\* their start.
RowsAreTheTree ==
  LET rows == sortedspans IN
      /\ {r.span.span_id : r \in ToSet(rows)} = Rooted({ROOT_SPAN_ID})
      /\ Len(rows) = Cardinality(Rooted({ROOT_SPAN_ID}))
      /\ \A i, j \in DOMAIN rows :
           LET a == rows[i]
               b == rows[j]
           IN  /\ a.span.span_id = b.span.parent_id => i < j /\ b.depth = a.depth + 1
               /\ i < j /\ a.span.parent_id = b.span.parent_id => a.span.start <= b.span.start
==============================================================================
