------------------------------ MODULE SearchPage ------------------------------
(***************************************************************************)
(* The search page: SearchView, its predicates and its request, and        *)
(* SearchResultsView, its time line, its selection, Clear and Zoom.        *)
(*                                                                         *)
(* A result is a span with the parents and children that were expanded:    *)
(* its group.  A result is <<span, copy>>, for the store may send a span   *)
(* again; a node of a group is <<result, at>>, `at` being "self", "parent" *)
(* or "child": one of each stands for many.  Time counts parts of a        *)
(* millisecond, because setTimes() halves; MinSpan is MINIMUM_TIME_SPAN.   *)
(***************************************************************************)
EXTENDS Integers, Sequences, SequencesExt, FiniteSets, FiniteSetsExt

CONSTANTS PageSpans,    \* spans in the store
          Fields,       \* fields of predicates
          OrderBy,      \* OrderBy[f]: the spans, as a search by f finds them
          BeginOf, EndOf,  \* BeginOf[s][at]: of the nodes of span s
          InputTimes,   \* times the user types
          MinSpan,
          MaxPageOps    \* bound: what the user does

VARIABLES predicateViews, highestIndex,
          searching,    \* the request under way, if any: its prev, its field
          found,        \* searchResults
          reified,      \* nodes expanded
          chosen,       \* nodes selected
          begin, end,   \* the time line; end is Unset at first
          drawn,        \* what the last render() drew of searchResults
          open,         \* has the view not been closed?
          sameField,    \* all of `found` comes from searches by one field
          zoomed,       \* zoomHandler() was the last to set the times
          pageOps

pageVars == <<predicateViews, highestIndex, searching, found, reified, chosen, begin, end, drawn, open,
              sameField, zoomed, pageOps>>

Unset == -1000000

SearchPageInit ==
  /\ predicateViews = <<>> /\ highestIndex = 0 /\ searching = <<>>
  /\ found = <<>> /\ reified = {} /\ chosen = {} /\ drawn = <<>>
  /\ begin = 0 /\ end = Unset    \* `this` in "end: this.MINIMUM_TIME_SPAN" is the window
  /\ open = TRUE /\ sameField = "" /\ zoomed = FALSE /\ pageOps = 0

Op == open /\ pageOps < MaxPageOps /\ pageOps' = pageOps + 1
-----------------------------------------------------------------------------
\* applyToAllSpans(): what the traversals of a result's two trees visit.
Group(r, shown) == {<<r, "self">>} \union {n \in shown : n[1] = r}
Groups(results, shown) == UNION {Group(r, shown) : r \in Range(results)}

NodeBegin(n) == BeginOf[n[1][1]][n[2]]
NodeEnd(n) == EndOf[n[1][1]][n[2]]

\* Mutant: begin and end are not swapped.
SetTimesNoSwap(b, e) ==
  LET b1 == IF b = 0 THEN begin ELSE b
      e1 == IF e = 0 THEN end ELSE e
      needed == MinSpan - (e1 - b1)
  IN  IF e1 = Unset \/ needed <= 0 \/ e1 < b1 THEN <<b1, e1>>
      ELSE <<b1 - needed \div 2, e1 + needed \div 2>>

\* The times setTimes({begin: b, end: e}) leaves; a parameter that is absent, or zero, is
\* not looked at.
SetTimes(b, e) ==
  LET b1 == IF b = 0 THEN begin ELSE b
      e1 == IF e = 0 THEN end ELSE e
      needed == MinSpan - (Max({b1, e1}) - Min({b1, e1}))
  IN  IF e1 = Unset THEN <<b1, e1>>
      ELSE IF needed > 0
           THEN <<Min({b1, e1}) - needed \div 2, Max({b1, e1}) + needed \div 2>>
           ELSE <<Min({b1, e1}), Max({b1, e1})>>

\* getSelectedSpansOrAllSpans(), and what getEarliestBegin() and getLatestEnd() look at: every
\* node of a group reaches the whole group through its reified parents and children.
ZoomSpans(results, shown, picked) ==
  LET all == Groups(results, shown)
  IN  IF all \intersect picked = {} THEN all ELSE all \intersect picked
ZoomedGroups(results, shown, picked) ==
  UNION {Group(n[1], shown) : n \in ZoomSpans(results, shown, picked)}

\* zoomHandler().
ZoomTimes(results, shown, picked) ==
  LET nodes == ZoomedGroups(results, shown, picked)
  IN  IF nodes = {} THEN SetTimes(0, MinSpan)
      ELSE SetTimes(Min({NodeBegin(n) : n \in nodes}), Max({NodeEnd(n) : n \in nodes}))
Zoom(results, shown, picked) ==
  /\ begin' = ZoomTimes(results, shown, picked)[1]
  /\ end' = ZoomTimes(results, shown, picked)[2]
  /\ zoomed' = TRUE

ZoomButton ==
  /\ Op
  /\ Zoom(found, reified, chosen)
  /\ drawn' = found
  /\ UNCHANGED <<predicateViews, highestIndex, searching, found, reified, chosen, open, sameField>>

\* handleBeginOrEndChange(); a text that is no date restores the fields and changes nothing.
TypeTime(t, field) ==
  /\ Op
  /\ LET times == IF field = "begin" THEN SetTimes(t, 0) ELSE SetTimes(0, t)
     IN  begin' = times[1] /\ end' = times[2]
  /\ zoomed' = FALSE
  /\ drawn' = found
  /\ UNCHANGED <<predicateViews, highestIndex, searching, found, reified, chosen, open, sameField>>
-----------------------------------------------------------------------------
\* dropdownHandler(): a new predicate view, in a page element named after its index.
AddPredicate(f, valid) ==
  /\ Op
  /\ predicateViews' = Append(predicateViews, [index |-> highestIndex, field |-> f, valid |-> valid])
  /\ highestIndex' = highestIndex + 1
  /\ UNCHANGED <<searching, found, reified, chosen, begin, end, drawn, open, sameField, zoomed>>

RemovePredicateView(i) ==
  /\ Op
  /\ predicateViews' = RemoveAt(predicateViews, i)
  /\ UNCHANGED <<highestIndex, searching, found, reified, chosen, begin, end, drawn, open, sameField, zoomed>>

\* doSearch(): nothing happens while another search is in progress, without predicates, or
\* with one that does not parse.  The last result is the continuation token.
DoSearch ==
  /\ Op
  /\ searching = <<>>
  /\ predicateViews # <<>> /\ \A i \in DOMAIN predicateViews : predicateViews[i].valid
  /\ searching' = <<[prev |-> IF found = <<>> THEN <<>> ELSE <<Last(found)[1]>>,
                     field |-> predicateViews[1].field]>>
  /\ UNCHANGED <<predicateViews, highestIndex, found, reified, chosen, begin, end, drawn, open, sameField,
                 zoomed>>

\* The server's answer (see Query): at most n of the spans after prev, in the order of the
\* search.
Answer(r, n) ==
  LET order == OrderBy[r.field]
      from == IF r.prev = <<>> THEN 1 ELSE 1 + CHOOSE i \in DOMAIN order : order[i] = r.prev[1]
  IN  SubSeq(order, from, Min({Len(order), from + n - 1}))

\* Every span comes as a new model.
Added(results, spans) ==
  FoldLeft(LAMBDA acc, x : Append(acc, <<x, Min({c \in 0 .. Len(acc) : <<x, c>> \notin Range(acc)})>>),
           results, spans)

\* success: the results are added; the first ones zoom the time line.  A view that was closed
\* has no resultsView: the callback throws when it comes to that.
SearchSucceeds(n) ==
  /\ searching # <<>>
  /\ searching' = Tail(searching)
  /\ found' = Added(found, Answer(searching[1], n))
  /\ sameField' = IF found = <<>> \/ sameField = searching[1].field THEN searching[1].field ELSE "mixed"
  /\ IF open /\ found = <<>>
     THEN Zoom(found', reified, chosen)
     ELSE zoomed' = FALSE /\ UNCHANGED <<begin, end>>
  /\ drawn' = IF open THEN found' ELSE drawn
  /\ UNCHANGED <<predicateViews, highestIndex, reified, chosen, open, pageOps>>

\* error: the results are thrown away, and the page is not drawn again.
SearchFails ==
  /\ searching # <<>>
  /\ searching' = Tail(searching)
  /\ found' = <<>> /\ reified' = {} /\ chosen' = {} /\ zoomed' = FALSE
  /\ UNCHANGED <<predicateViews, highestIndex, begin, end, drawn, open, sameField, pageOps>>
-----------------------------------------------------------------------------
\* mouseDown on a span of the canvas: it is selected alone, or toggled.  (A span that is drawn
\* and no longer in the results is not modelled: it has no effect on them.)
Select(n, ctrlKey) ==
  /\ Op
  /\ n \in Groups(found, reified)
  /\ chosen' = IF ctrlKey THEN SymDiff(chosen, {n}) ELSE {n}
  /\ zoomed' = FALSE
  /\ UNCHANGED <<predicateViews, highestIndex, searching, found, reified, begin, end, drawn, open, sameField>>

\* The parents or the children of a result are expanded (see SpanReify), and drawn.
Expand(r, at) ==
  /\ Op
  /\ <<r, at>> \notin reified
  /\ reified' = reified \union {<<r, at>>}
  /\ drawn' = found /\ zoomed' = FALSE
  /\ UNCHANGED <<predicateViews, highestIndex, searching, found, chosen, begin, end, open, sameField>>

\* The results clearHandler() removes.  The nodes below a result are only looked at as long
\* as no result was selected.
ToDelete(results, shown, picked) ==
  LET hit(r) == Group(r, shown) \intersect picked # {}
      upward(r) == (Group(r, shown) \ {<<r, "child">>}) \intersect picked # {}
      first == {i \in DOMAIN results : hit(results[i]) /\ \A j \in 1 .. (i - 1) : ~hit(results[j])}
  IN  IF first = {} THEN Range(results)
      ELSE {results[i] : i \in first} \union {r \in Range(results) : upward(r)}

\* The Clear button (all), and the delete key on the canvas.
Clear(all) ==
  /\ Op
  /\ all \/ Groups(found, reified) \intersect chosen # {}
  /\ LET gone == ToDelete(found, reified, chosen)
     IN  /\ found' = SelectSeq(found, LAMBDA r : r \notin gone)
         /\ reified' = {n \in reified : n[1] \notin gone}
         /\ chosen' = {n \in chosen : n[1] \notin gone}
  /\ drawn' = found'
  /\ zoomed' = FALSE
  /\ UNCHANGED <<predicateViews, highestIndex, searching, begin, end, open, sameField>>

\* close(): the predicate views go, the first one first, and the results view.
ClosePage ==
  /\ open /\ open' = FALSE
  /\ predicateViews' = <<>>
  /\ UNCHANGED <<highestIndex, searching, found, reified, chosen, begin, end, drawn, sameField, zoomed, pageOps>>

SearchPageNext ==
  \/ \E f \in Fields : \E valid \in BOOLEAN : AddPredicate(f, valid)
  \/ \E i \in DOMAIN predicateViews : RemovePredicateView(i)
  \/ DoSearch \/ SearchFails \/ ZoomButton \/ ClosePage
  \/ \E n \in 0 .. 2 : SearchSucceeds(n)
  \/ \E t \in InputTimes : \E field \in {"begin", "end"} : TypeTime(t, field)
  \/ \E n \in Groups(found, reified) : \E ctrlKey \in BOOLEAN : Select(n, ctrlKey)
  \/ \E r \in Range(found) : \E at \in {"parent", "child"} : Expand(r, at)
  \/ \E all \in BOOLEAN : Clear(all)
-----------------------------------------------------------------------------
\* Once both ends of the time line are known they are in order and MINIMUM_TIME_SPAN apart,
\* whatever is typed or zoomed to: no position is computed by a division by zero.
TimeLineHasExtent == end # Unset => end - begin >= MinSpan

\* "Zoom to fit everything": the spans that are zoomed to, with their reified parents and
\* children, are on the time line.  (A span that begins at 0 is the exception: setTimes()
\* takes 0 for "not given".)
ZoomFits ==
  LET nodes == ZoomedGroups(found, reified, chosen)
  IN  zoomed /\ nodes # {} =>
        /\ Min({NodeBegin(n) : n \in nodes}) # 0 => \A n \in nodes : begin <= NodeBegin(n)
        /\ \A n \in nodes : NodeEnd(n) <= end

\* Page after page, and whatever was cleared between or during the requests, no span comes
\* twice; unless the user goes on with a predicate that the server orders otherwise.
ResultsAreDistinct ==
  sameField # "mixed" => Cardinality({r[1] : r \in Range(found)}) = Len(found)

\* What is drawn are the results, except that those an error threw away stay on the canvas.
DrawnIsCurrent == open /\ drawn # found => found = <<>>

\* With a selection, Clear removes no result that has no part in it, and every result that is
\* selected itself or by one of its parents.
ClearIsPrecise ==
  [][pageOps' # pageOps /\ Len(found') < Len(found) /\ Groups(found, reified) \intersect chosen # {} =>
       \A r \in Range(found) :
         /\ r \notin Range(found') => Group(r, reified) \intersect chosen # {}
         /\ {<<r, "self">>, <<r, "parent">>} \intersect chosen # {} => r \notin Range(found')]_pageVars

\* No two predicates share an element of the page, whatever was added and removed.
ElementsAreDistinct ==
  \A i, j \in DOMAIN predicateViews : predicateViews[i].index = predicateViews[j].index => i = j
=============================================================================
