------------------------------ MODULE WebRouter ------------------------------
(***************************************************************************)
(* The pages of the web application: Backbone's history, which turns       *)
(* changes of the URL's hash into calls of the router, and the router,     *)
(* which closes one view and opens another.                                *)
(*                                                                         *)
(* The hash changes at once when the user follows a link, the hashchange   *)
(* event comes later.  #serverInfo fetches two things before it shows a    *)
(* view, so that a visit may finish when the user has gone elsewhere.  A   *)
(* search view re-renders 250 ms after the last resize of the window: its  *)
(* timer may outlive it.                                                   *)
(***************************************************************************)
EXTENDS Integers, Sequences, FiniteSets

CONSTANT MaxMoves     \* bound: links followed

VARIABLES hash,       \* of the browser's location
          fragment,   \* Backbone.history.fragment
          changes,    \* hashchange events under way
          view,       \* router.view: its number, its kind, and the stats it was given
          created,    \* views made
          lit,     \* the entry of the navigation bar that is lit
          visits,     \* one for every call of serverInfo(): what it waits for
          stats,      \* the global variable stats: the visit that made it
          resizers,   \* search views that listen to resize events of the window
          renders,     \* search views whose debounced render is pending
          canvas,     \* the search view that drew the canvas on the page and hears its mouse
          astray,     \* a visit ended, and showed its view, when the user had moved on
          overlapped, \* a visit replaced `stats` while another one waited for its own
          usurped,    \* a closed search view rendered into the page of another one
          moves

routerVars == <<hash, fragment, changes, view, created, lit, visits, stats, resizers, renders,
                canvas, astray, overlapped, usurped, moves>>

Fragments == {"", "about", "serverInfo", "search", "elsewhere"}
NotStarted == "none"

WebRouterInit ==
  /\ hash \in Fragments /\ fragment = NotStarted /\ changes = 0
  /\ view = [id |-> 0, kind |-> "none", stats |-> 0] /\ created = 0 /\ lit = "none"
  /\ visits = <<>> /\ stats = 0
  /\ resizers = {} /\ renders = {} /\ canvas = 0
  /\ astray = FALSE /\ overlapped = FALSE /\ usurped = FALSE /\ moves = 0

Pages == <<view, created, lit, resizers, canvas>>
-----------------------------------------------------------------------------
\* close() of the old view.  SearchResultsView#remove takes every resize handler off the
\* window, those of other views included.
Close(listening) == IF view.kind = "search" THEN {} ELSE listening

\* switchView(new V): the new view is made, and listens, before the old one is closed; then
\* it renders, and the navigation bar shows it.
SwitchView(kind) ==
  LET id == created + 1
      listening == IF kind = "search" THEN resizers \union {id} ELSE resizers
  IN  /\ created' = id
      /\ view' = [id |-> id, kind |-> kind, stats |-> stats]
      /\ resizers' = Close(listening)
      /\ canvas' = IF kind = "search" THEN id ELSE 0
      /\ lit' = kind

\* The router's handlers: about(), serverInfo(), search() and unknown().
Handler(f) ==
  /\ IF f \in {"about", "search"} THEN SwitchView(f) ELSE UNCHANGED Pages
  /\ visits' = IF f = "serverInfo" THEN Append(visits, "version") ELSE visits
  /\ astray' = (astray /\ f \notin {"about", "search"})

\* Mutant: the handler of the route is not called.
NavigateNoTrigger(f) == fragment' = f /\ hash' = f /\ UNCHANGED <<Pages, visits, astray>>

\* history.navigate(f, {trigger: true, replace: true}), called with another fragment.
Navigate(f) == fragment' = f /\ hash' = f /\ Handler(f)

\* loadUrl(f): the handler of the first route that matches.  empty() redirects to #about,
\* by a navigate() that replaces the hash and sends an event of its own.
LoadUrl(f) == IF f = "" THEN Navigate("about") ELSE fragment' = f /\ UNCHANGED hash /\ Handler(f)
EventsSent(f) == IF f = "" THEN 1 ELSE 0

Start ==
  /\ fragment = NotStarted
  /\ LoadUrl(hash)
  /\ changes' = changes + EventsSent(hash)
  /\ UNCHANGED <<stats, renders, overlapped, usurped, moves>>

\* The user follows a link, goes back, or edits the URL.
Follow(f) ==
  /\ fragment # NotStarted /\ f # hash
  /\ moves < MaxMoves /\ moves' = moves + 1
  /\ hash' = f /\ changes' = changes + 1
  /\ UNCHANGED <<fragment, view, created, lit, visits, stats, resizers, renders, canvas, astray,
                 overlapped, usurped>>

\* checkUrl(): the hash is read when the event comes, and may have changed again.
HashChange ==
  /\ changes > 0
  /\ IF hash = fragment
     THEN changes' = changes - 1 /\ UNCHANGED <<fragment, hash, Pages, visits, astray>>
     ELSE LoadUrl(hash) /\ changes' = changes - 1 + EventsSent(hash)
  /\ UNCHANGED <<stats, renders, overlapped, usurped, moves>>
-----------------------------------------------------------------------------
\* serverInfo(): the version has come; `stats` is a global variable.
VersionFetched(v) ==
  /\ visits[v] = "version"
  /\ visits' = [visits EXCEPT ![v] = "stats"]
  /\ overlapped' = (overlapped \/ \E w \in DOMAIN visits : w # v /\ visits[w] = "stats")
  /\ stats' = v
  /\ UNCHANGED <<hash, fragment, changes, Pages, renders, astray, usurped, moves>>

\* The statistics have come: the view shows what the global variable holds by then.
StatsFetched(v) ==
  /\ visits[v] = "stats"
  /\ visits' = [visits EXCEPT ![v] = "shown"]
  /\ SwitchView("serverInfo")
  /\ astray' = (fragment # "serverInfo")
  /\ UNCHANGED <<hash, fragment, changes, stats, renders, overlapped, usurped, moves>>

\* Either fetch fails: an alert, and the old view stays.
FetchFails(v) ==
  /\ visits[v] \in {"version", "stats"}
  /\ visits' = [visits EXCEPT ![v] = "failed"]
  /\ UNCHANGED <<hash, fragment, changes, Pages, stats, renders, astray, overlapped, usurped, moves>>
-----------------------------------------------------------------------------
Resize ==
  /\ resizers # {}
  /\ renders' = renders \union resizers
  /\ UNCHANGED <<hash, fragment, changes, Pages, visits, stats, astray, overlapped, usurped, moves>>

\* The debounced render().  Where the page has no #resultsView any more it throws; where
\* it has that of another view, it draws there.
DebouncedRender(id) ==
  /\ id \in renders
  /\ renders' = renders \ {id}
  /\ canvas' = IF view.kind = "search" THEN id ELSE canvas
  /\ usurped' = (usurped \/ (view.kind = "search" /\ view.id # id))
  /\ UNCHANGED <<hash, fragment, changes, view, created, lit, resizers, visits, stats, astray,
                 overlapped, moves>>

FetchEnds == \E v \in DOMAIN visits : VersionFetched(v) \/ StatsFetched(v) \/ FetchFails(v)

WebRouterNext ==
  \/ Start \/ HashChange \/ Resize \/ FetchEnds
  \/ \E f \in Fragments : Follow(f)
  \/ \E id \in renders : DebouncedRender(id)
-----------------------------------------------------------------------------
\* Once the events have been handled, the view is the one of the hash and the navigation bar
\* says so; except that a late #serverInfo may have come over it.
ViewFollowsHash ==
  fragment # NotStarted /\ changes = 0 /\ hash \in {"about", "search"} =>
    (view.kind = hash /\ lit = hash) \/ (astray /\ view.kind = "serverInfo")

\* #serverInfo shows statistics that have been fetched, unless visits overlapped.
ShownStatsAreFetched ==
  view.kind = "serverInfo" /\ ~overlapped => view.stats # 0 /\ visits[view.stats] = "shown"

\* Closed search views no longer hear the window: they do not pile up in the handlers of its
\* resize event; what one drew is replaced, unless its timer was pending when it was closed.
ClosedViewsAreSilent ==
  /\ resizers \subseteq {view.id}
  /\ ~usurped => (view.kind = "search" => canvas = view.id)

\* The URL in the location bar is not acted upon yet, which must not last: the redirect of the
\* empty route comes to an end, and its own event does not route again.
HashWaits == fragment # hash \/ changes > 0
=============================================================================
