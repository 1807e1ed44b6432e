-------------------------------- MODULE Menus -------------------------------
(***************************************************************************)
(* Bootstrap's collapse, used as an accordion: panels of one parent, of    *)
(* which show() hides the others.  The Collapse object of a panel is made  *)
(* at its first use; show() drops the objects it made for the panels it    *)
(* hides.  Objects are numbered, 0 is no object.                           *)
(***************************************************************************)
EXTENDS Transitions, SequencesExt

CONSTANTS Panels,            \* 1 .. n, in document order
          MaxCollapseOps     \* bound: clicks

VARIABLES accordion,         \* the panels' classes and data, and the transitions
          hasty,             \* ghost: a panel was shown during the hiding of one without object
          collapseOps

collapseVars == <<accordion, hasty, collapseOps>>

\* in and collapsing are the panels with that class; those made by Plugin(hide) know no parent.
CollapseInit ==
  /\ \E open \in {{}} \cup {{p} : p \in Panels} :
       accordion = [in |-> open, collapsing |-> {}, data |-> [p \in Panels |-> 0], made |-> 0,
                    parentless |-> {}, transitioning |-> {}, waits |-> <<>>]
  /\ hasty = FALSE /\ collapseOps = 0
-----------------------------------------------------------------------------
\* The part of show() and hide() after the events.
startShow(a, obj, p) ==
  [a EXCEPT !.collapsing = @ \cup {p}, !.transitioning = @ \cup {obj},
            !.waits = Await(@, p, [obj |-> obj, shown |-> TRUE], 2)]
hidePanel(a, obj, p) ==
  IF obj \in a.transitioning \/ p \notin a.in THEN a
  ELSE [a EXCEPT !.collapsing = @ \cup {p}, !.in = @ \ {p}, !.transitioning = @ \cup {obj},
                 !.waits = Await(@, p, [obj |-> obj, shown |-> FALSE], 2)]

\* Plugin.call(actives, 'hide'): the constructor of a new object toggles its panel.
PluginHide(a, p) ==
  LET obj == a.made + 1
      new == [a EXCEPT !.made = obj, !.parentless = @ \cup {obj}]
      toggled == IF p \in a.in THEN hidePanel(new, obj, p) ELSE startShow(new, obj, p)
  IN  IF a.data[p] # 0 THEN hidePanel(a, a.data[p], p) ELSE [toggled EXCEPT !.data[p] = obj]

Actives(a) == SetToSortSeq(a.in \cup a.collapsing, <)
ActivesData(a) == IF Actives(a) = <<>> THEN 0 ELSE a.data[Head(Actives(a))]

\* show() of an accordion whose first active panel is in transition does nothing.
showPanel(a, obj, p) ==
  LET hid     == FoldLeft(PluginHide, a, Actives(a))
      dropped == [hid EXCEPT !.data = [q \in Panels |-> IF q \in ToSet(Actives(a)) THEN 0 ELSE @[q]]]
  IN  IF obj \in a.transitioning \/ p \in a.in THEN a
      ELSE IF obj \in a.parentless \/ Actives(a) = <<>> THEN startShow(a, obj, p)
      ELSE IF ActivesData(a) \in a.transitioning THEN a
      ELSE startShow(IF ActivesData(a) = 0 THEN dropped ELSE hid, obj, p)

togglePanel(a, obj, p) == IF p \in a.in THEN hidePanel(a, obj, p) ELSE showPanel(a, obj, p)
-----------------------------------------------------------------------------
\* A click on the trigger of p; the constructor toggles before the object is stored.
ClickTrigger(p) ==
  LET a == accordion
      obj == a.made + 1
  IN  /\ collapseOps < MaxCollapseOps /\ collapseOps' = collapseOps + 1
      /\ accordion' = IF a.data[p] # 0 THEN togglePanel(a, a.data[p], p)
                      ELSE [togglePanel([a EXCEPT !.made = obj], obj, p) EXCEPT !.data[p] = obj]
      /\ hasty' = (hasty \/ (a.waits # <<>> /\ \E q \in ToSet(Actives(a)) : a.data[q] = 0))

\* The ends of show() and hide().
CollapseComplete(a, e) ==
  [a EXCEPT !.collapsing = @ \ {e.on}, !.transitioning = @ \ {e.run.obj},
            !.in = IF e.run.shown THEN @ \cup {e.on} ELSE @]

CollapseEnds(p) ==
  /\ p \in DueOn(accordion.waits)
  /\ accordion' = [FoldLeft(CollapseComplete, accordion, HandlersOn(accordion.waits, p))
                     EXCEPT !.waits = WaitsExcept(@, {p})]
  /\ UNCHANGED <<hasty, collapseOps>>

CollapseTime ==
  /\ TimePasses(accordion.waits)
  /\ accordion' = [accordion EXCEPT !.waits = Aged(@)]
  /\ UNCHANGED <<hasty, collapseOps>>

CollapseNext == (\E p \in Panels : ClickTrigger(p) \/ CollapseEnds(p)) \/ CollapseTime
-----------------------------------------------------------------------------
Opening == {e.on : e \in {f \in ToSet(accordion.waits) : f.run.shown}}

\* An accordion has at most one panel open or opening, unless a panel was clicked while a
\* panel whose object was dropped was still being hidden: two objects then act on one panel,
\* and the one without a parent stays.  An object is transitioning, and ignores clicks, only
\* while its transition is under way.
AccordionHasOneOpen ==
  /\ ~hasty => \A p, q \in accordion.in \cup Opening : p = q
  /\ accordion.transitioning = {e.run.obj : e \in ToSet(accordion.waits)}
  /\ accordion.collapsing = {e.on : e \in ToSet(accordion.waits)}
-----------------------------------------------------------------------------
(***************************************************************************)
(* Bootstrap's dropdown menus and tabs.  A menu's items are numbered from  *)
(* 1; its toggle is item 0.  The panes of the tabs may fade, and the       *)
(* active class moves when the fading of the old pane ends.                *)
(***************************************************************************)
CONSTANTS Dropdowns, Items,      \* the menus, and how many items each of them has
          DisabledMenus, Touch,  \* the menus with a disabled toggle, and if the screen is a touch screen
          Tabs, MaxMenuOps       \* bound: clicks and keys

VARIABLES menusOpen, backdrops, focus,   \* dropdowns: with class open, with a backdrop, <<menu, item>>
          tabs, doubleClicked, menuOps

dropdownVars == <<menusOpen, backdrops, focus>>
tabVars == <<tabs, doubleClicked>>
menuVars == <<menusOpen, backdrops, focus, tabs, doubleClicked, menuOps>>

DropdownInit == menusOpen = {} /\ backdrops = {} /\ focus = <<>>
TabInit ==
  /\ \E t \in Tabs, fades \in BOOLEAN :
       tabs = [active |-> t, panes |-> {t}, in |-> {t}, fades |-> fades, waits |-> <<>>]
  /\ doubleClicked = FALSE
MenuInit == DropdownInit /\ TabInit /\ menuOps = 0

MenuOp == menuOps < MaxMenuOps /\ menuOps' = menuOps + 1
-----------------------------------------------------------------------------
clearMenus == menusOpen' = {} /\ backdrops' = {}

\* Mutant: other menus stay open.
toggleMenuOnly(m) ==
  IF m \in DisabledMenus THEN clearMenus /\ UNCHANGED focus
  ELSE /\ menusOpen' = menusOpen \union {m}
       /\ backdrops' = IF Touch THEN menusOpen' ELSE {}
       /\ focus' = <<m, 0>>

\* Dropdown.toggle; a click on a disabled toggle goes on to the document, which clears.
toggleMenu(m) ==
  IF m \in DisabledMenus \/ m \in menusOpen THEN clearMenus /\ UNCHANGED focus
  ELSE /\ menusOpen' = {m}
       /\ backdrops' = IF Touch THEN {m} ELSE {}
       /\ focus' = <<m, 0>>

ClickToggle(m) == MenuOp /\ toggleMenu(m) /\ UNCHANGED tabVars

\* A click elsewhere; the right button does not count.
ClickPage(right) ==
  /\ MenuOp
  /\ IF right THEN UNCHANGED dropdownVars ELSE clearMenus /\ UNCHANGED focus
  /\ UNCHANGED tabVars

\* The new index for a key on the item at index i of the visible items, of which the toggle
\* (index -1 in the code) is none.
MovedFocus(key, i) ==
  LET up   == IF key = "up" /\ i > 1 THEN i - 1 ELSE i
      down == IF key = "down" /\ i < Items THEN up + 1 ELSE up
  IN  IF down = 0 THEN 1 ELSE down

\* Dropdown.keydown on the focused toggle or item.  Escape gives the focus to the toggle and
\* is a click, on the toggle or on the menu.
Keydown(key) ==
  LET m == focus[1] IN
  /\ MenuOp /\ focus # <<>>
  /\ IF focus[2] = 0 /\ m \in DisabledMenus THEN UNCHANGED dropdownVars
     ELSE IF m \notin menusOpen
       THEN IF key # "esc" /\ focus[2] = 0 THEN toggleMenu(m) ELSE UNCHANGED dropdownVars
     ELSE IF key = "esc" THEN clearMenus /\ focus' = <<m, 0>>
     ELSE focus' = <<m, MovedFocus(key, focus[2])>> /\ UNCHANGED <<menusOpen, backdrops>>
  /\ UNCHANGED tabVars
-----------------------------------------------------------------------------
\* next() in Tab.activate: the panes that were active at the call are not any more.
ActivatePane(t, e) ==
  [t EXCEPT !.panes = (@ \ e.run.gone) \cup {e.run.pane}, !.in = @ \cup {e.run.pane}]

\* Tab.activate for the panes: next() waits on each pane that is active.
AwaitPanes(t, pane) ==
  LET add(waits, p) == Await(waits, p, [gone |-> t.panes, pane |-> pane], 1)
  IN  FoldLeft(add, t.waits, SetToSeq(t.panes))
activatePane(t, pane) ==
  IF t.fades THEN [t EXCEPT !.waits = AwaitPanes(t, pane), !.in = @ \ t.panes]
  ELSE [t EXCEPT !.panes = {pane}, !.in = @ \ t.panes]

ShowTab(t) ==
  /\ MenuOp
  /\ IF tabs.active = t THEN UNCHANGED tabVars
     ELSE /\ tabs' = activatePane([tabs EXCEPT !.active = t], t)
          /\ doubleClicked' = (tabs.waits # <<>> \/ (doubleClicked /\ Cardinality(tabs.panes) > 1))
  /\ UNCHANGED dropdownVars

TabFaded(p) ==
  /\ p \in DueOn(tabs.waits)
  /\ tabs' = [FoldLeft(ActivatePane, tabs, HandlersOn(tabs.waits, p)) EXCEPT !.waits = WaitsExcept(@, {p})]
  /\ UNCHANGED <<menusOpen, backdrops, focus, doubleClicked, menuOps>>

TabTime ==
  /\ TimePasses(tabs.waits)
  /\ tabs' = [tabs EXCEPT !.waits = Aged(@)]
  /\ UNCHANGED <<menusOpen, backdrops, focus, doubleClicked, menuOps>>

MenuNext ==
  \/ \E m \in Dropdowns : ClickToggle(m)
  \/ \E right \in BOOLEAN : ClickPage(right)
  \/ \E key \in {"up", "down", "esc", "space"} : Keydown(key)
  \/ \E t \in Tabs : ShowTab(t) \/ TabFaded(t)
  \/ TabTime
-----------------------------------------------------------------------------
\* At most one dropdown is open and none that is disabled; on a touch screen the backdrop that
\* closes it is there exactly while it is open.
OneMenuIsOpen ==
  /\ \A m, n \in menusOpen : m = n
  /\ menusOpen \cap DisabledMenus = {}
  /\ backdrops = IF Touch THEN menusOpen ELSE {}

\* When no pane fades, the pane of the active tab is the only active one, unless a tab was
\* clicked while a pane was fading; until then the pane that fades stays active.
TabShowsItsPane ==
  /\ tabs.waits = <<>> /\ ~doubleClicked =>
       tabs.panes = {tabs.active} /\ (tabs.fades => tabs.active \in tabs.in)
  /\ tabs.panes # {}
=============================================================================
