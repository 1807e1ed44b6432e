------------------------------ MODULE MCSafety ------------------------------
(***************************************************************************)
(* The parts of the clients, of htraced and of the web application with    *)
(* its libraries whose properties are ones of safety, side by side: a      *)
(* behaviour is one of one part, and the other parts stay in an initial    *)
(* state.                                                                  *)
(***************************************************************************)
EXTENDS Deferreds, JQEvents, JQData, BackboneEvents, BackboneModel, BackboneCollection,
        SearchPage, Canvas, Dates, Underscore, Menus, ScrollSpy,
        Loader, Scopes, TracerPool, LocalFile, CScopes, HTable

CONSTANT Parts             \* the parts that run

VARIABLE part

allVars == <<part, callbacksVars, deferredsVars, eventsVars, dataVars, readyVars, formVars, bbEventsVars,
             modelVars, collectionVars, pageVars, canvasVars, dateVars, arrayVars, collapseVars, menuVars, spyVars,
             loaderVars, scopesVars, poolVars, localFileVars, cscopeVars, tableVars>>

StartOf(y, m, d, ms) == NewMoment(At(DayNumber(y, m, d), ms))
TheLeapDay == StartOf(0, 1, 28, 0)

AllParts == {"callbacks", "deferreds", "events", "data", "ready", "forms", "bbEvents", "model", "collection",
             "page", "canvas", "dates", "arrays", "collapse", "menus", "scroll",
             "loader", "scopes", "pool", "file", "cscopes", "table"}

Init ==
  /\ part \in Parts
  /\ DeferredsInit /\ EventsInit /\ BBEventsInit /\ ModelInit /\ CollectionInit /\ SearchPageInit
  /\ CanvasInit /\ ArrayInit
  /\ LoaderInit /\ ScopesInit /\ PoolInit /\ LocalFileInit /\ CScopesInit /\ HTableInit
  /\ CallbacksInit /\ (part # "callbacks" => cb = NewList({}))
  /\ DataInit /\ (part # "data" => attribute = 1)
  /\ ReadyInit /\ (part # "ready" => readyState = "loading")
  /\ FormInit /\ (part # "forms" => multiple)
  /\ DatesInit /\ (part # "dates" => mom = TheLeapDay)
  /\ CollapseInit /\ (part # "collapse" => accordion.in = {})
  /\ MenuInit /\ (part # "menus" => tabs.active = 1 /\ tabs.fades)
  /\ ScrollInit /\ (part # "scroll" => layout.height = 12 /\ affix.fixedTop = 0)

\* The other parts stand still.
Rest(p) ==
  /\ part = p /\ UNCHANGED part
  /\ p # "callbacks" => UNCHANGED callbacksVars
  /\ p # "deferreds" => UNCHANGED deferredsVars
  /\ p # "events" => UNCHANGED eventsVars
  /\ p # "data" => UNCHANGED dataVars
  /\ p # "ready" => UNCHANGED readyVars
  /\ p # "forms" => UNCHANGED formVars
  /\ p # "bbEvents" => UNCHANGED bbEventsVars
  /\ p # "model" => UNCHANGED modelVars
  /\ p # "collection" => UNCHANGED collectionVars
  /\ p # "page" => UNCHANGED pageVars
  /\ p # "canvas" => UNCHANGED canvasVars
  /\ p # "dates" => UNCHANGED dateVars
  /\ p # "arrays" => UNCHANGED arrayVars
  /\ p # "collapse" => UNCHANGED collapseVars
  /\ p # "menus" => UNCHANGED menuVars
  /\ p # "scroll" => UNCHANGED spyVars
  /\ p # "loader" => UNCHANGED loaderVars
  /\ p # "scopes" => UNCHANGED scopesVars
  /\ p # "pool" => UNCHANGED poolVars
  /\ p # "file" => UNCHANGED localFileVars
  /\ p # "cscopes" => UNCHANGED cscopeVars
  /\ p # "table" => UNCHANGED tableVars

Next ==
  \/ Rest("callbacks") /\ CallbacksNext
  \/ Rest("deferreds") /\ DeferredsNext
  \/ Rest("events") /\ EventsNext
  \/ Rest("data") /\ DataNext
  \/ Rest("ready") /\ ReadyNext
  \/ Rest("forms") /\ FormNext
  \/ Rest("bbEvents") /\ BBEventsNext
  \/ Rest("model") /\ ModelNext
  \/ Rest("collection") /\ CollectionNext
  \/ Rest("page") /\ SearchPageNext
  \/ Rest("canvas") /\ CanvasNext
  \/ Rest("dates") /\ DatesNext
  \/ Rest("arrays") /\ ArrayNext
  \/ Rest("collapse") /\ CollapseNext
  \/ Rest("menus") /\ MenuNext
  \/ Rest("scroll") /\ ScrollNext
  \/ Rest("loader") /\ LoaderNext
  \/ Rest("scopes") /\ ScopesNext
  \/ Rest("pool") /\ PoolNext
  \/ Rest("file") /\ LocalFileNext
  \/ Rest("cscopes") /\ CScopesNext
  \/ Rest("table") /\ HTableNext

Spec == Init /\ [][Next]_allVars
-----------------------------------------------------------------------------
\* jQuery's lists of callbacks and its promises: the firing loop stays in its list however that
\* changes, fire calls are neither lost nor reordered, with "once" every callback still runs; a
\* deferred settles once, its callbacks run once and in order, then() follows what its function
\* returned, and when() waits for all.
CallbacksAreServed ==
  /\ SettlesOnce
  /\ [](/\ part = "callbacks" => LoopStaysInList /\ FiresInOrder /\ OnceRunsEveryCallback
        /\ part = "deferreds" => CallbacksRunOnceInOrder /\ ThenFollows /\ WhenWaitsForAll)

\* jQuery's state of the page: native listeners are there exactly while handlers are, delegated
\* handlers come first, a stopped event goes no further; data() reads what was written last, ready
\* waits for the document and for all holds, class names are a set, and val() gives back what
\* val(...) asked for.
PageStateIsExact ==
  /\ HoldsDelayReady
  /\ [](/\ part = "events" => ListenersMatchHandlers /\ DelegatesComeFirst /\ EventsStop
        /\ part \in {"data", "ready", "forms"} =>
             CamelReadsLatest /\ ReadyWaitsForHolds /\ ClassesAreASet /\ ValIsGivenBack)

\* Backbone: once means once, a listener can take all its callbacks off, every change is announced,
\* against the attributes before the outermost set(); the indexes of a collection are those of its
\* models, it hears exactly these, and set() makes it what the server sent while it keeps the
\* models it has.
ModelsAnnounceChanges ==
  /\ PreviousIsKept /\ SetKeepsModels
  /\ [](/\ part \in {"bbEvents", "model"} =>
             OnceMeansOnce /\ ListenersAreKnown /\ ChangedIsTheDifference /\ ChangesAreAnnounced
        /\ part = "collection" => IndexIsExact /\ HearsItsModels /\ MatchesResponse)

\* The search page: the time line has an extent and a zoom fits it, results are distinct and
\* drawn, and Clear removes exactly what is selected.
SearchPageIsRight ==
  /\ ClearIsPrecise
  /\ [](part = "page" => TimeLineHasExtent /\ ZoomFits /\ ResultsAreDistinct /\ DrawnIsCurrent
                           /\ ElementsAreDistinct)

\* The widgets of the canvas: a button fires under the mouse only, the partition stays in view,
\* and a release ends every gesture.
GesturesAreSound == part = "canvas" => FiresUnderTheMouse /\ PartitionStaysInView /\ ReleaseEndsGestures

\* Dates: units, weeks, offsets, differences and durations agree with the calendar, and a date is
\* read as what it says.
DatesAreExact ==
  part = "dates" => UnitsBracket /\ WeeksRoundTrip /\ OffsetsKeepTime
                      /\ DifferencesAddUp /\ DurationsBubble /\ DatesAreReadExactly

\* Underscore: searches, sets, orders and objects are what their definitions say, and isEqual
\* tells apart all objects that differ.
UnderscoreIsRight ==
  part = "arrays" => SearchesFind /\ ArraysAsSets /\ OrderIsKept /\ ObjectsAreMerged /\ EqualIsAlike

\* Bootstrap's widgets of which one at a time is open, active or shown: panels, menus, tabs,
\* targets of the scroll position, places of an affixed element, texts of a button.
ChoicesAreExclusive ==
  part \in {"collapse", "menus", "scroll"} =>
    /\ AccordionHasOneOpen /\ OneMenuIsOpen /\ TabShowsItsPane
    /\ SpyMatchesScroll /\ AffixIsSettled /\ ButtonShowsLast

\* The loader: what is served is all of one datastore with every shard in its place, and stored
\* spans are not removed but by data.store.clear.
LoadedStoreIsWhole == OnlyClearingRemoves /\ [](part = "loader" => ServedStoreIsWhole)

\* The Java client: the scopes of a thread are nested and its tracers know it, receivers that a
\* tracer uses stay open and close once, and the file receiver keeps what it was given.
TracersAreSound ==
  /\ UsedReceiversStay
  /\ [](/\ part = "scopes" => DepthIsExact /\ ScopesAreNested
        /\ part = "pool" => ReceiversCloseOnce /\ LastTracerClosesReceivers
        /\ part = "file" => FileSpansAreKept)

\* The C client: a span has one owner and the parent of its scope, and the hash table of its
\* configuration is a function in which every search stops.
CClientIsSound ==
  /\ part = "cscopes" => CSpansHaveOneOwner /\ AttachedParentsAreRight
  /\ part = "table" => TableIsAFunction /\ SearchesStop
-----------------------------------------------------------------------------
Opts == SUBSET {"once", "memory", "unique", "stopOnFalse"}

Order == [begin |-> <<1, 2, 3>>, duration |-> <<3, 2, 1>>]
Times(self, parent, child) == [self |-> self, parent |-> parent, child |-> child]
Begins == <<Times(0, 0, 256), Times(256, 0, 512), Times(5120, 2560, 5120)>>
Ends == <<Times(512, 2560, 512), Times(2560, 5120, 1280), Times(5376, 7680, 5376)>>

Boxes == [up |-> [x \in 0 .. ViewX |-> <<x + Width + 2, x + Width + 3>>],
          down |-> [x \in 0 .. ViewX |-> <<x + Width + 5, x + Width + 6>>]]

Days == {TheLeapDay, StartOf(2016, 0, 31, 86399999), StartOf(1969, 11, 31, 82800000),
         StartOf(2015, 11, 31, 5025007), StartOf(9999, 11, 31, 86399999)}
Steps13 == {-13, 1}

PageClasses == <<"a", "b", "a">>
PageOptions == <<1, 2, 1, 3>>

PageLayouts == {[height |-> 12, offsets |-> <<2, 5, 9>>], [height |-> 14, offsets |-> <<2, 7, 11>>]}

\* Receiver classes that tracers share.
SharedClasses == [A |-> <<"R">>, B |-> <<"R", "Q">>, C |-> <<"Q">>]

\* Keys a and b collide in tables of up to 8 places, and wrap around into the place of c.
SmallHash(k, capacity) == (CASE k = "a" -> 15 [] k = "b" -> 7 [] OTHER -> 0) % capacity
=============================================================================
