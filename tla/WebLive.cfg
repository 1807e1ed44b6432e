SPECIFICATION Spec
CONSTANTS
  Parts <- AllParts
  MaxItems = 3
  MaxCallbackOps = 1
  Durations = {0, 1}
  Requests = {1, 2}
  Settings <- AjaxSettings
  Wait = 3
  LastCall = 8
  MaxTime = 16
  MaxMoves = 3
  TheSpan = 1
  ParentIds <- ParentsC
  ChildIds <- ChildrenC
  BeginTime <- BeginC
  Limits = {1, 9}
  MaxClicks = 2
  SpanIds = {1, 2, 3}
  StartTimes = {0, 1}
  MaxModalOps = 6
  Delays = {0, 2}
  TipSize = 4
  ViewSize = 10
  Padding = 1
  ElementPlaces = {5, 16}
  Scrolls = {3, 8}
  MaxTipOps = 4
  NumItems = 3
  MaxCarouselOps = 4
PROPERTY TimersAreOrderly
PROPERTY RequestsAreOrderly
INVARIANT PagesFollowHash
INVARIANT SpanTreesAreWhole
INVARIANT WidgetsAreWhole
PROPERTY BegunIsEnded
CHECK_DEADLOCK FALSE
